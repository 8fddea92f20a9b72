---------------------------- MODULE KernelProofs ----------------------------
(***************************************************************************)
(* Proofs about the parts that all modules stand on, for any number of     *)
(* pulses, requests, modules, keys, subscribers and alarms.                *)
(***************************************************************************)
EXTENDS PulsePersistence, Startup, DataEvents, Alarms, ReleaseUpgrade, FiniteSetTheorems,
        FunctionTheorems, TLAPS
-----------------------------------------------------------------------------
(* The count of a pulse input (PulsePersistence) *)

Values == [count : Nat, generation : Nat, token : 0..1]

(* Value a was, or is, the count of which p is the present one.            *)
Past(a, p) ==
    \/ a.generation < p.generation
    \/ a.generation = p.generation /\ a.token = p.token /\ a.count <= p.count

ToReset == IF request.state = "Requested" /\ request.reset THEN 1 ELSE 0

(* What is counted was pulsed, and what is reset was asked.                *)
PulseRanges ==
    /\ used \in [pulses : 0..MaxPulses, asked : 0..MaxAsked, mishaps : 0..MaxMishaps]
    /\ unread \in Nat /\ token \in 0..1
    /\ pulse \in Values /\ pulse.count + unread <= used.pulses
    /\ pulse.generation + ToReset + (IF pulse.token = token THEN 0 ELSE 1) <= used.asked
    /\ \A v \in {persisted, onItsWay, nvs, owed, promised} :
          v \in Values /\ v.count <= used.pulses /\ v.generation <= used.asked
    /\ request \in [state : {"Idle", "Requested", "Saving", "Complete"}, reset : BOOLEAN,
                    old : BOOLEAN, result : Result]
    /\ io \in Places

PulseFlags == retry \in BOOLEAN /\ waiting \in BOOLEAN /\ givenUp \in BOOLEAN

(* The copies of the count are of its past, NVS the most recent of those   *)
(* that are written; what is to be written is more recent.                 *)
Copies ==
    /\ receipt \in Receipt
    /\ Past(persisted, pulse) /\ Past(onItsWay, pulse) /\ Past(nvs, pulse)
    /\ Covers(nvs, persisted)
    /\ receipt = "Succeeded" => onItsWay = nvs
    /\ receipt = "Pending" => blob = onItsWay /\ Covers(blob, nvs)
    /\ receipt # "Pending" => blob = NoBlob

(* How far a request is, and where what was asked has got.                 *)
Requests ==
    /\ io = "Take" => request.state = "Requested"
    /\ io \in {"Submit", "SeeReceipt"} => request.state = "Saving"
    /\ io = "Submit" => receipt # "Pending" /\ Covers(pulse, owed)
    /\ request.state = "Requested" =>
          IF request.reset THEN Covers(ResetCount(pulse), owed) ELSE Covers(pulse, owed)
    /\ request.state = "Saving" /\ io # "Submit" =>
          CASE receipt = "Pending" -> Covers(blob, owed)
            [] receipt = "Failed" -> TRUE
            [] OTHER -> Covers(nvs, owed)
    /\ request.state = "Complete" /\ request.result = "Ok" => Covers(nvs, owed)

(* What its caller has given up before it was taken is never taken.        *)
Forgotten ==
    givenUp => \/ request.state = "Requested" /\ request.old /\ io = "Loop"
               \/ request.state = "Complete"

PulseInv == PulseRanges /\ Copies /\ Requests /\ SavedForGood /\ Forgotten

LEMMA PulseInvInit == PulseInit => PulseInv
BY PulseAssumption
DEF PulseInit, PulseInv, PulseRanges, Copies, Requests, SavedForGood, Forgotten, Values, Zero,
    Covers, Past, ToReset, Receipt, Places, Result

(* A checkpoint of a count that has grown leaves copies of its past.       *)
LEMMA CheckpointKeeps ==
    ASSUME PulseRanges, Copies, NEW force \in BOOLEAN, checkpointPulses(pulse', force),
           pulse' \in Values, pulse'.count <= used.pulses, pulse'.generation <= used.asked,
           Past(pulse, pulse'), UNCHANGED nvs
    PROVE  /\ Copies' /\ {persisted', onItsWay'} \subseteq {persisted, onItsWay, pulse'}
           /\ used' \in [pulses : 0..MaxPulses, asked : 0..MaxAsked, mishaps : 0..MaxMishaps]
           /\ used'.pulses = used.pulses /\ used'.asked = used.asked
<1>1. /\ used' \in [pulses : 0..MaxPulses, asked : 0..MaxAsked, mishaps : 0..MaxMishaps]
      /\ used'.pulses = used.pulses /\ used'.asked = used.asked
  BY PulseAssumption DEF checkpointPulses, Hands, Uses, PulseRanges
<1>2. {persisted', onItsWay'} \subseteq {persisted, onItsWay, pulse'}
  BY DEF checkpointPulses, Harvested
<1>3. Past(persisted, pulse') /\ Past(onItsWay, pulse') /\ Past(nvs, pulse') /\ Past(pulse', pulse')
  BY DEF PulseRanges, Values, Copies, Past
<1>4. Covers(nvs, Harvested) /\ Covers(pulse', nvs)
  BY <1>3 DEF PulseRanges, Values, Copies, Covers, Past, Harvested
<1>5. Past(persisted', pulse') /\ Past(onItsWay', pulse') /\ Past(nvs', pulse')
  BY <1>2, <1>3
<1>6. CASE receipt = "Pending"
  BY <1>1, <1>2, <1>5, <1>6 DEF checkpointPulses, Copies
<1>7. CASE receipt # "Pending"
  <2>1. Covers(nvs', persisted')
    BY <1>4, <1>7 DEF checkpointPulses
  <2>2. \/ receipt' = "Idle" /\ UNCHANGED blob
        \/ receipt' = "Pending" /\ blob' = pulse' /\ onItsWay' = pulse'
    BY <1>7 DEF checkpointPulses, Hands, AfterRefusal
  <2>3. CASE receipt' = "Idle" /\ UNCHANGED blob
    BY <1>1, <1>2, <1>5, <1>7, <2>1, <2>3 DEF Copies, Receipt
  <2>4. CASE receipt' = "Pending" /\ blob' = pulse' /\ onItsWay' = pulse'
    BY <1>1, <1>2, <1>4, <1>5, <2>1, <2>4 DEF Copies, Receipt
  <2> QED BY <2>2, <2>3, <2>4
<1> QED BY <1>6, <1>7

(* The reset and the sample of n pulses only add to the count.             *)
LEMMA ResetGrows ==
    ASSUME NEW p \in Values
    PROVE  /\ ResetCount(p) \in Values /\ Past(p, ResetCount(p))
           /\ ResetCount(p).count = 0 /\ ResetCount(p).generation = p.generation + 1
           /\ ResetCount(p).token = p.token
<1>1. p.generation + 1 \in Nat
  BY DEF Values
<1>2. \A n \in Nat : [p EXCEPT !.count = 0, !.generation = n] \in Values
  BY DEF Values
<1>3. ResetCount(p) \in Values
  BY <1>1, <1>2 DEF ResetCount
<1>4. /\ ResetCount(p).count = 0 /\ ResetCount(p).generation = p.generation + 1
      /\ ResetCount(p).token = p.token
  BY DEF Values, ResetCount
<1>5. Past(p, ResetCount(p))
  BY <1>4 DEF Values, Past
<1> QED BY <1>3, <1>4, <1>5

LEMMA SamplingGrows ==
    ASSUME NEW p \in Values, NEW n \in Nat, token \in 0..1
    PROVE  /\ Sampled(p, n) \in Values /\ Past(p, Sampled(p, n))
           /\ Sampled(p, n).count <= p.count + n
           /\ Sampled(p, n).token = token
           /\ Sampled(p, n).generation = p.generation + IF p.token = token THEN 0 ELSE 1
<1>1. CASE p.token = token
  <2>1. Sampled(p, n) = [p EXCEPT !.count = @ + n]
    BY <1>1 DEF Sampled
  <2> QED BY <1>1, <2>1 DEF Values, Past
<1>2. CASE p.token # token
  <2>1. Sampled(p, n) = [ResetCount(p) EXCEPT !.token = token]
    BY <1>2 DEF Sampled
  <2>2. /\ Sampled(p, n) \in Values /\ Sampled(p, n).token = token
        /\ Sampled(p, n).count = 0 /\ Sampled(p, n).generation = p.generation + 1
    BY <2>1, ResetGrows DEF Values
  <2> QED BY <1>2, <2>2 DEF Values, Past
<1> QED BY <1>1, <1>2

LEMMA PastCovers ==
    ASSUME NEW a \in Values, NEW b \in Values, NEW c \in Values, Past(b, c)
    PROVE  /\ Covers(c, b)
           /\ Covers(b, a) => Covers(c, a)
           /\ Covers(ResetCount(b), a) => Covers(ResetCount(c), a)
           /\ Past(a, b) => Past(a, c)
<1>1. Covers(c, b) /\ (Covers(b, a) => Covers(c, a)) /\ (Past(a, b) => Past(a, c))
  BY DEF Values, Past, Covers
<1>2. Covers(ResetCount(b), a) => Covers(ResetCount(c), a)
  BY ResetGrows DEF Values, Past, Covers
<1> QED BY <1>1, <1>2

LEMMA LoopKeeps ==
    ASSUME PulseInv, Loop
    PROVE  PulseInv'
<1> USE DEF PulseInv
<1>0. Sampled(pulse, unread) = pulse'
  BY DEF Loop
<1>1. /\ pulse' \in Values /\ Past(pulse, pulse')
      /\ pulse'.count <= used.pulses
      /\ pulse'.token = token
      /\ pulse'.generation = pulse.generation + (IF pulse.token = token THEN 0 ELSE 1)
  <2>1. pulse \in Values /\ unread \in Nat /\ token \in 0..1
        /\ pulse.count + unread <= used.pulses /\ used.pulses \in Nat
    BY PulseAssumption DEF PulseRanges
  <2>2. pulse' \in Values /\ pulse'.count <= pulse.count + unread
    BY <1>0, <2>1, SamplingGrows
  <2>3. /\ pulse'.token = token /\ Past(pulse, pulse')
        /\ pulse'.generation = pulse.generation + (IF pulse.token = token THEN 0 ELSE 1)
    BY <1>0, <2>1, SamplingGrows
  <2>4. pulse'.count <= used.pulses
    BY <2>1, <2>2 DEF Values
  <2> QED BY <2>2, <2>3, <2>4
<1>2. unread' = 0 /\ token' = token /\ UNCHANGED <<nvs, owed, promised, givenUp>>
  BY DEF Loop
<1>3. pulse'.generation + ToReset <= used.asked
  BY <1>1 DEF Values, ToReset, PulseRanges
<1>4. pulse'.generation <= used.asked
  BY <1>1, <1>3 DEF Values, ToReset, PulseRanges
<1>5. Past(nvs, pulse') /\ Past(persisted, pulse') /\ Past(onItsWay, pulse')
  BY <1>1, PastCovers DEF Copies, PulseRanges
<1>6. SavedForGood'
  BY <1>2 DEF SavedForGood
<1>7. request.state = "Requested" =>
         IF request.reset THEN Covers(ResetCount(pulse'), owed) ELSE Covers(pulse', owed)
  BY <1>1, PastCovers DEF Requests, PulseRanges
<1>8. CASE request.state = "Requested" /\ Expired
  <2>1. /\ request' = [request EXCEPT !.state = "Complete", !.result = "Error"] /\ io' = "Loop"
        /\ UNCHANGED <<persisted, onItsWay, receipt, blob, used>>
    BY <1>8 DEF Loop, finish
  <2>2. ToReset' = 0
    BY <2>1 DEF ToReset, PulseRanges
  <2>3. request' \in [state : {"Idle", "Requested", "Saving", "Complete"}, reset : BOOLEAN,
                       old : BOOLEAN, result : Result]
    BY <2>1 DEF PulseRanges, Result
  <2>4. pulse'.count + unread' <= used'.pulses
    BY <1>1, <1>2, <2>1 DEF Values
  <2>5. pulse'.generation + ToReset' + (IF pulse'.token = token' THEN 0 ELSE 1) <= used'.asked
    BY <1>1, <1>2, <1>4, <2>1, <2>2 DEF Values
  <2>6. PulseRanges'
    BY <1>1, <1>2, <2>1, <2>3, <2>4, <2>5 DEF PulseRanges, Places
  <2>7. Copies' /\ Requests' /\ Forgotten'
    BY <1>2, <1>5, <2>1 DEF Copies, Requests, Forgotten, PulseRanges
  <2> QED BY <1>6, <2>6, <2>7
<1>9. CASE request.state = "Saving"
  <2>1. io' = "SeeReceipt" /\ UNCHANGED <<request, persisted, onItsWay, receipt, blob, used>>
    BY <1>9 DEF Loop
  <2>2. PulseRanges'
    BY <1>1, <1>2, <1>3, <2>1 DEF PulseRanges, ToReset, Values, Places
  <2>3. Copies' /\ Requests' /\ Forgotten'
    BY <1>2, <1>5, <1>9, <2>1 DEF Loop, Copies, Requests, Forgotten
  <2> QED BY <1>6, <2>2, <2>3
<1>10. CASE ~(request.state = "Requested" /\ Expired) /\ request.state # "Saving"
  <2>1. checkpointPulses(pulse', FALSE) /\ UNCHANGED request
    BY <1>10 DEF Loop, Expired
  <2>2. io' \in {"Loop", "Take"} /\ (io' = "Take" => request.state = "Requested" /\ ~request.old)
    BY <1>10 DEF Loop, Expired
  <2>3. /\ Copies' /\ {persisted', onItsWay'} \subseteq {persisted, onItsWay, pulse'}
        /\ used' \in [pulses : 0..MaxPulses, asked : 0..MaxAsked, mishaps : 0..MaxMishaps]
        /\ used'.pulses = used.pulses /\ used'.asked = used.asked
    BY <1>1, <1>2, <1>4, <2>1, CheckpointKeeps
  <2>4. ToReset' = ToReset
    BY <2>1 DEF ToReset
  <2>5. \A v \in {persisted', onItsWay', nvs', owed', promised'} :
           v \in Values /\ v.count <= used'.pulses /\ v.generation <= used'.asked
    BY <1>1, <1>2, <1>4, <2>3 DEF PulseRanges
  <2>6. /\ pulse'.count + unread' <= used'.pulses
        /\ pulse'.generation + ToReset' + (IF pulse'.token = token' THEN 0 ELSE 1) <= used'.asked
    BY <1>1, <1>2, <1>3, <2>3, <2>4 DEF Values, ToReset
  <2>7. PulseRanges'
    BY <1>1, <1>2, <2>1, <2>2, <2>3, <2>5, <2>6 DEF PulseRanges, Places
  <2>8. Requests' /\ Forgotten'
    BY <1>2, <1>7, <1>10, <2>1, <2>2 DEF Requests, Forgotten
  <2> QED BY <1>6, <2>3, <2>7, <2>8
<1> QED BY <1>8, <1>9, <1>10

LEMMA TakeKeeps ==
    ASSUME PulseInv, Take
    PROVE  PulseInv' /\ (request'.state = "Saving" => ~givenUp)
<1> USE DEF PulseInv
<1>1. /\ io = "Take" /\ request.state = "Requested" /\ ~givenUp
      /\ UNCHANGED <<token, persisted, onItsWay, receipt, blob, nvs, owed, promised, givenUp>>
  BY DEF Take, Requests, Forgotten
<1>2. SavedForGood' /\ Forgotten'
  BY <1>1 DEF SavedForGood, Forgotten
<1>3. CASE Wait
  BY <1>1, <1>2, <1>3 DEF Wait, PulseRanges, Places, ToReset, Copies, Requests
<1>4. CASE Refuse
  <2>1. /\ receipt # "Pending" /\ UNCHANGED <<pulse, unread>>
        /\ request' = [request EXCEPT !.state = "Complete", !.result = "Error"] /\ io' = "Loop"
    BY <1>4 DEF Refuse, finish
  <2>2. /\ used' \in [pulses : 0..MaxPulses, asked : 0..MaxAsked, mishaps : 0..MaxMishaps]
        /\ used'.pulses = used.pulses /\ used'.asked = used.asked
    BY <1>4, PulseAssumption DEF Refuse, Uses, PulseRanges
  <2>3. request' \in [state : {"Idle", "Requested", "Saving", "Complete"}, reset : BOOLEAN,
                       old : BOOLEAN, result : Result]
    BY <2>1 DEF PulseRanges, Result
  <2>4. /\ pulse'.generation + ToReset' + (IF pulse'.token = token' THEN 0 ELSE 1) <= used'.asked
    BY <1>1, <2>1, <2>2 DEF PulseRanges, ToReset, Values
  <2>5. PulseRanges'
    BY <1>1, <2>1, <2>2, <2>3, <2>4 DEF PulseRanges, Places
  <2>6. Copies' /\ Requests'
    BY <1>1, <2>1 DEF Copies, Requests, PulseRanges
  <2> QED BY <1>1, <1>2, <2>5, <2>6
<1>5. CASE Accept
  <2> DEFINE before == IF request.reset THEN ResetCount(pulse) ELSE pulse
             n == IF request.reset THEN 0 ELSE unread
  <2>1. /\ receipt # "Pending" /\ unread' = 0 /\ UNCHANGED used /\ io' = "Submit"
        /\ request' = [request EXCEPT !.state = "Saving"] /\ pulse' = Sampled(before, n)
    BY <1>5 DEF Accept
  <2>2. /\ pulse \in Values /\ unread \in Nat /\ token \in 0..1 /\ used.pulses \in Nat
        /\ pulse.count + unread <= used.pulses
    BY PulseAssumption DEF PulseRanges
  <2>3. /\ before \in Values /\ n \in Nat /\ Past(pulse, before) /\ Covers(before, owed)
        /\ before.count + n <= used.pulses
        /\ before.generation = pulse.generation + ToReset /\ before.token = pulse.token
    <3>1. CASE request.reset
      BY <1>1, <2>2, <3>1, ResetGrows DEF Requests, ToReset, Values
    <3>2. CASE ~request.reset
      BY <1>1, <2>2, <3>2 DEF Requests, ToReset, Values, Past
    <3> QED BY <3>1, <3>2
  <2> HIDE DEF before, n
  <2>4. /\ pulse' \in Values /\ Past(before, pulse') /\ pulse'.count <= used.pulses
        /\ pulse'.token = token
        /\ pulse'.generation = before.generation + (IF before.token = token THEN 0 ELSE 1)
    <3>1. pulse' \in Values /\ pulse'.count <= before.count + n
      BY <2>1, <2>2, <2>3, SamplingGrows
    <3> QED BY <2>1, <2>2, <2>3, <3>1, SamplingGrows DEF Values
  <2>5. Past(pulse, pulse') /\ Covers(pulse', owed)
    BY <2>2, <2>3, <2>4, PastCovers DEF PulseRanges
  <2>6. pulse'.generation + 0 + (IF pulse'.token = token THEN 0 ELSE 1) <= used.asked
    BY <1>1, <2>2, <2>3, <2>4 DEF PulseRanges, Values, ToReset
  <2>7. request' \in [state : {"Idle", "Requested", "Saving", "Complete"}, reset : BOOLEAN,
                       old : BOOLEAN, result : Result] /\ request'.state = "Saving"
    BY <2>1 DEF PulseRanges
  <2>8. PulseRanges'
    <3>1. ToReset' = 0
      BY <2>7 DEF ToReset
    <3>2. pulse'.count + unread' <= used'.pulses
      BY <2>1, <2>4 DEF Values
    <3> QED BY <1>1, <2>1, <2>4, <2>6, <2>7, <3>1, <3>2 DEF PulseRanges, Places
  <2>9. Copies'
    BY <1>1, <2>2, <2>4, <2>5, PastCovers DEF Copies, PulseRanges
  <2>10. Requests'
    BY <1>1, <2>1, <2>5, <2>7 DEF Requests
  <2> QED BY <1>1, <1>2, <2>8, <2>9, <2>10
<1> QED BY <1>3, <1>4, <1>5 DEF Take

LEMMA SubmitKeeps ==
    ASSUME PulseInv, Submit
    PROVE  PulseInv'
<1> USE DEF PulseInv
<1>1. /\ io = "Submit" /\ request.state = "Saving" /\ receipt # "Pending" /\ Covers(pulse, owed)
      /\ UNCHANGED <<unread, pulse, token, nvs, owed, promised, givenUp>>
  BY DEF Submit, Requests
<1>2. /\ pulse' \in Values /\ pulse'.count <= used.pulses /\ pulse'.generation <= used.asked
      /\ Past(pulse, pulse')
  BY <1>1, PulseAssumption DEF PulseRanges, Values, Past, ToReset
<1>3. checkpointPulses(pulse', TRUE)
  BY <1>1 DEF Submit
<1>4. /\ Copies' /\ {persisted', onItsWay'} \subseteq {persisted, onItsWay, pulse'}
      /\ used' \in [pulses : 0..MaxPulses, asked : 0..MaxAsked, mishaps : 0..MaxMishaps]
      /\ used'.pulses = used.pulses /\ used'.asked = used.asked
  BY <1>1, <1>2, <1>3, CheckpointKeeps
<1>5. ~retry' => \/ receipt' = "Pending" /\ blob' = pulse
                 \/ receipt' = "Idle" /\ (pulse = persisted \/ pulse = nvs)
  BY <1>1 DEF Submit, checkpointPulses, Hands, Dirty, Harvested, Copies
<1>6. /\ request' \in [state : {"Idle", "Requested", "Saving", "Complete"}, reset : BOOLEAN,
                        old : BOOLEAN, result : Result]
      /\ \/ request'.state = "Complete" /\ request'.result = "Error" /\ io' = "Loop"
         \/ ~retry' /\ UNCHANGED request /\ io' = "SeeReceipt"
  BY DEF Submit, finish, PulseRanges, Result
<1>7. PulseRanges'
  <2>1. ToReset' = 0 /\ ToReset = 0
    BY <1>1, <1>6 DEF ToReset
  <2>2. /\ pulse'.count + unread' <= used'.pulses
        /\ pulse'.generation + ToReset' + (IF pulse'.token = token' THEN 0 ELSE 1) <= used'.asked
    BY <1>1, <1>4, <2>1 DEF PulseRanges
  <2>3. \A v \in {persisted', onItsWay', nvs', owed', promised'} :
           v \in Values /\ v.count <= used'.pulses /\ v.generation <= used'.asked
    BY <1>1, <1>2, <1>4 DEF PulseRanges
  <2> QED BY <1>1, <1>2, <1>4, <1>6, <2>2, <2>3 DEF PulseRanges, Places
<1>8. (pulse = persisted \/ pulse = nvs) => Covers(nvs, owed)
  BY <1>1 DEF Copies, Covers, PulseRanges, Values
<1>9. Requests'
  BY <1>1, <1>5, <1>6, <1>8 DEF Requests
<1> QED BY <1>1, <1>4, <1>6, <1>7, <1>9 DEF SavedForGood, Forgotten

LEMMA AskKeeps ==
    ASSUME PulseInv, NEW reset \in BOOLEAN, Ask(reset)
    PROVE  PulseInv'
<1> USE DEF PulseInv
<1>1. /\ request.state \in {"Idle", "Complete"} /\ io = "Loop" /\ ~givenUp'
      /\ request' = [request EXCEPT !.state = "Requested", !.reset = reset, !.old = FALSE]
      /\ owed' = IF reset THEN ResetCount(pulse) ELSE pulse
      /\ UNCHANGED <<unread, pulse, token, persisted, onItsWay, receipt, blob, nvs, io, promised>>
  BY DEF Ask, MayAsk, Requests, PulseRanges, Places
<1>2. /\ used' \in [pulses : 0..MaxPulses, asked : 0..MaxAsked, mishaps : 0..MaxMishaps]
      /\ used'.pulses = used.pulses /\ used'.asked = used.asked + 1
  BY PulseAssumption DEF Ask, Uses, PulseRanges
<1>3. request' \in [state : {"Idle", "Requested", "Saving", "Complete"}, reset : BOOLEAN,
                     old : BOOLEAN, result : Result]
      /\ request'.state = "Requested" /\ request'.reset = reset
  BY <1>1 DEF PulseRanges
<1>4. /\ pulse \in Values /\ used.asked \in Nat /\ used.pulses \in Nat
      /\ pulse.generation + (IF pulse.token = token THEN 0 ELSE 1) <= used.asked
      /\ pulse.generation <= used.asked /\ pulse.count <= used.pulses
  BY <1>1, PulseAssumption DEF PulseRanges, ToReset, Values
<1>5. /\ owed' \in Values /\ owed'.count <= used.pulses /\ owed'.generation <= used.asked + 1
      /\ IF reset THEN Covers(ResetCount(pulse), owed') ELSE Covers(pulse, owed')
  BY <1>1, <1>4, ResetGrows DEF Values, Covers
<1>6. PulseRanges'
  <2>1. pulse'.generation + ToReset' + (IF pulse'.token = token' THEN 0 ELSE 1) <= used'.asked
    BY <1>1, <1>2, <1>3, <1>4 DEF ToReset, Values
  <2>2. \A v \in {persisted, onItsWay, nvs, owed', promised} :
           v \in Values /\ v.count <= used'.pulses /\ v.generation <= used'.asked
    BY <1>2, <1>4, <1>5 DEF PulseRanges, Values
  <2> QED BY <1>1, <1>2, <1>3, <2>1, <2>2 DEF PulseRanges
<1>7. Copies' /\ Requests' /\ SavedForGood' /\ Forgotten'
  BY <1>1, <1>3, <1>5 DEF Copies, Requests, SavedForGood, Forgotten
<1> QED BY <1>6, <1>7

LEMMA CallerKeeps ==
    ASSUME PulseInv, Answer \/ TwoSeconds \/ GiveUp
    PROVE  PulseInv'
<1> USE DEF PulseInv
<1>1. CASE Answer
  <2>1. SavedForGood' /\ promised' \in {promised, owed}
    BY <1>1 DEF Answer, SavedForGood, Requests
  <2> QED
    BY <1>1, <2>1 DEF Answer, PulseRanges, ToReset, Copies, Requests, Forgotten
<1>2. CASE TwoSeconds
  <2>1. request' = [request EXCEPT !.old = TRUE]
        /\ UNCHANGED <<unread, pulse, token, persisted, onItsWay, receipt, blob, nvs, io, owed,
                      promised, givenUp, used>>
    BY <1>2 DEF TwoSeconds
  <2>2. /\ request' \in [state : {"Idle", "Requested", "Saving", "Complete"}, reset : BOOLEAN,
                         old : BOOLEAN, result : Result]
        /\ request'.state = request.state /\ request'.reset = request.reset /\ request'.old
        /\ request'.result = request.result
    BY <2>1 DEF PulseRanges
  <2> QED
    BY <2>1, <2>2 DEF PulseRanges, ToReset, Copies, Requests, SavedForGood, Forgotten
<1>3. CASE GiveUp
  <2>1. UNCHANGED <<unread, pulse, token, persisted, onItsWay, receipt, blob, nvs, io, owed,
                    promised, used, request>>
    BY <1>3 DEF GiveUp
  <2>2. Forgotten'
    BY <1>3, <2>1 DEF GiveUp, Forgotten
  <2> QED
    BY <2>1, <2>2 DEF PulseRanges, ToReset, Copies, Requests, SavedForGood
<1> QED BY <1>1, <1>2, <1>3

LEMMA SeeReceiptKeeps ==
    ASSUME PulseInv, SeeReceipt
    PROVE  PulseInv'
<1> USE DEF PulseInv
<1>1. /\ io = "SeeReceipt" /\ request.state = "Saving"
      /\ UNCHANGED <<unread, pulse, token, persisted, onItsWay, receipt, blob, nvs, owed,
                     promised, givenUp, used>>
  BY DEF SeeReceipt, Requests
<1>2. /\ io' = "Loop"
      /\ request' \in [state : {"Idle", "Requested", "Saving", "Complete"}, reset : BOOLEAN,
                        old : BOOLEAN, result : Result]
      /\ \/ request'.state = "Complete" /\ receipt # "Pending"
            /\ (request'.result = "Ok" => receipt # "Failed")
         \/ UNCHANGED request
  BY DEF SeeReceipt, finish, PulseRanges, Result
<1>3. ToReset' = 0 /\ ToReset = 0
  BY <1>1, <1>2 DEF ToReset
<1>4. PulseRanges'
  BY <1>1, <1>2, <1>3 DEF PulseRanges, Places
<1>5. Requests'
  BY <1>1, <1>2 DEF Requests
<1> QED BY <1>1, <1>2, <1>4, <1>5 DEF Copies, SavedForGood, Forgotten

(* A write leaves NVS with what covers it.                                 *)
LEMMA WriteKeeps ==
    ASSUME PulseInv, Write
    PROVE  PulseInv'
<1> USE DEF PulseInv
<1>1. /\ receipt = "Pending" /\ blob = onItsWay /\ Covers(blob, nvs) /\ blob' = NoBlob
      /\ UNCHANGED <<unread, pulse, token, persisted, onItsWay, request, io, owed, promised,
                     givenUp>>
  BY DEF Write, Copies
<1>2. \/ nvs' = onItsWay /\ receipt' = "Succeeded"
      \/ nvs' = nvs /\ receipt' = "Failed"
  BY <1>1 DEF Write
<1>3. /\ used' \in [pulses : 0..MaxPulses, asked : 0..MaxAsked, mishaps : 0..MaxMishaps]
      /\ used'.pulses = used.pulses /\ used'.asked = used.asked
  BY PulseAssumption DEF Write, Uses, PulseRanges
<1>4. PulseRanges'
  BY <1>1, <1>2, <1>3 DEF PulseRanges, ToReset
<1>5. Covers(nvs', nvs) /\ nvs' \in Values
  BY <1>1, <1>2 DEF PulseRanges, Covers, Values
<1>6. \A v \in Values : Covers(nvs, v) => Covers(nvs', v)
  BY <1>5 DEF PulseRanges, Covers, Values
<1>7. Copies'
  BY <1>1, <1>2, <1>6 DEF PulseRanges, Copies, Receipt
<1>8. SavedForGood'
  BY <1>1, <1>6 DEF PulseRanges, SavedForGood
<1>9. Requests'
  BY <1>1, <1>2, <1>6 DEF PulseRanges, Requests
<1> QED BY <1>1, <1>4, <1>7, <1>8, <1>9 DEF Forgotten

LEMMA SurroundingsKeep ==
    ASSUME PulseInv, Pulse \/ ChangeToken
    PROVE  PulseInv'
<1> USE DEF PulseInv
<1>1. /\ UNCHANGED <<pulse, persisted, onItsWay, receipt, blob, nvs, request, io, owed, promised,
                     givenUp>>
      /\ used' \in [pulses : 0..MaxPulses, asked : 0..MaxAsked, mishaps : 0..MaxMishaps]
      /\ \/ unread' = unread + 1 /\ token' = token
            /\ used'.pulses = used.pulses + 1 /\ used'.asked = used.asked
         \/ unread' = unread /\ token' = 1 - token
            /\ used'.pulses = used.pulses /\ used'.asked = used.asked + 1
  BY PulseAssumption DEF Pulse, ChangeToken, Uses, PulseRanges
<1>2. PulseRanges'
  <2>1. \A v \in {persisted, onItsWay, nvs, owed, promised} :
           v \in Values /\ v.count <= used'.pulses /\ v.generation <= used'.asked
    BY <1>1, PulseAssumption DEF PulseRanges, Values
  <2>2. unread' \in Nat /\ token' \in 0..1
    BY <1>1 DEF PulseRanges
  <2>3. ToReset' = ToReset /\ ToReset \in 0..1
    BY <1>1 DEF ToReset
  <2>4. pulse.count + unread' <= used'.pulses
    BY <1>1 DEF PulseRanges, Values
  <2>5. pulse.generation + ToReset + (IF pulse.token = token' THEN 0 ELSE 1) <= used'.asked
    BY <1>1, <2>3 DEF PulseRanges, Values
  <2> QED BY <1>1, <2>1, <2>2, <2>3, <2>4, <2>5 DEF PulseRanges
<1> QED BY <1>1, <1>2 DEF Copies, Requests, SavedForGood, Forgotten

(* What NVS restores is what it has, with the reset it may have missed.    *)
LEMMA RestartKeeps ==
    ASSUME PulseInv, Restart
    PROVE  PulseInv'
<1> USE DEF PulseInv
<1>1. /\ pulse' = Restored /\ unread' = 0 /\ persisted' = nvs /\ onItsWay' = nvs
      /\ receipt' = "Idle" /\ blob' = NoBlob
      /\ request' = [state |-> "Idle", reset |-> FALSE, old |-> FALSE, result |-> "Ok"]
      /\ io' = "Loop" /\ ~givenUp' /\ UNCHANGED <<token, nvs, owed, promised>>
  BY DEF Restart
<1>2. /\ used' \in [pulses : 0..MaxPulses, asked : 0..MaxAsked, mishaps : 0..MaxMishaps]
      /\ used'.pulses = used.pulses /\ used'.asked = used.asked
  BY PulseAssumption DEF Restart, Uses, PulseRanges
<1>3. nvs \in Values /\ token \in 0..1 /\ pulse \in Values /\ used.pulses \in Nat
      /\ nvs.count <= used.pulses /\ used.asked \in Nat
      /\ nvs.generation + (IF nvs.token = token THEN 0 ELSE 1) <= used.asked
  <2>1. nvs \in Values /\ token \in 0..1 /\ pulse \in Values /\ used.pulses \in Nat
        /\ nvs.count <= used.pulses /\ used.asked \in Nat /\ ToReset \in 0..1
    BY PulseAssumption DEF PulseRanges, ToReset
  <2>2. pulse.generation + ToReset + (IF pulse.token = token THEN 0 ELSE 1) <= used.asked
    BY DEF PulseRanges
  <2> QED BY <2>1, <2>2 DEF Values, Copies, Past
<1>4. /\ pulse' \in Values /\ Past(nvs, pulse') /\ pulse'.token = token
      /\ pulse'.count <= used.pulses /\ pulse'.generation <= used.asked
  <2>1. CASE nvs.token = token
    BY <1>1, <1>3, <2>1 DEF Restored, Past, Values
  <2>2. CASE nvs.token # token
    <3>1. pulse' = [ResetCount(nvs) EXCEPT !.token = token]
      BY <1>1, <2>2 DEF Restored
    <3>2. /\ pulse' \in Values /\ pulse'.token = token
          /\ pulse'.count = 0 /\ pulse'.generation = nvs.generation + 1
      BY <1>3, <3>1, ResetGrows DEF Values
    <3> QED BY <1>3, <2>2, <3>2 DEF Values, Past
  <2> QED BY <2>1, <2>2
<1>5. PulseRanges'
  <2>1. ToReset' = 0
    BY <1>1 DEF ToReset
  <2>2. /\ pulse'.count + unread' <= used'.pulses
        /\ pulse'.generation + ToReset' + (IF pulse'.token = token' THEN 0 ELSE 1) <= used'.asked
    BY <1>1, <1>2, <1>4, <2>1 DEF Values
  <2> QED BY <1>1, <1>2, <1>4, <2>2 DEF PulseRanges, Places, Result
<1>6. Covers(nvs, nvs)
  BY <1>3 DEF Covers, Values
<1> QED
  BY <1>1, <1>4, <1>5, <1>6 DEF Copies, Receipt, Requests, SavedForGood, Forgotten

LEMMA PulseStep ==
    ASSUME PulseInv, [PulseNext]_pulseVars
    PROVE  PulseInv' /\ (Take /\ request'.state = "Saving" => ~givenUp)
<1>1. CASE UNCHANGED pulseVars
  BY <1>1 DEF pulseVars, PulseInv, PulseRanges, ToReset, Copies, Requests, SavedForGood, Forgotten
<1>2. CASE PulseNext
  BY <1>2, LoopKeeps, TakeKeeps, SubmitKeeps, AskKeeps, CallerKeeps, SeeReceiptKeeps, WriteKeeps,
     SurroundingsKeep, RestartKeeps DEF PulseNext, IoTask
<1>3. Take /\ request'.state = "Saving" => ~givenUp
  BY TakeKeeps
<1> QED BY <1>1, <1>2, <1>3

LEMMA PulseFlagsStep ==
    ASSUME PulseFlags, [PulseNext]_pulseVars
    PROVE  PulseFlags'
<1> USE DEF PulseFlags
<1>1. ASSUME NEW p, NEW force, checkpointPulses(p, force)
      PROVE  retry' \in BOOLEAN
  BY <1>1 DEF checkpointPulses, Hands, RetryNow
<1>2. CASE IoTask
  BY <1>1, <1>2 DEF IoTask, Loop, Take, Submit, SeeReceipt
<1>3. CASE ~IoTask /\ PulseNext
  BY <1>3 DEF PulseNext, Ask, Answer, TwoSeconds, GiveUp, Write, Pulse, ChangeToken, Restart
<1>4. CASE UNCHANGED pulseVars
  BY <1>4 DEF pulseVars
<1> QED BY <1>2, <1>3, <1>4

(* A save or a reset that succeeded is on NVS for good, whatever is        *)
(* written, fails or restarts later, and what its caller has given up      *)
(* before it was taken is not done.                                        *)
THEOREM RequestsCorrect == PulseSpec => RequestsHonoured
<1>1. PulseInit => PulseFlags
  BY DEF PulseInit, PulseFlags
<1>2. PulseSpec => [](PulseInv /\ PulseFlags)
  BY <1>1, PulseInvInit, PulseStep, PulseFlagsStep, PTL DEF PulseSpec
<1>3. PulseInv /\ PulseFlags => PulseTypeOK /\ SavedForGood
  <2> SUFFICES ASSUME PulseInv, PulseFlags
               PROVE  PulseTypeOK /\ SavedForGood
    OBVIOUS
  <2> USE DEF PulseInv
  <2>1. \A v \in {pulse, persisted, onItsWay, nvs, owed, promised} : v \in Counts
    BY PulseAssumption DEF PulseRanges, Values, Counts, ToReset
  <2>2. unread \in 0..MaxPulses
    BY PulseAssumption DEF PulseRanges, Values
  <2>3. blob \in Counts \cup {NoBlob} /\ (receipt = "Pending" <=> blob # NoBlob)
    BY <2>1, NoBlobAssumption DEF Copies
  <2> QED
    BY <2>1, <2>2, <2>3, Zenon DEF PulseTypeOK, PulseRanges, PulseFlags, Copies
<1>4. PulseInv /\ [PulseNext]_pulseVars
      => [Take /\ request'.state = "Saving" => ~givenUp]_pulseVars
  BY PulseStep
<1> QED
  BY <1>2, <1>3, <1>4, PTL DEF PulseSpec, RequestsHonoured, NotExecutedLate
-----------------------------------------------------------------------------
(* The events of the data store (DataEvents) *)

Events == Keys \cup {SystemStarted, Other}

DataRanges ==
    /\ value \in [Keys -> 0..1] /\ writing \subseteq Keys /\ pending \subseteq Keys
    /\ cursor \in Keys /\ queue \in Seq(Events) /\ Len(queue) <= QUEUE_LENGTH
    /\ turn \in {"Dispatch", "Start", "Flush"} /\ left \in 0..(DispatchBudget + FlushBudget)
    /\ scanned \in 0..KeyCount /\ inHand \in Keys \cup {None}
    /\ mailbox \in [Consumers -> SUBSET Keys] /\ place \in [Consumers -> Keys]
    /\ taken \in [Consumers -> Keys \cup {None}] /\ looked \in [Consumers -> [Keys -> 0..1]]

(* A key is in the hand of the bus only while it flushes.                  *)
HandIsFlushing == inHand # None => turn = "Flush" /\ left > 0

(* No key is posted before SystemStarted has its place in the queue, and   *)
(* none is dispatched before it is.                                        *)
KeysWait ==
    /\ startedPending => /\ turn # "Flush" /\ ~announced
                         /\ \A i \in 1..Len(queue) : queue[i] = Other
    /\ ~announced =>
          /\ \A c \in Consumers : mailbox[c] = {} /\ taken[c] = None
                                 /\ looked[c] = [k \in Keys |-> 0]
          /\ \/ startedPending
             \/ \E i \in 1..Len(queue) : /\ queue[i] = SystemStarted
                                         /\ \A j \in 1..i : queue[j] \notin Keys

DataInv == DataRanges /\ HandIsFlushing /\ KeysWait /\ NothingMissed

USE DEF None, SystemStarted, Other

LEMMA KeyLemma ==
    /\ KeyCount \in Nat \ {0} /\ QUEUE_LENGTH \in Nat \ {0}
    /\ DispatchBudget \in Nat \ {0} /\ FlushBudget \in Nat \ {0}
    /\ 0 \in Keys /\ Keys \subseteq Nat
    /\ \A k \in Keys : (k + 1) % KeyCount \in Keys
BY DataEventsAssumption DEF Keys

(* What Append and Tail do to a queue of events.                           *)
LEMMA QueueLemma ==
    ASSUME queue \in Seq(Events)
    PROVE  /\ \A e \in Events : /\ Append(queue, e) \in Seq(Events)
                                 /\ Len(Append(queue, e)) = Len(queue) + 1
                                 /\ \A i \in 1..Len(queue) : Append(queue, e)[i] = queue[i]
                                 /\ Append(queue, e)[Len(queue) + 1] = e
           /\ queue # <<>> => /\ Tail(queue) \in Seq(Events) /\ Len(queue) >= 1
                              /\ Head(queue) = queue[1] /\ Head(queue) \in Events
                              /\ Len(Tail(queue)) = Len(queue) - 1
                              /\ \A i \in 1..(Len(queue) - 1) : Tail(queue)[i] = queue[i + 1]
OBVIOUS

LEMMA DataInvInit == DataInit => DataInv
<1> SUFFICES ASSUME DataInit PROVE DataInv
  OBVIOUS
<1>1. Len(queue) = 0 /\ queue \in Seq(Events)
  BY DEF DataInit
<1>2. DataRanges
  BY <1>1, KeyLemma DEF DataInit, DataRanges
<1>3. HandIsFlushing /\ KeysWait /\ NothingMissed
  BY <1>1 DEF DataInit, HandIsFlushing, KeysWait, NothingMissed
<1> QED BY <1>2, <1>3 DEF DataInv

(* The change of k is on its way to c.                                     *)
Told(c, k) ==
    \/ k \in writing \cup pending \cup mailbox[c]
    \/ inHand = k \/ InQueue(k) \/ taken[c] = k

LEMMA ToldSuffices ==
    ASSUME NothingMissed, UNCHANGED <<value, looked>>,
           \A c \in Consumers, k \in Keys : Told(c, k) => Told(c, k)'
    PROVE  NothingMissed'
BY DEF NothingMissed, Told

LEMMA ProducerKeeps ==
    ASSUME DataInv, NEW k \in Keys, WriteValue(k) \/ notifyChanged(k)
    PROVE  DataInv'
<1> USE DEF DataInv
<1>1. UNCHANGED <<queue, announced, busVars, consumerVars>>
  BY DEF WriteValue, notifyChanged
<1>2. DataRanges'
  <2>1. value' \in [Keys -> 0..1]
    BY DEF WriteValue, notifyChanged, DataRanges
  <2>2. writing' \subseteq Keys /\ pending' \subseteq Keys
    BY DEF WriteValue, notifyChanged, DataRanges
  <2> QED BY <1>1, <2>1, <2>2 DEF DataRanges, busVars, consumerVars
<1>3. HandIsFlushing' /\ KeysWait'
  BY <1>1 DEF HandIsFlushing, KeysWait, busVars, consumerVars
<1>4. NothingMissed'
  BY <1>1 DEF WriteValue, notifyChanged, NothingMissed, DataRanges, InQueue, busVars, consumerVars
<1> QED BY <1>2, <1>3, <1>4

(* An event that goes last hides none.                                     *)
LEMMA AppendKeeps ==
    ASSUME DataRanges, NEW e \in Events, ~QueueFull, queue' = Append(queue, e)
    PROVE  /\ queue' \in Seq(Events) /\ Len(queue') <= QUEUE_LENGTH
           /\ \A k : InQueue(k) => InQueue(k)'
           /\ InQueue(e)'
           /\ \A i \in 1..Len(queue') : (i \in 1..Len(queue) /\ queue'[i] = queue[i])
                                       \/ (i = Len(queue) + 1 /\ queue'[i] = e)
           /\ \A i \in 1..Len(queue) : queue'[i] = queue[i] /\ i \in 1..Len(queue')
           /\ Len(queue) \in Nat /\ Len(queue') = Len(queue) + 1 /\ queue'[Len(queue) + 1] = e
<1>1. /\ queue' \in Seq(Events) /\ Len(queue') = Len(queue) + 1
      /\ \A i \in 1..Len(queue) : queue'[i] = queue[i]
      /\ queue'[Len(queue) + 1] = e
      /\ Len(queue) \in Nat
  BY QueueLemma DEF DataRanges
<1>2. Len(queue') <= QUEUE_LENGTH
  BY <1>1, KeyLemma DEF QueueFull
<1>3. \A i \in 1..Len(queue) : i \in 1..Len(queue') /\ queue'[i] = queue[i]
  BY <1>1
<1>4. \A k : InQueue(k) => InQueue(k)'
  BY <1>3 DEF InQueue
<1>5. Len(queue) + 1 \in 1..Len(queue')
  BY <1>1
<1>6. InQueue(e)'
  BY <1>1, <1>5 DEF InQueue
<1>7. \A i \in 1..Len(queue') : i \in 1..Len(queue) \/ i = Len(queue) + 1
  BY <1>1
<1> QED BY <1>1, <1>2, <1>3, <1>4, <1>6, <1>7

LEMMA PostKeeps ==
    ASSUME DataInv, post
    PROVE  DataInv'
<1> USE DEF DataInv
<1>1. UNCHANGED <<value, writing, pending, announced, busVars, consumerVars>>
  BY DEF post
<1>2. CASE QueueFull
  <2>1. queue' = queue
    BY <1>2 DEF post
  <2> QED
    BY <1>1, <2>1 DEF DataRanges, HandIsFlushing, KeysWait, NothingMissed, InQueue, busVars,
       consumerVars
<1>3. CASE ~QueueFull
  <2>1. queue' = Append(queue, Other) /\ Other \in Events /\ Other \notin Keys
    BY <1>3, KeyLemma DEF post, Events
  <2>2. DataRanges'
    BY <1>1, <1>3, <2>1, AppendKeeps DEF DataRanges, busVars, consumerVars
  <2>3. HandIsFlushing'
    BY <1>1 DEF HandIsFlushing, busVars
  <2>4. KeysWait'
    <3>1. startedPending' => \A i \in 1..Len(queue') : queue'[i] = Other
      BY <1>1, <1>3, <2>1, AppendKeeps DEF KeysWait, busVars
    <3>2. \A i \in 1..Len(queue) : /\ queue'[i] = queue[i] /\ i \in 1..Len(queue')
                                  /\ \A j \in 1..i : queue'[j] = queue[j]
      BY <1>3, <2>1, AppendKeeps
    <3>3. (\E i \in 1..Len(queue) : /\ queue[i] = SystemStarted
                                   /\ \A j \in 1..i : queue[j] \notin Keys)
          => \E i \in 1..Len(queue') : /\ queue'[i] = SystemStarted
                                      /\ \A j \in 1..i : queue'[j] \notin Keys
      BY <3>2
    <3> QED BY <1>1, <3>1, <3>3 DEF KeysWait, busVars, consumerVars
  <2>5. \A c \in Consumers, k \in Keys : Told(c, k) => Told(c, k)'
    BY <1>1, <1>3, <2>1, AppendKeeps DEF Told, busVars, consumerVars
  <2> QED BY <1>1, <2>2, <2>3, <2>4, <2>5, ToldSuffices DEF consumerVars
<1> QED BY <1>2, <1>3

LEMMA DispatchKeeps ==
    ASSUME DataInv, dispatch
    PROVE  DataInv'
<1> USE DEF DataInv
<1>1. /\ turn = "Dispatch" /\ left > 0 /\ queue # <<>> /\ queue' = Tail(queue) /\ left' = left - 1
      /\ mailbox' = Notify(Head(queue))
      /\ announced' = (announced \/ Head(queue) = SystemStarted)
      /\ UNCHANGED <<value, writing, pending, cursor, turn, scanned, inHand, startedPending, place,
                    taken, looked>>
  BY DEF dispatch
<1>2. /\ Tail(queue) \in Seq(Events) /\ Len(queue) >= 1 /\ Len(queue) \in Nat
      /\ Head(queue) = queue[1] /\ Head(queue) \in Events
      /\ Len(queue') = Len(queue) - 1
      /\ \A i \in 1..(Len(queue) - 1) : queue'[i] = queue[i + 1]
  BY <1>1, QueueLemma DEF DataRanges
<1>3. mailbox' \in [Consumers -> SUBSET Keys]
  BY <1>1 DEF Notify, DataRanges
<1>4. DataRanges'
  <2>1. left' \in 0..(DispatchBudget + FlushBudget) /\ Len(queue') <= QUEUE_LENGTH
    BY <1>1, <1>2, KeyLemma DEF DataRanges
  <2> QED BY <1>1, <1>2, <1>3, <2>1 DEF DataRanges
<1>5. HandIsFlushing'
  BY <1>1 DEF HandIsFlushing
<1>6. \A i \in 1..Len(queue') : i + 1 \in 1..Len(queue) /\ queue'[i] = queue[i + 1]
  BY <1>2
<1>7. KeysWait'
  <2>1. CASE startedPending
    <3>1. Head(queue) = Other
      BY <1>2, <2>1 DEF KeysWait
    <3>2. mailbox' = mailbox /\ ~announced'
      <4>1. Other \notin Keys /\ ~announced
        BY <2>1, KeyLemma DEF KeysWait
      <4>2. Head(queue) # SystemStarted /\ Head(queue) \notin Keys
        BY <3>1, <4>1
      <4>3. mailbox' = mailbox
        BY <1>1, <4>2 DEF Notify
      <4>4. ~announced'
        BY <1>1, <4>1, <4>2, Zenon
      <4> QED BY <4>3, <4>4
    <3>3. \A i \in 1..Len(queue') : queue'[i] = Other
      BY <1>6, <2>1 DEF KeysWait
    <3> QED BY <1>1, <2>1, <3>2, <3>3 DEF KeysWait
  <2>2. CASE ~startedPending /\ ~announced'
    <3>1. PICK i \in 1..Len(queue) : /\ queue[i] = SystemStarted
                                    /\ \A j \in 1..i : queue[j] \notin Keys
      BY <1>1, <2>2 DEF KeysWait
    <3>2. i # 1 /\ Head(queue) \notin Keys
      <4>1. i # 1
        BY <1>1, <1>2, <2>2, <3>1
      <4>2. 1 \in 1..i
        BY <1>2
      <4> QED BY <1>2, <3>1, <4>1, <4>2
    <3>3. i - 1 \in 1..Len(queue') /\ queue'[i - 1] = SystemStarted
      BY <1>2, <3>1, <3>2
    <3>4. \A j \in 1..(i - 1) : queue'[j] \notin Keys
      BY <1>2, <3>1, <3>2
    <3>5. mailbox' = mailbox /\ ~announced /\ ~startedPending'
      BY <1>1, <2>2, <3>2 DEF Notify
    <3> QED BY <1>1, <3>3, <3>4, <3>5 DEF KeysWait
  <2>3. CASE ~startedPending /\ announced'
    BY <1>1, <2>3 DEF KeysWait
  <2> QED BY <2>1, <2>2, <2>3
<1>8. \A c \in Consumers, k \in Keys : Told(c, k) => Told(c, k)'
  <2> SUFFICES ASSUME NEW c \in Consumers, NEW k \in Keys, Told(c, k)
               PROVE  Told(c, k)'
    OBVIOUS
  <2>1. mailbox[c] \subseteq mailbox'[c] /\ (Head(queue) = k => k \in mailbox'[c])
    BY <1>1 DEF Notify
  <2>2. InQueue(k) => Head(queue) = k \/ InQueue(k)'
    <3> SUFFICES ASSUME NEW i \in 1..Len(queue), queue[i] = k
                 PROVE  Head(queue) = k \/ InQueue(k)'
      BY DEF InQueue
    <3>1. i = 1 \/ (i - 1 \in 1..Len(queue') /\ queue'[i - 1] = queue[i])
      BY <1>2
    <3> QED BY <1>2, <3>1 DEF InQueue
  <2> QED BY <1>1, <2>1, <2>2 DEF Told
<1> QED BY <1>1, <1>4, <1>5, <1>7, <1>8, ToldSuffices

LEMMA BusKeeps ==
    ASSUME DataInv, EndDispatch \/ EndFlush
    PROVE  DataInv'
<1> USE DEF DataInv
<1>1. UNCHANGED <<value, writing, pending, queue, cursor, inHand, startedPending, announced,
                  consumerVars>>
  BY DEF EndDispatch, EndFlush
<1>2. inHand = None
  BY DEF EndDispatch, EndFlush, Flushing, HandIsFlushing
<1>3. turn' \in {"Dispatch", "Start"} /\ left' \in {0, DispatchBudget} /\ scanned' \in {0, scanned}
  BY DEF EndDispatch, EndFlush
<1>4. left' \in 0..(DispatchBudget + FlushBudget)
  BY <1>3, KeyLemma
<1>5. scanned' \in 0..KeyCount
  <2>1. scanned \in 0..KeyCount
    BY DEF DataRanges
  <2> QED BY <1>3, <2>1, KeyLemma
<1> QED
  BY <1>1, <1>2, <1>3, <1>4, <1>5
  DEF DataRanges, HandIsFlushing, KeysWait, NothingMissed, InQueue, consumerVars

LEMMA PostStartedKeeps ==
    ASSUME DataInv, postStarted
    PROVE  DataInv'
<1> USE DEF DataInv
<1>1. /\ turn = "Start" /\ inHand = None
      /\ UNCHANGED <<value, writing, pending, cursor, scanned, inHand, announced, consumerVars>>
  BY DEF postStarted, HandIsFlushing
<1>2. turn' \in {"Dispatch", "Flush"} /\ left' \in 0..(DispatchBudget + FlushBudget)
  BY KeyLemma DEF postStarted, AfterStart
<1>3. CASE startedPending /\ ~QueueFull
  <2>1. queue' = Append(queue, SystemStarted) /\ SystemStarted \in Events /\ ~startedPending'
    BY <1>3 DEF postStarted, StillToStart, Events
  <2>2. DataRanges'
    BY <1>1, <1>2, <1>3, <2>1, AppendKeeps DEF DataRanges, consumerVars
  <2>3. KeysWait'
    <3>1. /\ Len(queue) \in Nat /\ Len(queue') = Len(queue) + 1
          /\ queue'[Len(queue) + 1] = SystemStarted
          /\ \A i \in 1..Len(queue) : queue'[i] = queue[i]
      BY <1>3, <2>1, AppendKeeps
    <3>2. \A i \in 1..Len(queue) : queue[i] = Other
      BY <1>3 DEF KeysWait
    <3>3. Len(queue) + 1 \in 1..Len(queue')
      BY <3>1
    <3>4. \A j \in 1..(Len(queue) + 1) : j \in 1..Len(queue) \/ j = Len(queue) + 1
      BY <3>1
    <3>5. Other \notin Keys /\ SystemStarted \notin Keys
      BY KeyLemma
    <3>6. \A j \in 1..(Len(queue) + 1) : queue'[j] \notin Keys
      BY <3>1, <3>2, <3>4, <3>5
    <3> QED BY <1>1, <2>1, <3>1, <3>3, <3>6 DEF KeysWait, consumerVars
  <2>4. \A c \in Consumers, k \in Keys : Told(c, k) => Told(c, k)'
    BY <1>1, <1>3, <2>1, AppendKeeps DEF Told, consumerVars
  <2> QED BY <1>1, <2>2, <2>3, <2>4, ToldSuffices DEF HandIsFlushing, consumerVars
<1>4. CASE ~(startedPending /\ ~QueueFull)
  <2>1. queue' = queue /\ (startedPending' <=> startedPending) /\ (startedPending => turn' = "Dispatch")
    BY <1>4 DEF postStarted, StillToStart, AfterStart
  <2> QED
    BY <1>1, <1>2, <2>1 DEF DataRanges, HandIsFlushing, KeysWait, NothingMissed, InQueue,
       consumerVars
<1> QED BY <1>3, <1>4

LEMMA ScanKeeps ==
    ASSUME DataInv, Scan
    PROVE  DataInv'
<1> USE DEF DataInv
<1>1. /\ turn = "Flush" /\ inHand = None /\ left > 0 /\ scanned < KeyCount
      /\ inHand' = IF cursor \in pending THEN cursor ELSE None
      /\ pending' = pending \ {cursor}
      /\ UNCHANGED <<value, writing, queue, turn, left, startedPending, announced, consumerVars>>
  BY DEF Scan, Flushing
<1>2. cursor' \in Keys /\ scanned' \in 0..KeyCount
  BY <1>1, KeyLemma DEF Scan, NextCursor, DataRanges
<1>3. DataRanges' /\ HandIsFlushing' /\ KeysWait'
  BY <1>1, <1>2 DEF DataRanges, HandIsFlushing, KeysWait, consumerVars
<1>4. \A c \in Consumers, k \in Keys : Told(c, k) => Told(c, k)'
  BY <1>1, KeyLemma DEF Told, InQueue, consumerVars
<1> QED BY <1>1, <1>3, <1>4, ToldSuffices DEF consumerVars

LEMMA PublishKeeps ==
    ASSUME DataInv, Publish
    PROVE  DataInv'
<1> USE DEF DataInv
<1>1. /\ turn = "Flush" /\ inHand \in Keys /\ inHand' = None /\ left > 0
      /\ UNCHANGED <<value, writing, cursor, turn, scanned, startedPending, announced,
                    consumerVars>>
  BY DEF Publish, DataRanges, HandIsFlushing
<1>2. ~startedPending
  BY <1>1 DEF KeysWait
<1>3. left' \in 0..(DispatchBudget + FlushBudget)
  <2>1. left \in 0..(DispatchBudget + FlushBudget) /\ left' \in {0, left - 1}
    BY DEF Publish, DataRanges
  <2> QED BY <1>1, <2>1, KeyLemma
<1>4. CASE QueueFull
  <2>1. queue' = queue /\ pending' = pending \cup {inHand}
    BY <1>4 DEF Publish, PutBack
  <2>2. \A c \in Consumers, k \in Keys : Told(c, k) => Told(c, k)'
    BY <1>1, <2>1 DEF Told, InQueue, consumerVars
  <2>3. DataRanges' /\ HandIsFlushing' /\ KeysWait'
    BY <1>1, <1>3, <2>1 DEF DataRanges, HandIsFlushing, KeysWait, consumerVars
  <2> QED BY <1>1, <2>2, <2>3, ToldSuffices DEF consumerVars
<1>5. CASE ~QueueFull
  <2>1. queue' = Append(queue, inHand) /\ inHand \in Events /\ pending' = pending
    BY <1>1, <1>5 DEF Publish, Events
  <2>2. DataRanges' /\ HandIsFlushing'
    BY <1>1, <1>3, <1>5, <2>1, AppendKeeps DEF DataRanges, HandIsFlushing, consumerVars
  <2>3. KeysWait'
    <3>1. \A i \in 1..Len(queue) : /\ queue'[i] = queue[i] /\ i \in 1..Len(queue')
                                  /\ \A j \in 1..i : queue'[j] = queue[j]
      BY <1>5, <2>1, AppendKeeps
    <3>2. (\E i \in 1..Len(queue) : /\ queue[i] = SystemStarted
                                   /\ \A j \in 1..i : queue[j] \notin Keys)
          => \E i \in 1..Len(queue') : /\ queue'[i] = SystemStarted
                                      /\ \A j \in 1..i : queue'[j] \notin Keys
      BY <3>1
    <3> QED BY <1>1, <1>2, <3>2 DEF KeysWait, consumerVars
  <2>4. \A c \in Consumers, k \in Keys : Told(c, k) => Told(c, k)'
    BY <1>1, <1>5, <2>1, AppendKeeps DEF Told, consumerVars
  <2> QED BY <1>1, <2>2, <2>3, <2>4, ToldSuffices DEF consumerVars
<1> QED BY <1>4, <1>5

LEMMA ConsumerKeeps ==
    ASSUME DataInv, NEW c \in Consumers, ConsumerStep(c)
    PROVE  DataInv'
<1> USE DEF DataInv
<1>1. UNCHANGED <<value, writing, pending, queue, announced, busVars>>
  BY DEF ConsumerStep, Drain, handleEvent
<1>2. CASE Drain(c)
  <2> DEFINE key == IF place[c] \in mailbox[c] THEN place[c] ELSE None
             next == (place[c] + 1) % KeyCount
  <2>1. /\ taken[c] = None /\ mailbox[c] # {} /\ taken' = [taken EXCEPT ![c] = key]
        /\ mailbox' = [mailbox EXCEPT ![c] = @ \ {place[c]}]
        /\ place' = [place EXCEPT ![c] = next] /\ looked' = looked
    BY <1>2 DEF Drain
  <2>2. key \in Keys \cup {None} /\ next \in Keys
    BY KeyLemma DEF DataRanges
  <2>3. announced
    BY <2>1 DEF KeysWait
  <2>4. \A d \in Consumers, k \in Keys : Told(d, k) => Told(d, k)'
    <3> SUFFICES ASSUME NEW d \in Consumers, NEW k \in Keys, Told(d, k)
                 PROVE  Told(d, k)'
      OBVIOUS
    <3>1. UNCHANGED <<writing, pending, inHand, queue>>
      BY <1>1 DEF busVars
    <3>2. InQueue(k)' <=> InQueue(k)
      BY <3>1 DEF InQueue
    <3>3. taken[d] = k => d # c
      BY <2>1, KeyLemma
    <3>4. taken[d] = k => taken'[d] = k
      BY <2>1, <3>3 DEF DataRanges
    <3>5. k \in mailbox[d] => k \in mailbox'[d] \/ taken'[d] = k
      BY <2>1 DEF DataRanges
    <3> QED BY <3>1, <3>2, <3>4, <3>5 DEF Told
  <2> HIDE DEF key, next
  <2>5. DataRanges'
    BY <1>1, <2>1, <2>2 DEF DataRanges, busVars
  <2> QED
    BY <1>1, <2>1, <2>3, <2>4, <2>5, ToldSuffices DEF HandIsFlushing, KeysWait, busVars
<1>3. CASE handleEvent(c)
  <2>1. /\ taken[c] \in Keys /\ looked' = [looked EXCEPT ![c][taken[c]] = value[taken[c]]]
        /\ taken' = [taken EXCEPT ![c] = None] /\ UNCHANGED <<mailbox, place>>
    BY <1>3 DEF handleEvent, DataRanges
  <2>2. announced
    BY <2>1, KeyLemma DEF KeysWait
  <2>3. looked' \in [Consumers -> [Keys -> 0..1]]
    BY <2>1 DEF DataRanges
  <2>4. DataRanges'
    BY <1>1, <2>1, <2>3 DEF DataRanges, busVars
  <2>5. NothingMissed'
    <3> SUFFICES ASSUME NEW d \in Consumers, NEW k \in Keys, looked'[d][k] # value[k]
                 PROVE  Told(d, k)'
      BY <1>1 DEF NothingMissed, Told
    <3>1. looked'[d][k] = looked[d][k] /\ ~(d = c /\ taken[c] = k)
      BY <2>1 DEF DataRanges
    <3>2. Told(d, k)
      BY <3>1 DEF NothingMissed, Told
    <3>3. taken[d] = k => taken'[d] = k
      BY <2>1, <3>1 DEF DataRanges
    <3> QED BY <1>1, <2>1, <3>2, <3>3 DEF Told, InQueue, busVars
  <2> QED BY <1>1, <2>2, <2>4, <2>5 DEF HandIsFlushing, KeysWait, busVars
<1> QED BY <1>2, <1>3 DEF ConsumerStep

LEMMA DataStep ==
    ASSUME DataInv, [DataNext]_dataVars
    PROVE  DataInv'
<1>1. CASE UNCHANGED dataVars
  BY <1>1 DEF dataVars, DataInv, DataRanges, HandIsFlushing, KeysWait, NothingMissed, InQueue
<1> QED
  BY <1>1, ProducerKeeps, PostKeeps, DispatchKeeps, BusKeeps, PostStartedKeeps, ScanKeeps,
     PublishKeeps, ConsumerKeeps DEF DataNext, BusStep

(* A consumer that has not seen the present value of a key will be told,   *)
(* however short the queue, and SystemStarted comes before any key.        *)
THEOREM EventsCorrect == DataSpec => []EventsSound
<1>1. DataSpec => []DataInv
  BY DataInvInit, DataStep, PTL DEF DataSpec
<1>2. DataInv => DataTypeOK
  BY DEF DataInv, DataRanges, DataTypeOK, Events
<1>3. DataInv => StartedFirst
  BY DEF DataInv, KeysWait, StartedFirst, InQueue
<1>4. DataInv => NothingMissed
  BY DEF DataInv
<1> QED BY <1>1, <1>2, <1>3, <1>4, PTL DEF EventsSound
-----------------------------------------------------------------------------
(* The alarms (Alarms) *)

SlotRecords == [active : BOOLEAN, lastCond : AlarmCondState, on : Timers, off : Timers,
                notified : Timers]

(* A timer runs only on the side of the alarm that it may change, and for  *)
(* no longer than the condition it measures has lasted.                    *)
TimedAs(s, h) ==
    /\ IF s.active THEN s.on = Stopped ELSE s.off = Stopped
    /\ s.on # Stopped => s.lastCond = "True" /\ s.on <= h
    /\ s.off # Stopped => s.lastCond = "False" /\ s.off <= h

AlarmRanges ==
    /\ slots \in [Slots -> SlotRecords] /\ held \in [Slots -> 0..Longest]
    /\ pass \in [at : 0..SlotCount, judged : AlarmCondState,
                 step : {"Evaluate", "Apply", "Announce"}]
    /\ pass.step # "Evaluate" => pass.at \in Slots
    /\ outgoing \subseteq Slots /\ accepted \in 0..SlotCount
    /\ inQueue \subseteq Slots /\ unseen \subseteq Slots

AlarmInv == AlarmRanges /\ (\A a \in Slots : TimedAs(slots[a], held[a])) /\ ChangesAnnounced

LEMMA AlarmLemma ==
    /\ SlotCount \in Nat \ {0} /\ MinRepeat \in Nat \ {0} /\ Stopped = -1
    /\ Timers = (-1)..MinRepeat /\ Longest = MinRepeat
    /\ 1 \in Slots /\ Slots \subseteq 0..SlotCount /\ Slots \subseteq Nat /\ 0 \notin Slots
    /\ \A a \in Slots : a # SlotCount => a + 1 \in Slots
    /\ \A a \in Slots : OnDelay[a] \in 0..MinRepeat /\ OffDelay[a] \in 0..MinRepeat
BY AlarmAssumption DEF Slots, Stopped, Longest, Timers

LEMMA AlarmInvInit == AlarmInit => AlarmInv
BY AlarmLemma
DEF AlarmInit, AlarmInv, AlarmRanges, SlotRecords, AlarmCondState, Asleep, TimedAs, ChangesAnnounced,
    AboutToTell

LEMMA OlderLemma ==
    ASSUME NEW t \in Timers
    PROVE  /\ Older(t) \in Timers /\ (Older(t) = Stopped <=> t = Stopped)
           /\ \A h \in 0..Longest : Older(h) \in 0..Longest /\ (t <= h => Older(t) <= Older(h))
BY AlarmLemma DEF Older

(* A slot after a unit of time.                                            *)
LEMMA AgedKeeps ==
    ASSUME NEW s \in SlotRecords, NEW h \in 0..Longest, TimedAs(s, h)
    PROVE  /\ Aged(s) \in SlotRecords /\ TimedAs(Aged(s), Older(h))
           /\ Aged(s).active = s.active /\ Aged(s).lastCond = s.lastCond
<1>1. /\ Older(s.on) \in Timers /\ Older(s.off) \in Timers /\ Older(s.notified) \in Timers
  BY OlderLemma DEF SlotRecords
<1>2. \A i, j, k \in Timers : [s EXCEPT !.on = i, !.off = j, !.notified = k] \in SlotRecords
  BY DEF SlotRecords
<1>3. Aged(s) \in SlotRecords
  BY <1>1, <1>2 DEF Aged
<1>4. /\ Aged(s).active = s.active /\ Aged(s).lastCond = s.lastCond
      /\ Aged(s).on = Older(s.on) /\ Aged(s).off = Older(s.off)
  BY DEF Aged, SlotRecords
<1>5. s.on \in Timers /\ s.off \in Timers
  BY DEF SlotRecords
<1>6. TimedAs(Aged(s), Older(h))
  BY <1>4, <1>5, OlderLemma DEF TimedAs
<1> QED BY <1>3, <1>4, <1>6

(* What applying a condition does: a timer that ran goes on measuring, and *)
(* an alarm that changes has waited for its delay.                         *)
LEMMA AppliedKeeps ==
    ASSUME NEW a \in Slots, NEW s \in SlotRecords, NEW h \in 0..Longest, TimedAs(s, h),
           NEW cond \in AlarmCondState,
           NEW lasted, lasted = IF cond = s.lastCond THEN h ELSE 0
    PROVE  /\ Applied(a, s, cond) \in SlotRecords /\ TimedAs(Applied(a, s, cond), lasted)
           /\ Applied(a, s, cond).lastCond = cond
           /\ ~s.active /\ Applied(a, s, cond).active => cond = "True" /\ lasted >= OnDelay[a]
           /\ s.active /\ ~Applied(a, s, cond).active =>
                 cond = "False" /\ a \notin Latched /\ lasted >= OffDelay[a]
<1> DEFINE t == Started(s, cond)
           raised == Raised(a, s, cond)
           cleared == Cleared(a, s, cond)
           on == IF raised THEN Stopped ELSE t.on
           off == IF a \in Latched \/ cleared THEN Stopped ELSE t.off
           active == (s.active \/ raised) /\ ~cleared
<1>1. /\ lasted \in 0..MinRepeat /\ OnDelay[a] \in 0..MinRepeat /\ OffDelay[a] \in 0..MinRepeat
      /\ s.on \in Timers /\ s.off \in Timers /\ s.notified \in Timers
  BY AlarmLemma DEF SlotRecords
<1>2. /\ t.on \in Timers
      /\ t.on # Stopped => cond = "True" /\ ~s.active /\ t.on <= lasted
      /\ t.on = (IF cond # "True" \/ s.active THEN Stopped ELSE IF s.on = Stopped THEN 0 ELSE s.on)
  BY <1>1, AlarmLemma DEF Started, TimedAs
<1>3. /\ t.off \in Timers
      /\ t.off # Stopped => cond = "False" /\ s.active /\ t.off <= lasted
      /\ t.off = (IF cond # "False" \/ ~s.active THEN Stopped ELSE IF s.off = Stopped THEN 0 ELSE s.off)
  BY <1>1, AlarmLemma DEF Started, TimedAs
<1>4. raised => cond = "True" /\ ~s.active /\ lasted >= OnDelay[a]
  BY <1>1, <1>2, AlarmLemma DEF Raised, delayReached
<1>5. cleared => cond = "False" /\ s.active /\ a \notin Latched /\ lasted >= OffDelay[a]
  BY <1>1, <1>3, AlarmLemma DEF Cleared, delayReached
<1>6. Applied(a, s, cond) = [active |-> active, lastCond |-> cond, on |-> on, off |-> off,
                            notified |-> s.notified]
  BY DEF Applied
<1> HIDE DEF t, raised, cleared
<1>7. /\ on = Stopped \/ (on = t.on /\ ~raised)
      /\ off = Stopped \/ (off = t.off /\ ~cleared)
      /\ active \in BOOLEAN /\ (active <=> (s.active \/ raised) /\ ~cleared)
  BY Zenon
<1> HIDE DEF on, off, active
<1>8. /\ on \in Timers /\ off \in Timers
      /\ on # Stopped => ~raised /\ cond = "True" /\ ~s.active /\ on <= lasted
      /\ off # Stopped => ~cleared /\ cond = "False" /\ s.active /\ off <= lasted
  <2>1. Stopped \in Timers
    BY AlarmLemma
  <2>2. on \in Timers /\ off \in Timers
    BY <1>2, <1>3, <1>7, <2>1
  <2>3. on # Stopped => ~raised /\ cond = "True" /\ ~s.active /\ on <= lasted
    BY <1>2, <1>7
  <2>4. off # Stopped => ~cleared /\ cond = "False" /\ s.active /\ off <= lasted
    BY <1>3, <1>7
  <2> QED BY <2>2, <2>3, <2>4
<1>9. Applied(a, s, cond) \in SlotRecords
  BY <1>1, <1>6, <1>7, <1>8 DEF SlotRecords
<1>10. TimedAs(Applied(a, s, cond), lasted)
  BY <1>4, <1>5, <1>6, <1>7, <1>8 DEF TimedAs
<1> QED BY <1>4, <1>5, <1>6, <1>7, <1>9, <1>10

(* What a step may do to an alarm: DelaysHold of one step.                 *)
DelaysKept ==
    \A a \in Slots :
       LET lasted == IF slots'[a].lastCond = slots[a].lastCond THEN held[a] ELSE 0
       IN  /\ ~slots[a].active /\ slots'[a].active =>
                 slots'[a].lastCond = "True" /\ lasted >= OnDelay[a]
           /\ slots[a].active /\ ~slots'[a].active =>
                 /\ slots[a].lastCond # "True" \/ a \notin Latched
                 /\ slots'[a].lastCond = "False"
                 /\ a \notin Latched => lasted >= OffDelay[a]
                 /\ a \in Latched => UNCHANGED pass

LEMMA StartPassKeeps ==
    ASSUME AlarmInv, NEW kept \in SUBSET Due, StartPass(kept)
    PROVE  AlarmInv' /\ DelaysKept
<1> DEFINE aged == [a \in Slots |-> Aged(slots[a])]
           toRemind == Due
<1>1. /\ pass.at = 0
      /\ slots' = [a \in Slots |->
                     IF a \in toRemind THEN [aged[a] EXCEPT !.notified = 0] ELSE aged[a]]
      /\ inQueue' = inQueue \cup kept /\ unseen' = unseen \ (toRemind \ kept)
      /\ held' = [a \in Slots |-> Older(held[a])]
      /\ pass' = [Asleep EXCEPT !.at = 1] /\ UNCHANGED <<outgoing, accepted>>
  BY DEF StartPass, Posted
<1>2. \A a \in Slots : /\ aged[a] \in SlotRecords /\ TimedAs(aged[a], held'[a])
                       /\ aged[a].active = slots[a].active /\ aged[a].lastCond = slots[a].lastCond
                       /\ aged[a].notified = Stopped => slots[a].notified = Stopped
                       /\ held'[a] \in 0..Longest
  <2> TAKE a \in Slots
  <2>1. slots[a] \in SlotRecords /\ held[a] \in 0..Longest /\ TimedAs(slots[a], held[a])
    BY DEF AlarmInv, AlarmRanges
  <2>2. held[a] \in Timers /\ slots[a].notified \in Timers
    BY <2>1, AlarmLemma DEF SlotRecords
  <2>3. aged[a].notified = Older(slots[a].notified)
    BY <2>1 DEF Aged, SlotRecords
  <2> QED BY <1>1, <2>1, <2>2, <2>3, AgedKeeps, OlderLemma
<1>3. toRemind \subseteq Slots /\ kept \subseteq Slots
  BY DEF Due
<1> HIDE DEF aged, toRemind
<1>4. \A a \in Slots : /\ slots'[a] \in SlotRecords /\ TimedAs(slots'[a], held'[a])
                       /\ slots'[a].active = slots[a].active /\ slots'[a].lastCond = slots[a].lastCond
                       /\ slots'[a].notified = Stopped => slots[a].notified = Stopped
  <2> TAKE a \in Slots
  <2>1. 0 \in Timers
    BY AlarmLemma
  <2>2. \A s \in SlotRecords : [s EXCEPT !.notified = 0] \in SlotRecords
    BY <2>1 DEF SlotRecords
  <2>3. \A s \in SlotRecords : LET u == [s EXCEPT !.notified = 0]
                               IN  /\ u.active = s.active /\ u.lastCond = s.lastCond
                                   /\ u.on = s.on /\ u.off = s.off /\ u.notified = 0
    BY DEF SlotRecords
  <2>4. CASE a \in toRemind
    <3> DEFINE u == [aged[a] EXCEPT !.notified = 0]
    <3>1. slots'[a] = u /\ aged[a] \in SlotRecords /\ TimedAs(aged[a], held'[a])
      BY <1>1, <1>2, <2>4
    <3>2. /\ u \in SlotRecords /\ u.active = aged[a].active /\ u.lastCond = aged[a].lastCond
          /\ u.on = aged[a].on /\ u.off = aged[a].off /\ u.notified # Stopped
      BY <2>2, <2>3, <3>1, AlarmLemma
    <3> HIDE DEF u
    <3> QED BY <1>2, <3>1, <3>2 DEF TimedAs
  <2>5. CASE a \notin toRemind
    BY <1>1, <1>2, <2>5
  <2> QED BY <2>4, <2>5
<1>5. pass' \in [at : 0..SlotCount, judged : AlarmCondState, step : {"Evaluate", "Apply", "Announce"}]
      /\ pass'.step = "Evaluate"
  BY <1>1, AlarmLemma DEF Asleep, AlarmCondState
<1>6. AlarmRanges'
  <2>1. slots' \in [Slots -> SlotRecords]
    BY <1>1, <1>4
  <2>2. held' \in [Slots -> 0..Longest]
    BY <1>1, <1>2
  <2>3. inQueue' \subseteq Slots /\ unseen' \subseteq Slots
    BY <1>1, <1>3 DEF AlarmInv, AlarmRanges
  <2>4. outgoing' \subseteq Slots /\ accepted' \in 0..SlotCount
    BY <1>1 DEF AlarmInv, AlarmRanges
  <2> QED
    BY <1>5, <2>1, <2>2, <2>3, <2>4 DEF AlarmRanges
<1>7. ChangesAnnounced'
  <2>1. pass.step # "Announce"
    BY <1>1, AlarmLemma DEF AlarmInv, AlarmRanges
  <2>2. \A a \in unseen' : a \in inQueue' \/ accepted' = a \/ AboutToTell(a)'
    BY <1>1, <2>1 DEF AlarmInv, ChangesAnnounced, AboutToTell
  <2>3. \A a \in Slots : slots'[a].active /\ slots'[a].lastCond = "True" =>
                              slots'[a].notified # Stopped \/ AboutToTell(a)'
    BY <1>1, <1>4, <2>1 DEF AlarmInv, ChangesAnnounced, AboutToTell
  <2> QED BY <2>2, <2>3 DEF ChangesAnnounced
<1> QED BY <1>4, <1>6, <1>7 DEF AlarmInv, DelaysKept

LEMMA ApplyKeeps ==
    ASSUME AlarmInv, Apply
    PROVE  AlarmInv' /\ DelaysKept
<1> DEFINE a == pass.at
           t == Applied(a, slots[a], pass.judged)
           lasted == IF t.lastCond = slots[a].lastCond THEN held[a] ELSE 0
<1>1. /\ pass.step = "Apply" /\ slots' = [slots EXCEPT ![a] = t]
      /\ unseen' = unseen \cup (IF Changed(slots[a], t) THEN {a} ELSE {})
      /\ held' = [held EXCEPT ![a] = IF t.lastCond = slots[a].lastCond THEN @ ELSE 0]
      /\ pass' = IF ToAnnounce(a, slots[a], pass.judged)
                 THEN [pass EXCEPT !.step = "Announce"] ELSE NextSlot
      /\ UNCHANGED <<outgoing, accepted, inQueue>>
  BY DEF Apply
<1>2. /\ a \in Slots /\ pass.judged \in AlarmCondState /\ slots[a] \in SlotRecords
      /\ held[a] \in 0..Longest /\ TimedAs(slots[a], held[a])
  BY <1>1 DEF AlarmInv, AlarmRanges
<1>3. /\ t \in SlotRecords /\ TimedAs(t, lasted) /\ t.lastCond = pass.judged
      /\ ~slots[a].active /\ t.active => t.lastCond = "True" /\ lasted >= OnDelay[a]
      /\ slots[a].active /\ ~t.active =>
            t.lastCond = "False" /\ a \notin Latched /\ lasted >= OffDelay[a]
  <2>1. Applied(a, slots[a], pass.judged).lastCond = pass.judged
    BY DEF Applied
  <2> QED BY <1>2, <2>1, AppliedKeeps
<1>4. /\ Changed(slots[a], t) => ToAnnounce(a, slots[a], pass.judged)
      /\ ~ToAnnounce(a, slots[a], pass.judged) /\ t.active /\ t.lastCond = "True" =>
            slots[a].active /\ slots[a].lastCond = "True"
      /\ t.notified = slots[a].notified
  BY <1>2 DEF Changed, ToAnnounce, Applied, SlotRecords
<1>5. /\ NextSlot.at \in 0..SlotCount /\ NextSlot.step = "Evaluate"
      /\ NextSlot \in [at : 0..SlotCount, judged : AlarmCondState,
                       step : {"Evaluate", "Apply", "Announce"}]
  BY <1>2, AlarmLemma DEF NextSlot, Asleep, AlarmCondState
<1>6. lasted \in 0..Longest /\ held' = [held EXCEPT ![a] = lasted]
  BY <1>1, <1>2, AlarmLemma
<1> HIDE DEF t, lasted
<1>7. \A b \in Slots : /\ slots'[b] \in SlotRecords /\ held'[b] \in 0..Longest
                       /\ TimedAs(slots'[b], held'[b])
  BY <1>1, <1>2, <1>3, <1>6 DEF AlarmInv, AlarmRanges
<1>8. /\ pass' \in [at : 0..SlotCount, judged : AlarmCondState,
                    step : {"Evaluate", "Apply", "Announce"}]
      /\ pass'.step # "Evaluate" => pass'.at \in Slots
      /\ ToAnnounce(a, slots[a], pass.judged) => pass'.step = "Announce" /\ pass'.at = a
  BY <1>1, <1>2, <1>5 DEF AlarmInv, AlarmRanges
<1>9. AlarmRanges'
  BY <1>1, <1>2, <1>6, <1>7, <1>8 DEF AlarmInv, AlarmRanges
<1>10. ChangesAnnounced'
  <2>1. \A b \in unseen' : b \in inQueue' \/ accepted' = b \/ AboutToTell(b)'
    BY <1>1, <1>4, <1>8 DEF AlarmInv, ChangesAnnounced, AboutToTell
  <2>2. /\ slots'[a] = t /\ \A b \in Slots \ {a} : slots'[b] = slots[b]
        /\ \A b \in Slots : AboutToTell(b) => AboutToTell(b)'
    BY <1>1, <1>2 DEF AlarmInv, AlarmRanges, AboutToTell
  <2>3. \A b \in Slots : slots'[b].active /\ slots'[b].lastCond = "True" =>
                              slots'[b].notified # Stopped \/ AboutToTell(b)'
    BY <1>4, <1>8, <2>2 DEF AlarmInv, ChangesAnnounced, AboutToTell
  <2> QED BY <2>1, <2>3 DEF ChangesAnnounced
<1>11. DelaysKept
  <2> SUFFICES ASSUME NEW b \in Slots
               PROVE  LET so == IF slots'[b].lastCond = slots[b].lastCond THEN held[b] ELSE 0
                      IN  /\ ~slots[b].active /\ slots'[b].active =>
                               slots'[b].lastCond = "True" /\ so >= OnDelay[b]
                          /\ slots[b].active /\ ~slots'[b].active =>
                               /\ slots[b].lastCond # "True" \/ b \notin Latched
                               /\ slots'[b].lastCond = "False"
                               /\ b \notin Latched => so >= OffDelay[b]
                               /\ b \in Latched => UNCHANGED pass
    BY DEF DelaysKept
  <2>1. CASE b # a
    <3>1. slots'[b] = slots[b]
      BY <1>1, <2>1 DEF AlarmInv, AlarmRanges
    <3> QED BY <3>1
  <2>2. CASE b = a
    <3>1. slots'[b] = t
      BY <1>1, <2>2 DEF AlarmInv, AlarmRanges
    <3> QED BY <1>3, <2>2, <3>1 DEF lasted
  <2> QED BY <2>1, <2>2
<1> QED BY <1>7, <1>9, <1>10, <1>11 DEF AlarmInv

LEMMA AnnounceKeeps ==
    ASSUME AlarmInv, NEW kept \in SUBSET {pass.at}, Announce(kept)
    PROVE  AlarmInv' /\ DelaysKept
<1>1. /\ pass.step = "Announce" /\ slots' = [slots EXCEPT ![pass.at].notified = 0]
      /\ inQueue' = inQueue \cup kept /\ unseen' = unseen \ ({pass.at} \ kept)
      /\ pass' = NextSlot /\ UNCHANGED <<outgoing, accepted, held>>
  BY DEF Announce, Noted, Posted
<1>2. pass.at \in Slots
  BY <1>1 DEF AlarmInv, AlarmRanges
<1>3. /\ NextSlot.step = "Evaluate"
      /\ NextSlot \in [at : 0..SlotCount, judged : AlarmCondState,
                       step : {"Evaluate", "Apply", "Announce"}]
  BY <1>2, AlarmLemma DEF NextSlot, Asleep, AlarmCondState
<1>4. \A a \in Slots : /\ slots'[a] \in SlotRecords
                       /\ slots'[a].active = slots[a].active /\ slots'[a].lastCond = slots[a].lastCond
                       /\ slots'[a].on = slots[a].on /\ slots'[a].off = slots[a].off
                       /\ slots'[a].notified = (IF a = pass.at THEN 0 ELSE slots[a].notified)
  <2> TAKE a \in Slots
  <2>1. slots[a] \in SlotRecords /\ 0 \in Timers
    BY AlarmLemma DEF AlarmInv, AlarmRanges
  <2>2. slots'[a] = IF a = pass.at THEN [slots[a] EXCEPT !.notified = 0] ELSE slots[a]
    BY <1>1, <1>2 DEF AlarmInv, AlarmRanges
  <2> QED BY <2>1, <2>2 DEF SlotRecords
<1>5. AlarmRanges'
  BY <1>1, <1>2, <1>3, <1>4 DEF AlarmInv, AlarmRanges
<1>6. ChangesAnnounced'
  <2>1. \A a \in unseen' : a \in inQueue' \/ accepted' = a \/ AboutToTell(a)'
    BY <1>1 DEF AlarmInv, ChangesAnnounced, AboutToTell
  <2>2. \A a \in Slots : slots'[a].active /\ slots'[a].lastCond = "True" =>
                              slots'[a].notified # Stopped \/ AboutToTell(a)'
    BY <1>1, <1>4, AlarmLemma DEF AlarmInv, ChangesAnnounced, AboutToTell
  <2> QED BY <2>1, <2>2 DEF ChangesAnnounced
<1>7. \A a \in Slots : TimedAs(slots[a], held[a]) => TimedAs(slots'[a], held'[a])
  BY <1>1, <1>4 DEF TimedAs
<1> QED BY <1>4, <1>5, <1>6, <1>7 DEF AlarmInv, DelaysKept

LEMMA ResetKeeps ==
    ASSUME AlarmInv, NEW a \in Slots, resetWithActor(a)
    PROVE  AlarmInv' /\ DelaysKept
<1>1. accepted = 0 /\ outgoing' = outgoing \ {a} /\ UNCHANGED <<pass, inQueue, held>>
  BY DEF resetWithActor
<1>2. CASE Resettable(a)
  <2>1. /\ slots' = [slots EXCEPT ![a].active = FALSE, ![a].off = Stopped, ![a].notified = 0]
        /\ accepted' = a /\ unseen' = unseen \cup {a}
    BY <1>2 DEF resetWithActor
  <2>2. slots[a].active /\ a \in Latched /\ slots[a].lastCond = "False"
    BY <1>2 DEF Resettable
  <2>3. 0 \in Timers /\ Stopped \in Timers
    BY AlarmLemma
  <2>4. \A b \in Slots : slots'[b] \in SlotRecords /\ (b # a => slots'[b] = slots[b])
    <3> DEFINE u == [slots[a] EXCEPT !.active = FALSE, !.off = Stopped, !.notified = 0]
    <3>1. slots \in [Slots -> SlotRecords] /\ slots[a] \in SlotRecords
      BY DEF AlarmInv, AlarmRanges
    <3>2. u \in SlotRecords
      BY <2>3, <3>1 DEF SlotRecords
    <3>3. slots' = [slots EXCEPT ![a] = u]
      BY <2>1, <3>1
    <3> HIDE DEF u
    <3> QED BY <3>1, <3>2, <3>3
  <2>5. /\ ~slots'[a].active /\ slots'[a].off = Stopped /\ slots'[a].on = slots[a].on
        /\ slots'[a].lastCond = slots[a].lastCond
    BY <2>1 DEF AlarmInv, AlarmRanges, SlotRecords
  <2>6. AlarmRanges'
    BY <1>1, <2>1, <2>4, AlarmLemma DEF AlarmInv, AlarmRanges
  <2>7. ChangesAnnounced'
    <3>1. \A b \in unseen' : b \in inQueue' \/ accepted' = b \/ AboutToTell(b)'
      BY <1>1, <2>1, AlarmLemma DEF AlarmInv, AlarmRanges, ChangesAnnounced, AboutToTell
    <3>2. \A b \in Slots : slots'[b].active /\ slots'[b].lastCond = "True" =>
                                slots'[b].notified # Stopped \/ AboutToTell(b)'
      BY <1>1, <2>1, <2>4, <2>5, AlarmLemma DEF AlarmInv, ChangesAnnounced, AboutToTell
    <3> QED BY <3>1, <3>2 DEF ChangesAnnounced
  <2>8. \A b \in Slots : TimedAs(slots'[b], held'[b])
    BY <1>1, <2>2, <2>4, <2>5 DEF AlarmInv, TimedAs
  <2>9. DelaysKept
    BY <1>1, <2>2, <2>4, <2>5 DEF DelaysKept
  <2> QED BY <2>6, <2>7, <2>8, <2>9 DEF AlarmInv
<1>3. CASE ~Resettable(a)
  <2>1. UNCHANGED <<slots, accepted, unseen>>
    BY <1>3 DEF resetWithActor
  <2> QED BY <1>1, <2>1 DEF AlarmInv, AlarmRanges, ChangesAnnounced, AboutToTell, DelaysKept
<1> QED BY <1>2, <1>3

LEMMA AlarmStep ==
    ASSUME AlarmInv, [AlarmNext]_alarmVars
    PROVE  AlarmInv' /\ (DelaysKept \/ UNCHANGED alarmVars)
<1>1. ASSUME NEW cond \in AlarmCondState, Judge(cond)
      PROVE  AlarmInv' /\ DelaysKept
  <2>1. /\ pass' = [pass EXCEPT !.judged = cond, !.step = "Apply"] /\ pass.at > 0
        /\ pass.step = "Evaluate" /\ UNCHANGED <<slots, outgoing, accepted, inQueue, unseen, held>>
    BY <1>1 DEF Judge
  <2>2. /\ pass' \in [at : 0..SlotCount, judged : AlarmCondState,
                      step : {"Evaluate", "Apply", "Announce"}]
        /\ pass'.at = pass.at /\ pass'.step = "Apply"
    BY <1>1, <2>1 DEF AlarmInv, AlarmRanges
  <2>3. pass.at \in Slots
    BY <2>1, AlarmLemma DEF AlarmInv, AlarmRanges, Slots
  <2> QED
    BY <2>1, <2>2, <2>3 DEF AlarmInv, AlarmRanges, ChangesAnnounced, AboutToTell, DelaysKept
<1>2. ASSUME NEW alarms \in SUBSET Slots, Command(alarms)
      PROVE  AlarmInv' /\ DelaysKept
  BY <1>2 DEF Command, AlarmInv, AlarmRanges, ChangesAnnounced, AboutToTell, DelaysKept
<1>3. CASE ResetAll
  BY <1>2, <1>3 DEF ResetAll
<1>4. ASSUME NEW kept \in SUBSET {accepted}, AnnounceReset(kept)
      PROVE  AlarmInv' /\ DelaysKept
  <2>1. /\ accepted # 0 /\ accepted' = 0 /\ UNCHANGED <<slots, pass, outgoing, held>>
        /\ inQueue' = inQueue \cup kept /\ unseen' = unseen \ ({accepted} \ kept)
    BY <1>4 DEF AnnounceReset, Posted
  <2>2. accepted \in Slots
    BY <2>1 DEF AlarmInv, AlarmRanges, Slots
  <2>3. AlarmRanges'
    <3>1. inQueue' \subseteq Slots /\ unseen' \subseteq Slots
      BY <2>1, <2>2 DEF AlarmInv, AlarmRanges
    <3>2. accepted' \in 0..SlotCount
      BY <2>1, AlarmLemma
    <3> QED
      BY <2>1, <3>1, <3>2 DEF AlarmInv, AlarmRanges
  <2>4. ChangesAnnounced'
    <3>1. \A a \in unseen' : a \in inQueue' \/ accepted' = a \/ AboutToTell(a)'
      BY <2>1 DEF AlarmInv, ChangesAnnounced, AboutToTell
    <3>2. \A a \in Slots : slots'[a].active /\ slots'[a].lastCond = "True" =>
                                slots'[a].notified # Stopped \/ AboutToTell(a)'
      BY <2>1, <2>2 DEF AlarmInv, ChangesAnnounced, AboutToTell
    <3> QED BY <3>1, <3>2 DEF ChangesAnnounced
  <2> QED BY <2>1, <2>3, <2>4 DEF AlarmInv, DelaysKept
<1>5. ASSUME NEW a \in Slots, Look(a)
      PROVE  AlarmInv' /\ DelaysKept
  BY <1>5 DEF Look, AlarmInv, AlarmRanges, ChangesAnnounced, AboutToTell, DelaysKept
<1>6. CASE UNCHANGED alarmVars
  BY <1>6 DEF alarmVars, AlarmInv, AlarmRanges, ChangesAnnounced, AboutToTell
<1>7. CASE Evaluating
  BY <1>1, <1>7, StartPassKeeps, ApplyKeeps, AnnounceKeeps DEF Evaluating
<1>8. CASE Resetting
  BY <1>4, <1>8, ResetKeeps DEF Resetting
<1> QED
  BY <1>2, <1>3, <1>5, <1>6, <1>7, <1>8 DEF AlarmNext

(* An alarm is raised and cleared only after its condition has lasted for  *)
(* its delay, every change is posted, and of an active one whose condition *)
(* holds a reminder is to come though the bus may refuse any event.        *)
THEOREM AlarmsCorrect == AlarmSpec => AlarmsSound
<1>1. AlarmSpec => []AlarmInv
  BY AlarmInvInit, AlarmStep, PTL DEF AlarmSpec
<1>2. AlarmInv => AlarmTypeOK
  BY DEF AlarmInv, AlarmRanges, AlarmTypeOK, SlotRecords, TimedAs
<1>3. AlarmInv => ChangesAnnounced
  BY DEF AlarmInv
<1>4. AlarmInv /\ [AlarmNext]_alarmVars => [DelaysKept]_alarmVars
  BY AlarmStep
<1>5. DelaysKept <=>
        \A a \in Slots :
           LET lasted == IF slots'[a].lastCond = slots[a].lastCond THEN held[a] ELSE 0
           IN  /\ ~slots[a].active /\ slots'[a].active =>
                     slots'[a].lastCond = "True" /\ lasted >= OnDelay[a]
               /\ slots[a].active /\ ~slots'[a].active =>
                     /\ slots[a].lastCond # "True" \/ a \notin Latched
                     /\ slots'[a].lastCond = "False"
                     /\ a \notin Latched => lasted >= OffDelay[a]
                     /\ a \in Latched => UNCHANGED pass
  BY DEF DelaysKept
<1> QED
  BY <1>1, <1>2, <1>3, <1>4, <1>5, PTL DEF AlarmSpec, AlarmsSound, DelaysHold
-----------------------------------------------------------------------------
(* The update of the program (ReleaseUpgrade) *)

ReleaseRecords == [stage : Stages, version : Versions, image : Versions, received : 0..Chunks,
                   intact : BOOLEAN, rebootPending : BOOLEAN]
JobRecords == [step : {"None", "Starting", "Queued", "Cloning", "InPlace", "Flashing", "Finishing",
                       "Leaving"},
               target : {"Waveshare", "Spiffs"}, version : Versions]

UpgradeRanges ==
    /\ app \in [Partitions -> Versions \cup Torn] /\ fs \in [Partitions -> Versions \cup Torn]
    /\ ota \in [Partitions -> {"Valid", "New", "Pending", "Invalid"}]
    /\ boot \in Partitions /\ run \in Partitions /\ power \in {"Off", "Setup", "Halted", "Up"}
    /\ recorded.state \in {"None", "Running", "RebootPending", "Succeeded", "Interrupted", "Failed"}
    /\ release \in ReleaseRecords /\ job \in JobRecords
    /\ hand \in {"Free", "Begin", "Committing", "Selecting", "Restoring", "Restored"}

(* What runs is whole, and another slot is selected only as a new one,     *)
(* which the boot loader tries once.                                       *)
RunsWhole ==
    /\ app[run] \notin Torn
    /\ power = "Setup" => boot = run
    /\ power = "Up" => fs[run] # "Blank" /\ (boot # run => ota[boot] = "New")

(* One update at a time, and only while the device is up.                  *)
OneUpdate ==
    /\ power # "Up" => release.stage = "Idle" /\ job.step = "None"
    /\ release.stage = "Idle" => hand = "Free"
    /\ job.step # "None" => release.stage = "Idle"
    /\ hand \in {"Committing", "Selecting"} => release.stage = "FirmwareVerified"
    /\ release.rebootPending => hand = "Free" /\ release.stage \in {"ReadyToBoot", "Error"}

(* What the release has verified is in the slot that does not run.         *)
ImagesWritten ==
    /\ release.stage = "WritingFilesystem" /\ release.received = Chunks /\ release.intact =>
          fs[inactiveSlot] = release.image
    /\ release.stage = "WritingFirmware" /\ release.received = Chunks /\ release.intact =>
          app[inactiveSlot] = release.version
    /\ release.stage \in {"FilesystemVerified", "WritingFirmware", "FirmwareVerified"} =>
          fs[inactiveSlot] = release.version
    /\ release.stage = "FirmwareVerified" => app[inactiveSlot] = release.version
    /\ release.rebootPending => /\ boot = inactiveSlot
                               /\ app[boot] = release.version /\ fs[boot] = release.version

(* The receipt knows of the update for which another slot is selected.     *)
ReceiptKnows ==
    /\ hand = "Selecting" => recorded = [route |-> "local", state |-> "RebootPending"]
    /\ job.step \notin {"None", "Starting"} => recorded.route = "remote"
    /\ power = "Up" /\ boot # run /\ ~leftBehind =>
          \/ /\ release.rebootPending \/ hand = "Restoring"
             /\ recorded = [route |-> "local", state |-> "RebootPending"]
          \/ job.step \in {"Finishing", "Leaving"}

UpgradeInv == UpgradeRanges /\ RunsWhole /\ OneUpdate /\ ImagesWritten /\ ReceiptKnows

LEMMA OtherLemma ==
    \A s \in Partitions : other(s) \in Partitions /\ other(s) # s /\ other(other(s)) = s
BY DEF Partitions, other

LEMMA NoneLemma ==
    /\ NoRelease \in ReleaseRecords /\ NoRelease.stage = "Idle" /\ ~NoRelease.rebootPending
    /\ NoJob \in JobRecords /\ NoJob.step = "None"
BY DEF NoRelease, ReleaseRecords, Stages, Versions, Chunks, NoJob, JobRecords

LEMMA UpgradeInvInit == UpgradeInit => UpgradeInv
BY NoneLemma, OtherLemma, UpgradeAssumption
DEF UpgradeInit, UpgradeInv, UpgradeRanges, RunsWhole, OneUpdate, ImagesWritten, ReceiptKnows,
    Partitions, Versions, Torn

LEMMA FailLemma ==
    ASSUME release \in ReleaseRecords, Fail
    PROVE  /\ release' \in ReleaseRecords /\ release'.stage = "Error"
           /\ release'.version = release.version /\ release'.rebootPending = release.rebootPending
BY DEF Fail, ReleaseRecords, Stages

LEMMA ReceiptLemma ==
    ASSUME UpgradeRanges, NEW route \in {"local", "remote"}, reportFailure(route)
    PROVE  /\ recorded'.state \in {"None", "Running", "RebootPending", "Succeeded", "Interrupted",
                                  "Failed"}
           /\ recorded' = recorded \/ recorded' = [route |-> route, state |-> "Failed"]
BY DEF reportFailure, persistReceipt, UpgradeRanges

(* While a release is under way the device is up and there is no job.      *)
LEMMA ReleaseAlone ==
    ASSUME UpgradeInv, release.stage # "Idle" \/ hand # "Free" \/ release.rebootPending
    PROVE  power = "Up" /\ job.step = "None" /\ release.stage # "Idle"
BY DEF UpgradeInv, OneUpdate, UpgradeRanges

LEMMA BeginReleaseKeeps ==
    ASSUME UpgradeInv, NEW version \in Newer, NEW image \in Newer, BeginRelease(version, image)
    PROVE  UpgradeInv'
<1> USE DEF UpgradeInv, history
<1>1. /\ power = "Up" /\ hand = "Free" /\ job.step = "None" /\ release.stage = "Idle"
      /\ release' = [NoRelease EXCEPT !.stage = "Prepared", !.version = version, !.image = image]
      /\ hand' = "Begin" /\ UNCHANGED <<app, fs, ota, boot, run, power, recorded, job, leftBehind>>
  BY DEF BeginRelease, UpdaterFree, flash
<1>2. /\ release' \in ReleaseRecords /\ release'.stage = "Prepared" /\ ~release'.rebootPending
  <2>1. release' = [stage |-> "Prepared", version |-> version, image |-> image, received |-> 0,
                    intact |-> FALSE, rebootPending |-> FALSE]
    BY <1>1 DEF NoRelease
  <2> QED BY <2>1 DEF ReleaseRecords, Stages, Versions, Chunks
<1> QED
  BY <1>1, <1>2 DEF UpgradeRanges, RunsWhole, OneUpdate, ImagesWritten, ReceiptKnows, inactiveSlot

LEMMA BegunKeeps ==
    ASSUME UpgradeInv, Begun
    PROVE  UpgradeInv'
<1> USE DEF UpgradeInv, history
<1>1. /\ hand = "Begin" /\ hand' = "Free" /\ power = "Up" /\ job.step = "None"
      /\ UNCHANGED <<app, fs, ota, boot, run, power, job, leftBehind>>
  BY ReleaseAlone DEF Begun, flash
<1>2. /\ release' \in ReleaseRecords /\ ~release'.rebootPending /\ ~release.rebootPending
      /\ release' = release \/ release'.stage = "Idle"
      /\ recorded' = recorded \/ recorded' = [route |-> "local", state |-> "Running"]
  BY <1>1, NoneLemma DEF Begun, persistReceipt, UpgradeRanges, OneUpdate
<1> QED
  BY <1>1, <1>2 DEF UpgradeRanges, RunsWhole, OneUpdate, ImagesWritten, ReceiptKnows, inactiveSlot

(* The release fails, or ends, and leaves what is written.                 *)
LEMMA EndsKeep ==
    ASSUME UpgradeInv, OutOfOrder \/ Abandon
    PROVE  UpgradeInv'
<1> USE DEF UpgradeInv, history
<1>1. /\ hand = "Free" /\ release.stage # "Idle" /\ power = "Up" /\ job.step = "None"
      /\ UNCHANGED <<app, fs, ota, boot, run, power, job, leftBehind, hand>>
  BY ReleaseAlone DEF OutOfOrder, Abandon, MayBeDropped, flash
<1>2. CASE OutOfOrder
  <2>1. /\ release' \in ReleaseRecords /\ release'.stage = "Error" /\ recorded' = recorded
        /\ release'.version = release.version /\ release'.rebootPending = release.rebootPending
    BY <1>2, FailLemma DEF OutOfOrder, UpgradeRanges
  <2> QED
    BY <1>1, <2>1 DEF UpgradeRanges, RunsWhole, OneUpdate, ImagesWritten, ReceiptKnows, inactiveSlot
<1>3. CASE Abandon
  <2>1. /\ release' = NoRelease /\ ~release.rebootPending
        /\ recorded'.state \in {"None", "Running", "RebootPending", "Succeeded", "Interrupted",
                               "Failed"}
    BY <1>3, ReceiptLemma DEF Abandon, MayBeDropped
  <2> QED
    BY <1>1, <2>1, NoneLemma
    DEF UpgradeRanges, RunsWhole, OneUpdate, ImagesWritten, ReceiptKnows, inactiveSlot
<1> QED BY <1>2, <1>3

LEMMA BeginImageKeeps ==
    ASSUME UpgradeInv, BeginFilesystem \/ BeginFirmware
    PROVE  UpgradeInv'
<1> USE DEF UpgradeInv, history
<1>1. /\ hand = "Free" /\ release.stage \in {"Prepared", "FilesystemVerified"}
      /\ power = "Up" /\ job.step = "None" /\ ~release.rebootPending
      /\ UNCHANGED <<ota, boot, run, power, recorded, hand, job, leftBehind>>
  <2>1. hand = "Free" /\ release.stage \in {"Prepared", "FilesystemVerified"}
        /\ UNCHANGED <<ota, boot, run, power, recorded, hand, job, leftBehind>>
    BY DEF BeginFilesystem, BeginFirmware
  <2> QED BY <2>1, ReleaseAlone DEF OneUpdate
<1>2. inactiveSlot \in Partitions /\ inactiveSlot # run /\ "Blank" \in Torn
  BY OtherLemma DEF inactiveSlot, UpgradeRanges, Torn
<1>3. /\ release' \in ReleaseRecords /\ ~release'.rebootPending /\ release'.version = release.version
      /\ \/ BeginFilesystem /\ release'.stage = "WritingFilesystem" /\ release'.received = 0
         \/ BeginFirmware /\ release'.stage = "WritingFirmware" /\ release'.received = 0
         \/ BeginFirmware /\ release'.stage = "Error" /\ app' = app
  <2>1. \A st \in Stages, n \in 0..Chunks :
           LET r == [release EXCEPT !.stage = st, !.received = n, !.intact = TRUE]
           IN  /\ r \in ReleaseRecords /\ r.stage = st /\ r.received = n
               /\ r.version = release.version /\ r.rebootPending = release.rebootPending
    BY DEF UpgradeRanges, ReleaseRecords
  <2>2. 0 \in 0..Chunks /\ "WritingFilesystem" \in Stages /\ "WritingFirmware" \in Stages
    BY DEF Chunks, Stages
  <2>3. CASE BeginFilesystem
    <3>1. release' = [release EXCEPT !.stage = "WritingFilesystem", !.received = 0, !.intact = TRUE]
      BY <2>3 DEF BeginFilesystem
    <3>2. release' \in ReleaseRecords
      BY <2>1, <2>2, <3>1
    <3>3. /\ release'.stage = "WritingFilesystem" /\ release'.received = 0
          /\ release'.version = release.version /\ release'.rebootPending = release.rebootPending
      BY <3>1 DEF UpgradeRanges, ReleaseRecords
    <3> QED BY <1>1, <2>3, <3>2, <3>3
  <2>4. CASE BeginFirmware /\ ota[run] # "Pending"
    <3>1. release' = [release EXCEPT !.stage = "WritingFirmware", !.received = 0, !.intact = TRUE]
      BY <2>4 DEF BeginFirmware
    <3> QED BY <1>1, <2>1, <2>2, <2>4, <3>1
  <2>5. CASE BeginFirmware /\ ota[run] = "Pending"
    BY <1>1, <2>5, FailLemma DEF BeginFirmware, UpgradeRanges
  <2> QED BY <2>3, <2>4, <2>5
<1>4. /\ app' \in [Partitions -> Versions \cup Torn] /\ fs' \in [Partitions -> Versions \cup Torn]
      /\ app'[run] = app[run] /\ fs'[run] = fs[run]
  BY <1>2 DEF BeginFilesystem, BeginFirmware, UpgradeRanges
<1>5. BeginFirmware => fs' = fs /\ release.stage = "FilesystemVerified"
  BY DEF BeginFirmware
<1> QED
  BY <1>1, <1>3, <1>4, <1>5
  DEF UpgradeRanges, RunsWhole, OneUpdate, ImagesWritten, ReceiptKnows, inactiveSlot, Chunks

LEMMA WriteImageKeeps ==
    ASSUME UpgradeInv, NEW good \in BOOLEAN, WriteImage(good)
    PROVE  UpgradeInv'
<1> USE DEF UpgradeInv, history
<1>1. /\ hand = "Free" /\ release.stage \in {"WritingFilesystem", "WritingFirmware"}
      /\ release.received < Chunks
      /\ release' = [release EXCEPT !.received = @ + 1, !.intact = @ /\ good]
      /\ fs' = Fill(fs, "WritingFilesystem", good) /\ app' = Fill(app, "WritingFirmware", good)
      /\ UNCHANGED <<ota, boot, run, power, recorded, hand, job, leftBehind>>
  BY DEF WriteImage, MoreExpected
<1>2. power = "Up" /\ job.step = "None" /\ ~release.rebootPending
  BY <1>1, ReleaseAlone DEF OneUpdate
<1>3. /\ release' \in ReleaseRecords /\ release'.stage = release.stage
      /\ release'.received = release.received + 1 /\ (release'.intact <=> release.intact /\ good)
      /\ release'.version = release.version /\ release'.image = release.image
      /\ ~release'.rebootPending
  <2>1. release \in ReleaseRecords
    BY DEF UpgradeRanges
  <2>2. release.received + 1 \in 0..Chunks /\ (release.intact /\ good) \in BOOLEAN
    BY <1>1, <2>1 DEF ReleaseRecords, Chunks
  <2>3. \A n \in 0..Chunks, b \in BOOLEAN :
           [release EXCEPT !.received = n, !.intact = b] \in ReleaseRecords
    BY <2>1 DEF ReleaseRecords
  <2>4. release' \in ReleaseRecords
    BY <1>1, <2>2, <2>3
  <2> QED BY <1>1, <1>2, <2>1, <2>4 DEF ReleaseRecords
<1>4. inactiveSlot \in Partitions /\ inactiveSlot # run
  BY OtherLemma DEF inactiveSlot, UpgradeRanges
<1>5. /\ fs' \in [Partitions -> Versions \cup Torn] /\ app' \in [Partitions -> Versions \cup Torn]
      /\ fs'[run] = fs[run] /\ app'[run] = app[run]
      /\ release.stage = "WritingFirmware" => fs' = fs
      /\ release.stage = "WritingFilesystem" => app' = app
  BY <1>1, <1>4 DEF Fill, UpgradeRanges, ReleaseRecords
<1>6. release'.received = Chunks /\ release'.intact =>
         /\ release.stage = "WritingFilesystem" => fs'[inactiveSlot] = release.image
         /\ release.stage = "WritingFirmware" => app'[inactiveSlot] = release.version
  BY <1>1, <1>3, <1>4 DEF Fill, UpgradeRanges
<1>7. ImagesWritten'
  BY <1>1, <1>3, <1>5, <1>6 DEF ImagesWritten, inactiveSlot
<1> QED
  BY <1>1, <1>2, <1>3, <1>5, <1>7 DEF UpgradeRanges, RunsWhole, OneUpdate, ReceiptKnows

LEMMA EndImageKeeps ==
    ASSUME UpgradeInv, EndImage
    PROVE  UpgradeInv'
<1> USE DEF UpgradeInv, history
<1>1. /\ hand = "Free" /\ release.stage \in {"WritingFilesystem", "WritingFirmware"}
      /\ release.received = Chunks
      /\ UNCHANGED <<app, fs, ota, boot, run, power, recorded, hand, job, leftBehind>>
  BY DEF EndImage, flash
<1>2. power = "Up" /\ job.step = "None" /\ ~release.rebootPending
  BY <1>1, ReleaseAlone DEF OneUpdate
<1>3. CASE ImageAccepted
  <2> DEFINE st == IF release.stage = "WritingFilesystem" THEN "FilesystemVerified"
                   ELSE "FirmwareVerified"
  <2>1. release' = [release EXCEPT !.received = 0, !.stage = st]
    BY <1>3 DEF EndImage
  <2>2. st \in Stages /\ 0 \in 0..Chunks
    BY DEF Stages, Chunks
  <2>3. /\ release.stage = "WritingFilesystem" => st = "FilesystemVerified"
        /\ release.stage = "WritingFirmware" => st = "FirmwareVerified"
    OBVIOUS
  <2> HIDE DEF st
  <2>4. /\ release' \in ReleaseRecords /\ release'.stage = st
        /\ release'.version = release.version /\ ~release'.rebootPending
    BY <1>2, <2>1, <2>2 DEF UpgradeRanges, ReleaseRecords
  <2>5. /\ release.stage = "WritingFilesystem" => fs[inactiveSlot] = release.version
        /\ release.stage = "WritingFirmware" => /\ fs[inactiveSlot] = release.version
                                               /\ app[inactiveSlot] = release.version
    BY <1>1, <1>3 DEF ImageAccepted, ImagesWritten
  <2> QED
    BY <1>1, <1>2, <2>3, <2>4, <2>5
    DEF UpgradeRanges, RunsWhole, OneUpdate, ImagesWritten, ReceiptKnows, inactiveSlot
<1>4. CASE ~ImageAccepted
  <2>1. /\ release' \in ReleaseRecords /\ release'.stage = "Error" /\ ~release'.rebootPending
    BY <1>2, <1>4, FailLemma DEF EndImage, UpgradeRanges
  <2> QED
    BY <1>1, <1>2, <2>1
    DEF UpgradeRanges, RunsWhole, OneUpdate, ImagesWritten, ReceiptKnows, inactiveSlot
<1> QED BY <1>3, <1>4

(* The commit, up to the selection of the slot.                            *)
LEMMA CommitKeeps ==
    ASSUME UpgradeInv, Commit \/ CommitReceipt
    PROVE  UpgradeInv'
<1> USE DEF UpgradeInv, history
<1>1. /\ release.stage = "FirmwareVerified"
      /\ UNCHANGED <<app, fs, ota, boot, run, power, job, leftBehind>>
  BY DEF Commit, CommitReceipt, OneUpdate, flash
<1>2. power = "Up" /\ job.step = "None" /\ ~release.rebootPending
  BY <1>1, ReleaseAlone DEF OneUpdate
<1>3. CASE Commit
  <2>1. hand = "Free" /\ hand' \in {"Free", "Committing"} /\ UNCHANGED <<release, recorded>>
    BY <1>3 DEF Commit
  <2> QED
    BY <1>1, <1>2, <2>1
    DEF UpgradeRanges, RunsWhole, OneUpdate, ImagesWritten, ReceiptKnows, inactiveSlot
<1>4. CASE CommitReceipt
  <2>1. hand = "Committing"
    BY <1>4 DEF CommitReceipt
  <2>2. \/ /\ recorded' = [route |-> "local", state |-> "RebootPending"] /\ hand' = "Selecting"
           /\ release' = release
        \/ /\ release' \in ReleaseRecords /\ release'.stage = "Error" /\ ~release'.rebootPending
           /\ hand' = "Free" /\ recorded' = recorded
    BY <1>2, <1>4, FailLemma DEF CommitReceipt, persistReceipt, UpgradeRanges
  <2> QED
    BY <1>1, <1>2, <2>1, <2>2
    DEF UpgradeRanges, RunsWhole, OneUpdate, ImagesWritten, ReceiptKnows, inactiveSlot
<1> QED BY <1>3, <1>4

LEMMA SelectKeeps ==
    ASSUME UpgradeInv, SelectRelease
    PROVE  UpgradeInv'
<1> USE DEF UpgradeInv, history
<1>1. /\ hand = "Selecting" /\ hand' = "Free" /\ release.stage = "FirmwareVerified"
      /\ recorded = [route |-> "local", state |-> "RebootPending"]
      /\ UNCHANGED <<app, fs, run, power, job, leftBehind>>
  BY DEF SelectRelease, OneUpdate, ReceiptKnows
<1>2. power = "Up" /\ job.step = "None" /\ ~release.rebootPending
  BY <1>1, ReleaseAlone DEF OneUpdate
<1>3. inactiveSlot \in Partitions /\ inactiveSlot # run
  BY OtherLemma DEF inactiveSlot, UpgradeRanges
<1>4. ASSUME boot' = inactiveSlot, ota' = [ota EXCEPT ![inactiveSlot] = "New"], recorded' = recorded,
             release' = [release EXCEPT !.stage = "ReadyToBoot", !.rebootPending = TRUE]
      PROVE  UpgradeInv'
  <2>1. /\ release' \in ReleaseRecords /\ release'.stage = "ReadyToBoot" /\ release'.rebootPending
        /\ release'.version = release.version
    BY <1>4 DEF UpgradeRanges, ReleaseRecords, Stages
  <2>2. ota' \in [Partitions -> {"Valid", "New", "Pending", "Invalid"}] /\ ota'[inactiveSlot] = "New"
    BY <1>3, <1>4 DEF UpgradeRanges
  <2> QED
    BY <1>1, <1>2, <1>3, <1>4, <2>1, <2>2
    DEF UpgradeRanges, RunsWhole, OneUpdate, ImagesWritten, ReceiptKnows, inactiveSlot
<1>5. ASSUME reportFailure("local"), Fail, UNCHANGED <<boot, ota>>
      PROVE  UpgradeInv'
  <2>1. /\ release' \in ReleaseRecords /\ release'.stage = "Error" /\ ~release'.rebootPending
        /\ recorded'.state \in {"None", "Running", "RebootPending", "Succeeded", "Interrupted",
                               "Failed"}
    BY <1>2, <1>5, FailLemma, ReceiptLemma DEF UpgradeRanges
  <2> QED
    BY <1>1, <1>2, <1>5, <2>1
    DEF UpgradeRanges, RunsWhole, OneUpdate, ImagesWritten, ReceiptKnows, inactiveSlot
<1> QED BY <1>4, <1>5 DEF SelectRelease

(* The reboot that is taken back.                                          *)
LEMMA CancelKeeps ==
    ASSUME UpgradeInv, RebootCancelled \/ Restore \/ RestoreFails \/ CancelReceipt
    PROVE  UpgradeInv'
<1> USE DEF UpgradeInv, history
<1>1. /\ power = "Up" /\ job.step = "None" /\ UNCHANGED <<app, fs, run, power, job>>
      /\ release.stage # "Idle"
  BY ReleaseAlone DEF RebootCancelled, Restore, RestoreFails, CancelReceipt, flash
<1>2. CASE RebootCancelled
  <2>1. /\ hand = "Free" /\ release.rebootPending /\ hand' = "Restoring"
        /\ release' = [release EXCEPT !.rebootPending = FALSE]
        /\ UNCHANGED <<boot, ota, recorded, leftBehind>>
    BY <1>2 DEF RebootCancelled, flash
  <2>2. /\ release' \in ReleaseRecords /\ ~release'.rebootPending /\ release'.stage = release.stage
        /\ release.stage \in {"ReadyToBoot", "Error"}
    BY <2>1 DEF UpgradeRanges, ReleaseRecords, OneUpdate
  <2> QED
    BY <1>1, <2>1, <2>2
    DEF UpgradeRanges, RunsWhole, OneUpdate, ImagesWritten, ReceiptKnows, inactiveSlot
<1>3. CASE Restore
  <2>1. /\ hand = "Restoring" /\ hand' = "Restored" /\ boot' = run /\ ~release.rebootPending
        /\ ota' = [ota EXCEPT ![run] = "New"] /\ UNCHANGED <<recorded, release>>
    BY <1>3 DEF Restore, Reselect, OneUpdate
  <2> QED
    BY <1>1, <2>1 DEF UpgradeRanges, RunsWhole, OneUpdate, ImagesWritten, ReceiptKnows, inactiveSlot
<1>4. CASE RestoreFails
  <2>1. /\ hand = "Restoring" /\ hand' = "Restored" /\ leftBehind' /\ ~release.rebootPending
        /\ UNCHANGED <<boot, ota, recorded, release>>
    BY <1>4 DEF RestoreFails, OneUpdate, flash
  <2> QED
    BY <1>1, <2>1 DEF UpgradeRanges, RunsWhole, OneUpdate, ImagesWritten, ReceiptKnows, inactiveSlot
<1>5. CASE CancelReceipt
  <2>1. /\ hand = "Restored" /\ hand' = "Free" /\ ~release.rebootPending
        /\ UNCHANGED <<boot, ota, leftBehind>>
    BY <1>5 DEF CancelReceipt, OneUpdate, flash
  <2>2. /\ release' \in ReleaseRecords /\ release'.stage = "Error" /\ ~release'.rebootPending
        /\ recorded'.state \in {"None", "Running", "RebootPending", "Succeeded", "Interrupted",
                               "Failed"}
    BY <1>5, <2>1, FailLemma, ReceiptLemma DEF CancelReceipt, UpgradeRanges
  <2> QED
    BY <1>1, <2>1, <2>2
    DEF UpgradeRanges, RunsWhole, OneUpdate, ImagesWritten, ReceiptKnows, inactiveSlot
<1> QED BY <1>2, <1>3, <1>4, <1>5

LEMMA StartKeeps ==
    ASSUME UpgradeInv, NEW target \in {"Waveshare", "Spiffs"}, NEW version \in Newer,
           StartUpdate(target, version)
    PROVE  UpgradeInv'
<1> USE DEF UpgradeInv, history
<1>1. /\ power = "Up" /\ job.step = "None" /\ release.stage = "Idle" /\ hand = "Free"
      /\ job' = [step |-> "Starting", target |-> target, version |-> version]
      /\ UNCHANGED <<app, fs, ota, boot, run, power, recorded, release, hand, leftBehind>>
  BY DEF StartUpdate, UpdaterFree, OneUpdate, flash
<1>2. job' \in JobRecords /\ job'.step = "Starting"
  BY <1>1 DEF JobRecords, Versions
<1> QED
  BY <1>1, <1>2 DEF UpgradeRanges, RunsWhole, OneUpdate, ImagesWritten, ReceiptKnows, inactiveSlot

(* While a job is under way there is no release, and the device is up.     *)
LEMMA JobAlone ==
    ASSUME UpgradeInv, job.step # "None"
    PROVE  power = "Up" /\ release.stage = "Idle" /\ hand = "Free" /\ ~release.rebootPending
BY DEF UpgradeInv, OneUpdate, UpgradeRanges

LEMMA StepLemma ==
    ASSUME job \in JobRecords, NEW step \in {"Queued", "Cloning", "InPlace", "Flashing", "Finishing",
                                            "Leaving"},
           job' = [job EXCEPT !.step = step]
    PROVE  job' \in JobRecords /\ job'.step = step
BY DEF JobRecords

LEMMA JobKeeps ==
    ASSUME UpgradeInv, Queue \/ TakeJob \/ Clone \/ Flashed \/ FlashedInPlace \/ FinishReceipt
                       \/ FailJob
    PROVE  UpgradeInv'
<1> USE DEF UpgradeInv, history
<1>1. /\ power = "Up" /\ release.stage = "Idle" /\ hand = "Free" /\ ~release.rebootPending
      /\ job.step # "None" /\ job \in JobRecords
      /\ UNCHANGED <<run, power, release, hand>>
  <2>1. job.step # "None" /\ UNCHANGED <<run, power, release, hand>>
    BY DEF Queue, TakeJob, Clone, Flashed, FlashedInPlace, FinishReceipt, FailJob
  <2> QED BY <2>1, JobAlone DEF UpgradeRanges
<1>2. /\ inactiveSlot \in Partitions /\ inactiveSlot # run /\ "Blank" \in Torn /\ "InPlace" \in Torn
      /\ job.version \in Versions /\ job.version \notin Torn /\ "Blank" # job.version
  BY <1>1, OtherLemma, UpgradeAssumption DEF inactiveSlot, UpgradeRanges, Torn, JobRecords
<1>3. SUFFICES /\ UpgradeRanges' /\ RunsWhole'
               /\ job'.step \notin {"None", "Starting"} => recorded'.route = "remote"
               /\ boot' # run /\ ~leftBehind' => job'.step \in {"Finishing", "Leaving"}
  BY <1>1 DEF OneUpdate, ImagesWritten, ReceiptKnows
<1>4. boot # run /\ ~leftBehind => job.step \in {"Finishing", "Leaving"}
  BY <1>1 DEF ReceiptKnows
<1>5. CASE Queue
  <2>1. job.step = "Starting" /\ UNCHANGED <<app, fs, ota, boot, leftBehind>>
    BY <1>5 DEF Queue, flash
  <2>2. /\ job' \in JobRecords
        /\ \/ job'.step = "Queued" /\ recorded' = [route |-> "remote", state |-> "Running"]
           \/ job'.step = "None" /\ recorded' = recorded
    BY <1>1, <1>5, StepLemma, NoneLemma DEF Queue, persistReceipt
  <2> QED BY <1>1, <1>4, <2>1, <2>2 DEF UpgradeRanges, RunsWhole
<1>6. CASE TakeJob
  <2>1. /\ job.step = "Queued" /\ UNCHANGED <<app, ota, boot, leftBehind, recorded>>
        /\ \/ job' = [job EXCEPT !.step = "InPlace"] /\ fs' = [fs EXCEPT ![run] = "InPlace"]
           \/ job' = [job EXCEPT !.step = "Cloning"] /\ fs' = [fs EXCEPT ![inactiveSlot] = "Blank"]
    BY <1>6 DEF TakeJob
  <2>2. job' \in JobRecords /\ job'.step \in {"InPlace", "Cloning"}
    BY <1>1, <2>1, StepLemma
  <2>3. fs' \in [Partitions -> Versions \cup Torn] /\ fs'[run] # "Blank"
    BY <1>1, <1>2, <2>1 DEF UpgradeRanges, RunsWhole
  <2> QED BY <1>1, <1>4, <2>1, <2>2, <2>3 DEF UpgradeRanges, RunsWhole, ReceiptKnows
<1>7. CASE Clone
  <2>1. /\ job.step = "Cloning" /\ UNCHANGED <<ota, boot, leftBehind, recorded>>
        /\ job' = [job EXCEPT !.step = "Flashing"]
        /\ fs' = [fs EXCEPT ![inactiveSlot] = fs[run]] /\ app' = [app EXCEPT ![inactiveSlot] = "Blank"]
    BY <1>7 DEF Clone
  <2>2. job' \in JobRecords /\ job'.step = "Flashing"
    BY <1>1, <2>1, StepLemma
  <2>3. /\ fs' \in [Partitions -> Versions \cup Torn] /\ fs'[run] = fs[run]
        /\ app' \in [Partitions -> Versions \cup Torn] /\ app'[run] = app[run]
    BY <1>1, <1>2, <2>1 DEF UpgradeRanges
  <2> QED BY <1>1, <1>4, <2>1, <2>2, <2>3 DEF UpgradeRanges, RunsWhole, ReceiptKnows
<1>8. CASE Flashed
  <2>1. /\ job.step = "Flashing" /\ UNCHANGED <<fs, leftBehind, recorded>>
        /\ job' = [job EXCEPT !.step = "Finishing"] /\ app' = [app EXCEPT ![inactiveSlot] = job.version]
        /\ boot' = inactiveSlot /\ ota' = [ota EXCEPT ![inactiveSlot] = "New"]
    BY <1>8 DEF Flashed
  <2>2. job' \in JobRecords /\ job'.step = "Finishing"
    BY <1>1, <2>1, StepLemma
  <2>3. /\ app' \in [Partitions -> Versions \cup Torn] /\ app'[run] = app[run]
        /\ ota' \in [Partitions -> {"Valid", "New", "Pending", "Invalid"}] /\ ota'[boot'] = "New"
    BY <1>1, <1>2, <2>1 DEF UpgradeRanges
  <2> QED BY <1>1, <1>2, <2>1, <2>2, <2>3 DEF UpgradeRanges, RunsWhole, ReceiptKnows
<1>9. CASE FlashedInPlace
  <2>1. /\ job.step = "InPlace" /\ UNCHANGED <<app, ota, boot, leftBehind, recorded>>
        /\ job' = [job EXCEPT !.step = "Finishing"] /\ fs' = [fs EXCEPT ![run] = job.version]
    BY <1>9 DEF FlashedInPlace
  <2>2. job' \in JobRecords /\ job'.step = "Finishing"
    BY <1>1, <2>1, StepLemma
  <2>3. fs' \in [Partitions -> Versions \cup Torn] /\ fs'[run] # "Blank"
    BY <1>1, <1>2, <2>1 DEF UpgradeRanges
  <2> QED BY <1>1, <1>4, <2>1, <2>2, <2>3 DEF UpgradeRanges, RunsWhole, ReceiptKnows
<1>10. CASE FinishReceipt
  <2>1. /\ job.step = "Finishing" /\ UNCHANGED <<app, fs, ota, boot, leftBehind>>
        /\ job' = [job EXCEPT !.step = "Leaving"]
        /\ recorded' = [route |-> "remote", state |-> "RebootPending"]
    BY <1>10 DEF FinishReceipt, persistReceipt, flash
  <2>2. job' \in JobRecords /\ job'.step = "Leaving"
    BY <1>1, <2>1, StepLemma
  <2> QED BY <1>1, <2>1, <2>2 DEF UpgradeRanges, RunsWhole
<1>11. CASE FailJob
  <2>1. /\ job' = NoJob /\ UNCHANGED <<app, fs, ota, boot>>
        /\ leftBehind' = (leftBehind \/ (boot # run /\ job.step \in {"Finishing", "Leaving"}))
        /\ recorded'.state \in {"None", "Running", "RebootPending", "Succeeded", "Interrupted",
                               "Failed"}
    BY <1>11, ReceiptLemma DEF FailJob, flash
  <2>2. boot # run => leftBehind'
    BY <1>4, <2>1, Zenon
  <2> QED BY <1>1, <2>1, <2>2, NoneLemma DEF UpgradeRanges, RunsWhole
<1> QED BY <1>5, <1>6, <1>7, <1>8, <1>9, <1>10, <1>11

LEMMA DownKeeps ==
    ASSUME UpgradeInv, RestartDevice \/ PowerCut
    PROVE  UpgradeInv'
<1> USE DEF UpgradeInv, history
<1>1. /\ power' = "Off" /\ release' = NoRelease /\ hand' = "Free" /\ job' = NoJob
      /\ UNCHANGED <<app, fs, ota, boot, run, recorded, leftBehind>>
  BY DEF RestartDevice, PowerCut, GoOff, flash
<1> QED
  BY <1>1, NoneLemma DEF UpgradeRanges, RunsWhole, OneUpdate, ImagesWritten, ReceiptKnows

(* The boot loader finds a whole application: the one that ran last is.    *)
LEMMA BootKeeps ==
    ASSUME UpgradeInv, BootStep
    PROVE  UpgradeInv'
<1> USE DEF UpgradeInv, history
<1>1. /\ power \in {"Off", "Setup"} /\ power # "Up"
      /\ UNCHANGED <<app, fs, release, hand, job>>
  BY DEF BootStep, Boot, Mount, MountFails, flash
<1>2. release.stage = "Idle" /\ job.step = "None" /\ hand = "Free" /\ ~release.rebootPending
  BY <1>1 DEF OneUpdate
<1>3. CASE Boot
  <2>1. /\ power' = "Setup" /\ run' = BootSlot /\ boot' = BootSlot /\ recorded' = recorded
    BY <1>3 DEF Boot
  <2>2. BootSlot \in Partitions /\ app[BootSlot] \notin Torn
    <3>1. Candidate \in Partitions /\ other(Candidate) \in Partitions
      BY OtherLemma DEF Candidate, UpgradeRanges
    <3>2. \A s \in Partitions : s = run \/ other(s) = run
      BY DEF UpgradeRanges, Partitions, other
    <3> QED BY <3>1, <3>2 DEF BootSlot, RunsWhole
  <2>3. ota' \in [Partitions -> {"Valid", "New", "Pending", "Invalid"}]
    BY <1>3 DEF Boot, UpgradeRanges
  <2> QED
    BY <1>1, <1>2, <2>1, <2>2, <2>3
    DEF UpgradeRanges, RunsWhole, OneUpdate, ImagesWritten, ReceiptKnows
<1>4. CASE Mount
  <2>1. /\ power = "Setup" /\ fs[run] \notin Torn /\ power' = "Up" /\ recorded'.state = AfterBoot
        /\ UNCHANGED <<ota, boot, run, leftBehind>>
    BY <1>4 DEF Mount, persistReceipt, flash
  <2>2. AfterBoot \in {"None", "Running", "RebootPending", "Succeeded", "Interrupted", "Failed"}
    BY DEF AfterBoot, UpgradeRanges
  <2> QED
    BY <1>1, <1>2, <2>1, <2>2
    DEF UpgradeRanges, RunsWhole, OneUpdate, ImagesWritten, ReceiptKnows, Torn
<1>5. CASE MountFails
  <2>1. power' \in {"Off", "Halted"} /\ UNCHANGED <<run, recorded>>
    BY <1>5 DEF MountFails
  <2>2. /\ ota' \in [Partitions -> {"Valid", "New", "Pending", "Invalid"}] /\ boot' \in Partitions
    BY <1>5, OtherLemma DEF MountFails, RollBack, inactiveSlot, UpgradeRanges
  <2> QED
    BY <1>1, <1>2, <2>1, <2>2
    DEF UpgradeRanges, RunsWhole, OneUpdate, ImagesWritten, ReceiptKnows
<1> QED BY <1>3, <1>4, <1>5 DEF BootStep

LEMMA ConfirmKeeps ==
    ASSUME UpgradeInv, ConfirmApplication \/ RejectApplication
    PROVE  UpgradeInv'
<1> USE DEF UpgradeInv, history
<1>1. CASE ConfirmApplication
  <2>1. /\ ota' = [ota EXCEPT ![run] = "Valid"]
        /\ UNCHANGED <<app, fs, boot, run, power, recorded, release, hand, job, leftBehind>>
    BY <1>1 DEF ConfirmApplication
  <2>2. /\ ota' \in [Partitions -> {"Valid", "New", "Pending", "Invalid"}]
        /\ boot # run => ota'[boot] = ota[boot]
    BY <2>1 DEF UpgradeRanges
  <2> QED
    BY <2>1, <2>2 DEF UpgradeRanges, RunsWhole, OneUpdate, ImagesWritten, ReceiptKnows, inactiveSlot
<1>2. CASE RejectApplication
  <2>1. /\ ota' = [ota EXCEPT ![run] = "Invalid"] /\ boot' = inactiveSlot /\ power' = "Off"
        /\ release' = NoRelease /\ hand' = "Free" /\ job' = NoJob
        /\ UNCHANGED <<app, fs, run, recorded, leftBehind>>
    BY <1>2 DEF RejectApplication, RollBack, GoOff
  <2>2. /\ ota' \in [Partitions -> {"Valid", "New", "Pending", "Invalid"}] /\ boot' \in Partitions
    BY <2>1, OtherLemma DEF inactiveSlot, UpgradeRanges
  <2> QED
    BY <2>1, <2>2, NoneLemma DEF UpgradeRanges, RunsWhole, OneUpdate, ImagesWritten, ReceiptKnows
<1> QED BY <1>1, <1>2

LEMMA UpgradeStep ==
    ASSUME UpgradeInv, [UpgradeNext]_upgradeVars
    PROVE  UpgradeInv'
<1>1. CASE UNCHANGED upgradeVars
  BY <1>1 DEF upgradeVars, flash, UpgradeInv, UpgradeRanges, RunsWhole, OneUpdate, ImagesWritten,
              ReceiptKnows, inactiveSlot
<1>2. CASE LocalStep
  BY <1>2, BegunKeeps, BeginImageKeeps, EndsKeep, EndImageKeeps, CommitKeeps, SelectKeeps, CancelKeeps,
     WriteImageKeeps DEF LocalStep
<1> QED
  BY <1>1, <1>2, BeginReleaseKeeps, StartKeeps, JobKeeps, BootKeeps, DownKeeps, ConfirmKeeps
  DEF UpgradeNext, RemoteStep, StayUp

(* What an application that is not confirmed would go back to has a file   *)
(* system, until an update has begun to write over it.                     *)
Unconfirmed == {"New", "Pending"}

FallbackKept ==
    ~overwritten =>
        /\ ota[run] \in Unconfirmed /\ app[other(run)] \notin Torn => fs[other(run)] # "Blank"
        /\ ota[other(run)] \in Unconfirmed => fs[run] # "Blank"

SlotFilled == hand = "Restoring" \/ job.step = "Flashing" => fs[inactiveSlot] # "Blank"

FallbackInv == FallbackKept /\ SlotFilled

LEMMA FallbackInvInit == UpgradeInit => FallbackInv
BY NoneLemma, UpgradeAssumption
DEF UpgradeInit, FallbackInv, FallbackKept, SlotFilled, Unconfirmed, Partitions, Versions, Torn, other

(* A step that runs on: what it writes, and what it makes unconfirmed.     *)
LEMMA SlotsLemma ==
    ASSUME UpgradeInv
    PROVE  /\ run \in Partitions /\ inactiveSlot = other(run) /\ inactiveSlot \in Partitions
           /\ inactiveSlot # run /\ other(inactiveSlot) = run
           /\ app \in [Partitions -> Versions \cup Torn] /\ fs \in [Partitions -> Versions \cup Torn]
           /\ ota \in [Partitions -> {"Valid", "New", "Pending", "Invalid"}]
           /\ \A v \in Versions : v \notin Torn /\ v # "Blank"
           /\ "Blank" \in Torn /\ "InPlace" # "Blank"
           /\ power = "Up" => fs[run] # "Blank"
           /\ release.version \in Versions /\ release.image \in Versions /\ job.version \in Versions
BY OtherLemma, UpgradeAssumption
DEF UpgradeInv, UpgradeRanges, RunsWhole, inactiveSlot, Torn, ReleaseRecords, JobRecords

LEMMA LocalFallback ==
    ASSUME UpgradeInv, FallbackInv, LocalStep
    PROVE  FallbackInv'
<1> USE SlotsLemma DEF FallbackInv, FallbackKept, SlotFilled, Unconfirmed, inactiveSlot, history, flash
<1>1. CASE Begun \/ OutOfOrder \/ EndImage \/ Commit \/ CommitReceipt \/ CancelReceipt \/ Abandon
  <2>1. UNCHANGED <<app, fs, ota, run, job, overwritten>> /\ (hand' = "Restoring" => hand = "Restoring")
    BY <1>1 DEF Begun, OutOfOrder, EndImage, Commit, CommitReceipt, CancelReceipt, Abandon
  <2> QED BY <2>1
<1>2. CASE BeginFilesystem
  <2>1. /\ fs' = [fs EXCEPT ![other(run)] = "Blank"] /\ UNCHANGED <<app, ota, run, hand, job>>
        /\ overwritten' = (overwritten \/ ~Confirmed) /\ hand = "Free" /\ release.stage # "Idle"
    BY <1>2 DEF BeginFilesystem
  <2>2. power = "Up" /\ job.step = "None"
    BY <2>1, ReleaseAlone
  <2> QED BY <2>1, <2>2 DEF Confirmed
<1>3. CASE BeginFirmware
  <2>1. /\ app' = app \/ app' = [app EXCEPT ![other(run)] = "Blank"]
        /\ UNCHANGED <<fs, ota, run, hand, job, overwritten>>
    BY <1>3 DEF BeginFirmware
  <2> QED BY <2>1
<1>4. ASSUME NEW good \in BOOLEAN, WriteImage(good)
      PROVE  FallbackInv'
  <2>1. /\ UNCHANGED <<ota, run, hand, job, overwritten>>
        /\ hand = "Free" /\ release.stage \in {"WritingFilesystem", "WritingFirmware"}
        /\ fs' = Fill(fs, "WritingFilesystem", good) /\ app' = Fill(app, "WritingFirmware", good)
    BY <1>4 DEF WriteImage
  <2>2. power = "Up" /\ job.step = "None"
    BY <2>1, ReleaseAlone
  <2>3. /\ fs'[run] = fs[run] /\ app'[run] = app[run]
        /\ fs[other(run)] # "Blank" => fs'[other(run)] # "Blank"
    BY <2>1 DEF Fill
  <2>4. CASE release.stage = "WritingFirmware"
    <3>1. fs' = fs /\ fs[other(run)] = release.version
      BY <2>1, <2>4 DEF Fill, UpgradeInv, ImagesWritten
    <3> QED BY <2>1, <2>2, <2>3, <3>1
  <2>5. CASE release.stage = "WritingFilesystem"
    <3>1. app' = app
      BY <2>1, <2>5 DEF Fill
    <3> QED BY <2>1, <2>2, <2>3, <3>1
  <2> QED BY <2>1, <2>4, <2>5
<1>5. CASE SelectRelease
  <2>1. /\ hand = "Selecting" /\ hand' = "Free" /\ UNCHANGED <<app, fs, run, job>>
        /\ \/ overwritten' = FALSE /\ ota' = [ota EXCEPT ![other(run)] = "New"]
           \/ UNCHANGED <<ota, overwritten>>
    BY <1>5 DEF SelectRelease
  <2>2. power = "Up" /\ release.stage = "FirmwareVerified" /\ job.step = "None"
    BY <2>1, ReleaseAlone DEF UpgradeInv, OneUpdate
  <2>3. fs[other(run)] = release.version
    BY <2>2 DEF UpgradeInv, ImagesWritten
  <2> QED BY <2>1, <2>2, <2>3
<1>6. CASE RebootCancelled
  <2>1. release.rebootPending /\ UNCHANGED <<app, fs, ota, run, job, overwritten>>
    BY <1>6 DEF RebootCancelled
  <2>2. fs[other(run)] = release.version
    BY <2>1 DEF UpgradeInv, ImagesWritten
  <2> QED BY <2>1, <2>2
<1>7. CASE Restore
  <2>1. /\ hand = "Restoring" /\ hand' = "Restored" /\ ota' = [ota EXCEPT ![run] = "New"]
        /\ UNCHANGED <<app, fs, run, job, overwritten>>
    BY <1>7 DEF Restore, Reselect
  <2>2. power = "Up"
    BY <2>1, ReleaseAlone
  <2> QED BY <2>1, <2>2
<1>8. CASE RestoreFails
  BY <1>8 DEF RestoreFails
<1> QED BY <1>1, <1>2, <1>3, <1>4, <1>5, <1>6, <1>7, <1>8 DEF LocalStep

LEMMA RemoteFallback ==
    ASSUME UpgradeInv, FallbackInv, RemoteStep
    PROVE  FallbackInv'
<1> USE SlotsLemma DEF FallbackInv, FallbackKept, SlotFilled, Unconfirmed, inactiveSlot, history, flash
<1>1. power = "Up" /\ hand = "Free" /\ UNCHANGED <<run, hand>>
  <2>1. job.step # "None" /\ UNCHANGED <<run, hand>>
    BY DEF RemoteStep, Queue, TakeJob, Clone, Flashed, FlashedInPlace, FinishReceipt, FailJob
  <2> QED BY <2>1, JobAlone
<1>2. CASE Queue \/ FinishReceipt \/ FailJob
  <2>1. UNCHANGED <<app, fs, ota, overwritten>> /\ job'.step # "Flashing"
    BY <1>2, NoneLemma DEF Queue, FinishReceipt, FailJob, UpgradeInv, UpgradeRanges, JobRecords
  <2> QED BY <1>1, <2>1
<1>3. CASE TakeJob
  <2>1. UNCHANGED <<app, ota>>
    BY <1>3 DEF TakeJob
  <2>2. job'.step # "Flashing"
    BY <1>3, StepLemma DEF TakeJob, UpgradeInv, UpgradeRanges
  <2>3. CASE job.target = "Spiffs"
    <3>1. fs' = [fs EXCEPT ![run] = "InPlace"]
      BY <1>3, <2>3 DEF TakeJob
    <3>2. ~overwritten' => ~overwritten
      BY <1>3 DEF TakeJob
    <3> QED BY <1>1, <2>1, <2>2, <3>1, <3>2
  <2>4. CASE job.target # "Spiffs"
    <3>1. fs' = [fs EXCEPT ![other(run)] = "Blank"]
      BY <1>3, <2>4 DEF TakeJob
    <3>2. ~overwritten' => ~overwritten /\ Confirmed
      BY <1>3, <2>4 DEF TakeJob
    <3> QED BY <1>1, <2>1, <2>2, <3>1, <3>2 DEF Confirmed
  <2> QED BY <2>3, <2>4
<1>4. CASE Clone
  <2>1. /\ app' = [app EXCEPT ![other(run)] = "Blank"] /\ fs' = [fs EXCEPT ![other(run)] = fs[run]]
        /\ UNCHANGED <<ota, overwritten>>
    BY <1>4 DEF Clone
  <2> QED BY <1>1, <2>1
<1>5. CASE Flashed
  <2>1. /\ job.step = "Flashing" /\ job'.step # "Flashing" /\ overwritten' = FALSE
        /\ ota' = [ota EXCEPT ![other(run)] = "New"] /\ fs' = fs
    BY <1>5 DEF Flashed, UpgradeInv, UpgradeRanges, JobRecords
  <2> QED BY <1>1, <2>1
<1>6. CASE FlashedInPlace
  <2>1. /\ fs' = [fs EXCEPT ![run] = job.version] /\ job'.step # "Flashing"
        /\ UNCHANGED <<app, ota, overwritten>>
    BY <1>6 DEF FlashedInPlace, UpgradeInv, UpgradeRanges, JobRecords
  <2> QED BY <1>1, <2>1
<1> QED BY <1>2, <1>3, <1>4, <1>5, <1>6 DEF RemoteStep

LEMMA BootFallback ==
    ASSUME UpgradeInv, FallbackInv, BootStep
    PROVE  FallbackInv'
<1> USE SlotsLemma DEF FallbackInv, FallbackKept, SlotFilled, Unconfirmed, inactiveSlot, history, flash
<1>1. power # "Up" /\ hand = "Free" /\ job.step = "None" /\ UNCHANGED <<app, fs, hand, job, overwritten>>
  <2>1. power # "Up" /\ UNCHANGED <<app, fs, hand, job, overwritten>>
    BY DEF BootStep, Boot, Mount, MountFails
  <2> QED BY <2>1 DEF UpgradeInv, OneUpdate
<1>2. CASE Boot
  <2>1. /\ run' = BootSlot
        /\ ota' = [s \in Partitions |-> IF s = BootSlot /\ ota[s] = "New" THEN "Pending"
                                       ELSE IF s = boot /\ ota[s] = "Pending" THEN "Invalid"
                                       ELSE ota[s]]
    BY <1>2 DEF Boot
  <2>2. \A s \in Partitions : ota'[s] \in Unconfirmed => ota[s] \in Unconfirmed
    BY <2>1
  <2>3. BootSlot \in {run, other(run)} /\ app[BootSlot] \notin Torn
    BY DEF BootSlot, Candidate, UpgradeInv, UpgradeRanges, RunsWhole, Partitions, other
  <2>4. SlotFilled'
    BY <1>1
  <2>5. CASE run' = run
    BY <1>1, <2>2, <2>4, <2>5
  <2>6. CASE run' = other(run)
    <3>1. run' \in Partitions /\ other(run') = run /\ app[other(run)] \notin Torn
      BY <2>1, <2>3, <2>6
    <3> QED BY <1>1, <2>2, <2>4, <2>6, <3>1
  <2> QED BY <2>1, <2>3, <2>5, <2>6
<1>3. CASE Mount \/ MountFails
  <2>1. run' = run /\ (ota' = ota \/ ota' = [ota EXCEPT ![run] = "Invalid"])
    BY <1>3 DEF Mount, MountFails, RollBack
  <2> QED BY <1>1, <2>1
<1> QED BY <1>2, <1>3 DEF BootStep

LEMMA FallbackStep ==
    ASSUME UpgradeInv, FallbackInv, [UpgradeNext]_upgradeVars
    PROVE  FallbackInv'
<1> USE DEF FallbackInv, FallbackKept, SlotFilled, inactiveSlot, history, flash
<1>1. CASE UNCHANGED upgradeVars \/ StayUp
  BY <1>1 DEF upgradeVars, StayUp
<1>2. ASSUME NEW version \in Newer, NEW image \in Newer, BeginRelease(version, image)
      PROVE  FallbackInv'
  BY <1>2 DEF BeginRelease
<1>3. ASSUME NEW target \in {"Waveshare", "Spiffs"}, NEW version \in Newer, StartUpdate(target, version)
      PROVE  FallbackInv'
  BY <1>3 DEF StartUpdate
<1>4. CASE RestartDevice \/ PowerCut
  <2>1. hand' = "Free" /\ job'.step = "None" /\ UNCHANGED <<app, fs, ota, run, overwritten>>
    BY <1>4, NoneLemma DEF RestartDevice, PowerCut, GoOff
  <2> QED BY <2>1
<1>5. CASE ConfirmApplication
  <2>1. /\ ota' = [ota EXCEPT ![run] = "Valid"] /\ power = "Up"
        /\ UNCHANGED <<app, fs, run, hand, job>>
    BY <1>5 DEF ConfirmApplication
  <2> QED BY <2>1, SlotsLemma DEF Unconfirmed
<1>6. CASE RejectApplication
  <2>1. /\ ota' = [ota EXCEPT ![run] = "Invalid"] /\ hand' = "Free" /\ job'.step = "None"
        /\ UNCHANGED <<app, fs, run, overwritten>>
    BY <1>6, NoneLemma DEF RejectApplication, RollBack, GoOff
  <2> QED BY <2>1, SlotsLemma DEF Unconfirmed
<1> HIDE DEF FallbackInv
<1> QED
  BY <1>1, <1>2, <1>3, <1>4, <1>5, <1>6, LocalFallback, RemoteFallback, BootFallback DEF UpgradeNext

(* Wherever power is cut or a step of an update fails something whole is   *)
(* left to boot, and it is what the receipt says; but not once an update   *)
(* writes over what an application that is not confirmed would go back to. *)
THEOREM UpgradeCorrect == UpgradeSpec => []UpgradeSound
<1>1. UpgradeSpec => [](UpgradeInv /\ FallbackInv)
  BY UpgradeInvInit, UpgradeStep, FallbackInvInit, FallbackStep, PTL DEF UpgradeSpec
<1>2. UpgradeInv /\ FallbackInv => UpgradeSound
  <2> SUFFICES ASSUME UpgradeInv, FallbackInv
               PROVE  UpgradeSound
    OBVIOUS
  <2> USE DEF UpgradeInv
  <2>1. UpgradeTypeOK
    BY DEF UpgradeTypeOK, UpgradeRanges, ReleaseRecords, JobRecords
  <2>2. CutIsSurvived
    <3> SUFFICES ASSUME power = "Up", Confirmed \/ ~overwritten
                 PROVE  BootsAfterCut
      BY DEF CutIsSurvived
    <3> USE DEF BootsAfterCut
    <3>1. Whole(run) /\ run \in Partitions /\ boot \in Partitions
      BY DEF Whole, RunsWhole, UpgradeRanges
    <3>2. CASE boot = run /\ ota[run] # "Pending"
      BY <3>1, <3>2 DEF BootSlot, Candidate, Whole
    <3>3. CASE boot # run
      <4>1. ota[boot] = "New" /\ other(boot) = run
        BY <3>3 DEF RunsWhole, UpgradeRanges, Partitions, other
      <4> QED BY <3>1, <4>1 DEF BootSlot, Candidate
    <3>4. CASE boot = run /\ ota[run] = "Pending"
      <4>1. Candidate = other(run) /\ other(Candidate) = run
        BY <3>1, <3>4, OtherLemma DEF Candidate
      <4>2. app[other(run)] \notin Torn => fs[other(run)] # "Blank"
        BY <3>4 DEF Confirmed, FallbackInv, FallbackKept, Unconfirmed
      <4> QED BY <3>1, <4>1, <4>2 DEF BootSlot, Whole
    <3> QED BY <3>2, <3>3, <3>4
  <2>3. CommittedIsWhole
    BY OtherLemma DEF CommittedIsWhole, ImagesWritten, inactiveSlot, UpgradeRanges
  <2>4. FailedIsNotBooted
    BY DEF FailedIsNotBooted, ReceiptKnows, UpgradeRanges
  <2> QED BY <2>1, <2>2, <2>3, <2>4 DEF UpgradeSound
<1> QED BY <1>1, <1>2, PTL
-----------------------------------------------------------------------------
(* The start-up (Startup) *)

(* The modules of an order.                                                *)
Placed(s) == {s[i] : i \in 1..Len(s)}

(* Each module once, after those that it depends on.                       *)
InOrder(s) ==
    /\ s \in Seq(Registered)
    /\ \A i, j \in 1..Len(s) : s[i] = s[j] => i = j
    /\ \A i \in 1..Len(s) : needs[s[i]] \subseteq {s[j] : j \in 1..(i - 1)}

(* Induction along an interval.                                            *)
LEMMA UpTo ==
    ASSUME NEW N \in Nat, NEW P, 0 \in P, \A n \in 1..N : n - 1 \in P => n \in P
    PROVE  0..N \subseteq P
<1> DEFINE T == {n \in 0..N : n \notin P}
<1> DEFINE R == OpToRel(<, Nat)
<1>1. SUFFICES ASSUME T # {} PROVE FALSE
  OBVIOUS
<1>2. T \subseteq Nat
  OBVIOUS
<1>3. IsWellFoundedOn(R, Nat)
  BY NatLessThanWellFounded
<1>4. PICK n \in T : \A k \in T : <<k, n>> \notin R
  <2> HIDE DEF T, R
  <2> QED BY <1>1, <1>2, <1>3, WFMin
<1>5. n # 0
  OBVIOUS
<1>6. n - 1 \in Nat /\ n \in 1..N
  BY <1>5
<1>7. <<n - 1, n>> \in R
  BY <1>6 DEF OpToRel
<1>8. n - 1 \notin T
  BY <1>4, <1>7
<1> QED
  BY <1>6, <1>8

(* A function defined by what it is at zero and by each step exists.       *)
Follows(g, k, base, step) ==
    g = [n \in 0..k |-> IF n = 0 THEN base ELSE step[n][g[n - 1]]]

LEMMA Stepwise ==
    ASSUME NEW S, NEW base \in S, NEW N \in Nat, NEW step \in [1..N -> [S -> S]]
    PROVE  \E g \in [0..N -> S] : Follows(g, N, base, step)
<1> DEFINE P == {k \in 0..N : \E g \in [0..k -> S] : Follows(g, k, base, step)}
<1>1. 0 \in P
  <2>1. [n \in 0..0 |-> base] \in [0..0 -> S]
    OBVIOUS
  <2>2. Follows([n \in 0..0 |-> base], 0, base, step)
    BY DEF Follows
  <2> QED
    BY <2>1, <2>2
<1>2. ASSUME NEW k \in 1..N, k - 1 \in P
      PROVE  k \in P
  <2>1. PICK g \in [0..(k - 1) -> S] : Follows(g, k - 1, base, step)
    BY <1>2
  <2> DEFINE h == [n \in 0..k |-> IF n = k THEN step[k][g[k - 1]] ELSE g[n]]
  <2>2. h \in [0..k -> S]
    OBVIOUS
  <2>3. \A n \in 0..k : h[n] = IF n = 0 THEN base ELSE step[n][h[n - 1]]
    <3> SUFFICES ASSUME NEW n \in 0..k
                 PROVE h[n] = IF n = 0 THEN base ELSE step[n][h[n - 1]]
      OBVIOUS
    <3>1. CASE n = k
      BY <3>1
    <3>2. CASE n # k
      <4>1. n \in 0..(k - 1) /\ h[n] = g[n]
        BY <3>2
      <4>2. g[n] = IF n = 0 THEN base ELSE step[n][g[n - 1]]
        BY <2>1, <4>1 DEF Follows
      <4>3. n # 0 => h[n - 1] = g[n - 1]
        BY <3>2
      <4> QED
        BY <4>1, <4>2, <4>3
    <3> QED
      BY <3>1, <3>2
  <2>4. Follows(h, k, base, step)
    <3> HIDE DEF h
    <3> QED BY <2>2, <2>3 DEF Follows
  <2> HIDE DEF h
  <2> QED
    BY <2>2, <2>4
<1>3. 0..N \subseteq P
  <2> HIDE DEF P
  <2>1. \A k \in 1..N : k - 1 \in P => k \in P
    BY <1>2
  <2> QED
    BY <1>1, <2>1, UpTo
<1> QED
  BY <1>3

LEMMA PlaceKeeps ==
    ASSUME StartupAssumption,
           needs \in [Registered -> SUBSET (Registered \cup {Unregistered})],
           NEW s, InOrder(s), NEW m \in Registered
    PROVE  /\ InOrder(Place(s, m))
           /\ Placed(s) \subseteq Placed(Place(s, m))
           /\ needs[m] \subseteq Placed(s) => m \in Placed(Place(s, m))
<1>1. s \in Seq(Registered) /\ ToSet(s) = Placed(s)
  <2>1. s \in Seq(Registered) /\ DOMAIN s = 1..Len(s)
    BY DEF InOrder
  <2> QED
    BY <2>1 DEF Placed, ToSet
<1>2. CASE m \notin ToSet(s) /\ needs[m] \subseteq ToSet(s)
  <2> DEFINE t == Append(s, m)
  <2>1. /\ t = Place(s, m) /\ t \in Seq(Registered) /\ Len(t) = Len(s) + 1
        /\ t[Len(t)] = m /\ \A i \in 1..Len(s) : t[i] = s[i]
    BY <1>1, <1>2 DEF Place
  <2>2. Len(s) \in Nat
    BY <1>1
  <2> HIDE DEF t
  <2>3. Placed(s) \subseteq Placed(t) /\ m \in Placed(t)
    <3>1. Len(t) \in 1..Len(t) /\ \A i \in 1..Len(s) : i \in 1..Len(t)
      BY <2>1, <2>2
    <3>2. m \in Placed(t)
      BY <2>1, <3>1 DEF Placed
    <3>3. Placed(s) \subseteq Placed(t)
      BY <2>1, <3>1 DEF Placed
    <3> QED
      BY <3>2, <3>3
  <2>4. \A i, j \in 1..Len(t) : t[i] = t[j] => i = j
    <3> SUFFICES ASSUME NEW i \in 1..Len(t), NEW j \in 1..Len(t), t[i] = t[j]
                 PROVE i = j
      OBVIOUS
    <3>1. \A k \in 1..Len(s) : s[k] # m
      BY <1>1, <1>2 DEF Placed
    <3>2. \A k \in 1..Len(t) : k = Len(t) \/ k \in 1..Len(s)
      BY <2>1, <2>2
    <3> QED
      BY <2>1, <3>1, <3>2 DEF InOrder
  <2>5. \A i \in 1..Len(t) : needs[t[i]] \subseteq {t[j] : j \in 1..(i - 1)}
    <3> SUFFICES ASSUME NEW i \in 1..Len(t), NEW d \in needs[t[i]]
                 PROVE \E j \in 1..(i - 1) : d = t[j]
      OBVIOUS
    <3>1. CASE i = Len(t)
      <4>1. d \in Placed(s)
        BY <1>1, <1>2, <2>1, <3>1
      <4>2. PICK j \in 1..Len(s) : d = s[j]
        BY <4>1 DEF Placed
      <4> QED
        BY <2>1, <2>2, <3>1, <4>2
    <3>2. CASE i # Len(t)
      <4>1. i \in 1..Len(s) /\ t[i] = s[i]
        BY <2>1, <2>2, <3>2
      <4>2. PICK j \in 1..(i - 1) : d = s[j]
        BY <4>1 DEF InOrder
      <4>3. j \in 1..Len(s)
        BY <2>2, <4>1, <4>2
      <4> QED
        BY <2>1, <4>2, <4>3
    <3> QED
      BY <3>1, <3>2
  <2>6. InOrder(t)
    BY <2>1, <2>4, <2>5 DEF InOrder
  <2> QED
    BY <2>1, <2>3, <2>6
<1>3. CASE ~(m \notin ToSet(s) /\ needs[m] \subseteq ToSet(s))
  BY <1>1, <1>3 DEF Place
<1> QED
  BY <1>2, <1>3

LEMMA PassKeeps ==
    ASSUME StartupAssumption,
           needs \in [Registered -> SUBSET (Registered \cup {Unregistered})],
           NEW s, InOrder(s)
    PROVE  /\ InOrder(Pass(s))
           /\ Placed(s) \subseteq Placed(Pass(s))
           /\ \A m \in Registered : needs[m] \subseteq Placed(s) => m \in Placed(Pass(s))
<1> DEFINE Orders == {o \in Seq(Registered) : InOrder(o)}
<1> DEFINE step == [m \in 1..Count |-> [o \in Orders |-> Place(o, m)]]
<1> DEFINE Rec(g) == [m \in 0..Count |-> IF m = 0 THEN s ELSE Place(g[m - 1], m)]
<1> DEFINE upTo == CHOOSE g : g = Rec(g)
<1>0. Count \in Nat /\ Registered = 1..Count
  BY DEF StartupAssumption, Registered
<1>1. Pass(s) = upTo[Count]
  BY DEF Pass
<1>2. upTo = Rec(upTo)
  <2>1. s \in Orders
    BY DEF InOrder
  <2>2. step \in [1..Count -> [Orders -> Orders]]
    <3> SUFFICES ASSUME NEW m \in 1..Count, NEW o \in Orders PROVE Place(o, m) \in Orders
      OBVIOUS
    <3>1. InOrder(Place(o, m))
      BY <1>0, PlaceKeeps
    <3> QED
      BY <3>1 DEF InOrder
  <2>3. PICK g \in [0..Count -> Orders] : Follows(g, Count, s, step)
    <3> HIDE DEF Orders, step
    <3> QED BY <1>0, <2>1, <2>2, Stepwise
  <2>4. g = Rec(g)
    <3>1. \A m \in 0..Count : m # 0 => step[m][g[m - 1]] = Place(g[m - 1], m)
      BY <1>0
    <3> HIDE DEF Orders, step
    <3> QED BY <2>3, <3>1 DEF Follows
  <2> HIDE DEF Rec
  <2> QED
    BY <2>4
<1>3. upTo[0] = s /\ \A m \in 1..Count : upTo[m] = Place(upTo[m - 1], m)
  <2> HIDE DEF upTo
  <2> QED BY <1>0, <1>2
<1> HIDE DEF upTo, step, Rec, Orders
<1> DEFINE Kept(m) ==
       /\ InOrder(upTo[m])
       /\ Placed(s) \subseteq Placed(upTo[m])
       /\ \A k \in 1..m : needs[k] \subseteq Placed(s) => k \in Placed(upTo[m])
<1> DEFINE P == {m \in 0..Count : Kept(m)}
<1>4. 0 \in P
  BY <1>0, <1>3
<1>5. ASSUME NEW m \in 1..Count, m - 1 \in P
      PROVE  m \in P
  <2>1. Kept(m - 1) /\ upTo[m] = Place(upTo[m - 1], m)
    BY <1>3, <1>5
  <2>2. /\ InOrder(upTo[m])
        /\ Placed(upTo[m - 1]) \subseteq Placed(upTo[m])
        /\ needs[m] \subseteq Placed(upTo[m - 1]) => m \in Placed(upTo[m])
    BY <1>0, <2>1, PlaceKeeps
  <2>3. \A k \in 1..m : needs[k] \subseteq Placed(s) => k \in Placed(upTo[m])
    BY <1>0, <2>1, <2>2
  <2> QED
    BY <2>1, <2>2, <2>3
<1>6. Kept(Count)
  <2>1. 0..Count \subseteq P
    <3> HIDE DEF P
    <3>1. \A m \in 1..Count : m - 1 \in P => m \in P
      BY <1>5
    <3> QED
      BY <1>0, <1>4, <3>1, UpTo
  <2> QED
    BY <1>0, <2>1
<1> QED
  BY <1>0, <1>1, <1>6

(* An order has as many modules as its length; all of them when it has     *)
(* Count of them.                                                          *)
LEMMA OrderSize ==
    ASSUME StartupAssumption, NEW s, InOrder(s)
    PROVE  /\ Placed(s) \subseteq Registered /\ IsFiniteSet(Placed(s))
           /\ Len(s) \in 0..Count /\ Cardinality(Placed(s)) = Len(s)
           /\ Len(s) = Count <=> Placed(s) = Registered
<1>1. Count \in Nat /\ s \in Seq(Registered) /\ Len(s) \in Nat
  BY DEF StartupAssumption, InOrder
<1>2. /\ IsFiniteSet(Registered) /\ Cardinality(Registered) = Count
  BY <1>1, FS_Interval DEF Registered
<1>3. Placed(s) \subseteq Registered
  BY <1>1 DEF Placed
<1>4. IsFiniteSet(1..Len(s)) /\ Cardinality(1..Len(s)) = Len(s)
  <2>1. /\ IsFiniteSet(1..Len(s))
        /\ Cardinality(1..Len(s)) = IF 1 > Len(s) THEN 0 ELSE Len(s) - 1 + 1
    BY <1>1, FS_Interval
  <2> QED
    BY <1>1, <2>1
<1>5. s \in Bijection(1..Len(s), Placed(s))
  <2>1. s \in [1..Len(s) -> Placed(s)]
    BY <1>1 DEF Placed
  <2>2. \A i, j \in 1..Len(s) : s[i] = s[j] => i = j
    BY DEF InOrder
  <2>3. \A t \in Placed(s) : \E i \in 1..Len(s) : s[i] = t
    BY DEF Placed
  <2> QED
    BY <2>1, <2>2, <2>3, Fun_IsBij
<1>6. Cardinality(Placed(s)) = Len(s)
  BY <1>4, <1>5, FS_Bijection DEF ExistsBijection
<1>7. /\ IsFiniteSet(Placed(s)) /\ Cardinality(Placed(s)) <= Count
      /\ Cardinality(Registered) = Cardinality(Placed(s)) => Placed(s) = Registered
  BY <1>2, <1>3, FS_Subset
<1> QED
  BY <1>1, <1>2, <1>3, <1>6, <1>7

LEMMA PassesKeep ==
    ASSUME StartupAssumption,
           needs \in [Registered -> SUBSET (Registered \cup {Unregistered})]
    PROVE  /\ passes[0] = <<>> /\ \A n \in 1..Count : passes[n] = Pass(passes[n - 1])
           /\ \A n \in 0..Count : InOrder(passes[n])
<1> DEFINE Orders == {o \in Seq(Registered) : InOrder(o)}
<1> DEFINE step == [n \in 1..Count |-> [o \in Orders |-> Pass(o)]]
<1> DEFINE Rec(g) == [n \in 0..Count |-> IF n = 0 THEN <<>> ELSE Pass(g[n - 1])]
<1>0. Count \in Nat
  BY DEF StartupAssumption
<1>1. passes = CHOOSE g : g = Rec(g)
  BY DEF passes
<1>2. <<>> \in Orders
  BY DEF InOrder
<1>3. passes = Rec(passes)
  <2>1. step \in [1..Count -> [Orders -> Orders]]
    <3> SUFFICES ASSUME NEW o \in Orders PROVE Pass(o) \in Orders
      OBVIOUS
    <3>1. InOrder(Pass(o))
      BY PassKeeps
    <3> QED
      BY <3>1 DEF InOrder
  <2>2. PICK g \in [0..Count -> Orders] : Follows(g, Count, <<>>, step)
    <3> HIDE DEF Orders, step
    <3> QED BY <1>0, <1>2, <2>1, Stepwise
  <2>3. g = Rec(g)
    <3>1. \A n \in 0..Count : n # 0 => step[n][g[n - 1]] = Pass(g[n - 1])
      BY <1>0
    <3> HIDE DEF Orders, step
    <3> QED BY <2>2, <3>1 DEF Follows
  <2> HIDE DEF Rec
  <2> QED
    BY <1>1, <2>3
<1>4. passes[0] = <<>> /\ \A n \in 1..Count : passes[n] = Pass(passes[n - 1])
  BY <1>0, <1>3
<1> HIDE DEF step, Rec
<1> DEFINE P == {n \in 0..Count : InOrder(passes[n])}
<1>5. 0 \in P /\ \A n \in 1..Count : n - 1 \in P => n \in P
  BY <1>0, <1>2, <1>4, PassKeeps
<1>6. 0..Count \subseteq P
  <2> HIDE DEF P
  <2> QED BY <1>0, <1>5, UpTo
<1> QED
  BY <1>4, <1>6

(* Modules that can be ordered are: each pass places one more.             *)
LEMMA OrderableOrdered ==
    ASSUME StartupAssumption,
           needs \in [Registered -> SUBSET (Registered \cup {Unregistered})],
           Orderable
    PROVE  Len(buildInitOrder) = Count
<1> DEFINE P == {n \in 0..Count : Len(passes[n]) >= n}
<1>0. Count \in Nat
  BY DEF StartupAssumption
<1>1. 0 \in P
  BY <1>0, PassesKeep
<1>2. ASSUME NEW n \in 1..Count, n - 1 \in P
      PROVE  n \in P
  <2> DEFINE old == passes[n - 1]
  <2> DEFINE new == passes[n]
  <2>1. InOrder(old) /\ InOrder(new) /\ new = Pass(old)
    BY <1>0, PassesKeep
  <2>2. /\ Placed(old) \subseteq Placed(new)
        /\ \A m \in Registered : needs[m] \subseteq Placed(old) => m \in Placed(new)
    BY <2>1, PassKeeps
  <2>3. /\ Placed(old) \subseteq Registered /\ Placed(new) \subseteq Registered
        /\ IsFiniteSet(Placed(new))
        /\ Len(old) \in Nat /\ Len(new) \in Nat
        /\ Cardinality(Placed(old)) = Len(old) /\ Cardinality(Placed(new)) = Len(new)
        /\ Len(old) = Count <=> Placed(old) = Registered
        /\ Len(new) = Count <=> Placed(new) = Registered
    BY <2>1, OrderSize
  <2>4. CASE Placed(old) = Registered
    <3>1. Len(new) = Count
      BY <2>2, <2>3, <2>4
    <3> HIDE DEF old
    <3> QED
      BY <1>0, <3>1
  <2>5. CASE Placed(old) # Registered
    <3>1. PICK m \in Registered \ Placed(old) : needs[m] \cap (Registered \ Placed(old)) = {}
      BY <2>3, <2>5 DEF Orderable
    <3>2. needs[m] \subseteq Placed(old)
      BY <3>1 DEF Orderable
    <3>3. Placed(old) # Placed(new)
      BY <2>2, <3>1, <3>2
    <3>4. Len(old) <= Len(new) /\ Len(old) # Len(new)
      <4> HIDE DEF old, new
      <4> QED BY <2>2, <2>3, <3>3, FS_Subset
    <3> QED
      BY <1>2, <2>3, <3>4
  <2> QED
    BY <2>4, <2>5
<1>3. Len(passes[Count]) >= Count
  <2>1. 0..Count \subseteq P
    <3> HIDE DEF P
    <3>1. \A n \in 1..Count : n - 1 \in P => n \in P
      BY <1>2
    <3> QED
      BY <1>0, <1>1, <3>1, UpTo
  <2> QED
    BY <1>0, <2>1
<1>4. Len(passes[Count]) \in 0..Count
  <2>1. InOrder(passes[Count])
    BY <1>0, PassesKeep
  <2> QED
    BY <2>1, OrderSize
<1> QED
  BY <1>0, <1>3, <1>4 DEF buildInitOrder

(* Of any modules, the one placed first needs none of the others.          *)
LEMMA OrderedOrderable ==
    ASSUME StartupAssumption,
           needs \in [Registered -> SUBSET (Registered \cup {Unregistered})],
           NEW s, InOrder(s), Len(s) = Count
    PROVE  Orderable
<1>1. Placed(s) = Registered /\ s \in Seq(Registered) /\ Len(s) \in Nat
  BY OrderSize DEF InOrder
<1>2. ASSUME NEW m \in Registered
      PROVE  Unregistered \notin needs[m]
  <2>1. PICK i \in 1..Len(s) : s[i] = m
    BY <1>1 DEF Placed
  <2>2. needs[m] \subseteq Placed(s)
    BY <1>1, <2>1 DEF InOrder, Placed
  <2> QED
    BY <1>1, <2>2 DEF Unregistered, Registered, StartupAssumption
<1>3. ASSUME NEW ms \in (SUBSET Registered) \ {{}}
      PROVE  \E m \in ms : needs[m] \cap ms = {}
  <2> DEFINE T == {i \in 1..Len(s) : s[i] \in ms}
  <2> DEFINE R == OpToRel(<, Nat)
  <2>1. T \subseteq Nat /\ T # {}
    <3>1. PICK m \in ms : m \in Placed(s)
      BY <1>1
    <3>2. PICK i \in 1..Len(s) : s[i] = m
      BY <3>1 DEF Placed
    <3> QED
      BY <3>2
  <2>2. PICK i \in T : \A j \in T : <<j, i>> \notin R
    <3>1. IsWellFoundedOn(R, Nat)
      BY NatLessThanWellFounded
    <3> HIDE DEF T, R
    <3> QED
      BY <2>1, <3>1, WFMin
  <2>3. \A j \in 1..(i - 1) : s[j] \notin ms
    <3> SUFFICES ASSUME NEW j \in 1..(i - 1), s[j] \in ms PROVE FALSE
      OBVIOUS
    <3>1. j \in T
      BY <1>1
    <3>2. <<j, i>> \in R
      BY <1>1 DEF OpToRel
    <3> QED
      BY <2>2, <3>1, <3>2
  <2> QED
    BY <2>3 DEF InOrder
<1> QED
  BY <1>2, <1>3 DEF Orderable

(* What initAll gets is in order, and complete exactly when it can be.     *)
LEMMA InitOrder ==
    ASSUME StartupAssumption,
           needs \in [Registered -> SUBSET (Registered \cup {Unregistered})]
    PROVE  InOrder(buildInitOrder) /\ (Len(buildInitOrder) = Count <=> Orderable)
<1>1. InOrder(buildInitOrder)
  BY PassesKeep DEF buildInitOrder, StartupAssumption
<1> QED
  BY <1>1, OrderableOrdered, OrderedOrderable

Sequencing == phase \in {"Setup", "Active"}

(* The dependencies and the order, which do not change.                    *)
OrderInv ==
    /\ needs \in [Registered -> SUBSET (Registered \cup {Unregistered})]
    /\ ordered \in UNION {[1..n -> Registered] : n \in 0..Count}
    /\ InOrder(ordered) /\ OrderSound

SequencerTypes ==
    /\ phase \in {"Setup", "Active", "Complete", "Failed", "Halted"}
    /\ due \subseteq Registered /\ elapsed \subseteq Registered /\ started \subseteq Registered
    /\ at \in 0..(Count + 1) /\ delayed \in BOOLEAN
    /\ reachable \in BOOLEAN /\ confirmed \in BOOLEAN
    /\ released \in [Registered -> 0..1] /\ tasks \in [Registered -> Nat]

(* What is told to start has started, with all its tasks, or has ended the *)
(* start-up; what it needs had started before.                             *)
Releases ==
    /\ \A m \in started : released[m] = 1 /\ tasks[m] = TaskCount[m]
    /\ \A m \in Registered \ started :
          /\ tasks[m] <= TaskCount[m]
          /\ released[m] = 0 \/ phase \in {"Failed", "Halted"}
    /\ \A m \in Registered : released[m] > 0 => needs[m] \subseteq started

(* A pass that has postponed no module leaves none behind.                 *)
Passes ==
    /\ phase \in {"Setup", "Active", "Complete"} => OrderExists
    /\ ~Sequencing => at = 0
    /\ at > 0 /\ ~delayed => \A i \in 1..Count : i < at => ordered[i] \in started
    /\ phase = "Complete" => started = Registered
    /\ confirmed => phase = "Complete"

StartupInv == OrderInv /\ SequencerTypes /\ Releases /\ Passes

LEMMA StartupInvInit == StartupInit => StartupInv
<1> SUFFICES ASSUME StartupInit PROVE StartupInv
  OBVIOUS
<1>1. InOrder(ordered) /\ (Len(ordered) = Count <=> Orderable)
  BY StartupAssumption, InitOrder DEF StartupInit
<1>2. Len(ordered) \in 0..Count /\ ordered \in Seq(Registered)
  BY <1>1, StartupAssumption, OrderSize DEF InOrder
<1>3. ordered \in [1..Len(ordered) -> Registered]
  BY <1>2
<1>4. OrderInv
  BY <1>1, <1>2, <1>3 DEF StartupInit, OrderInv, OrderSound, OrderExists
<1>5. Count \in Nat /\ TaskCount \in [Registered -> Nat]
  BY StartupAssumption
<1>6. SequencerTypes
  <2>1. delayed \in BOOLEAN /\ reachable \in BOOLEAN /\ confirmed \in BOOLEAN
    BY DEF StartupInit
  <2> QED
    BY <1>5, <2>1 DEF StartupInit, SequencerTypes
<1>7. Releases
  BY <1>5 DEF StartupInit, Releases
<1>8. Passes
  BY <1>5 DEF StartupInit, Passes, Sequencing
<1> QED
  BY <1>4, <1>6, <1>7, <1>8 DEF StartupInv

LEMMA OrderStays ==
    ASSUME OrderInv, UNCHANGED <<needs, ordered>>
    PROVE  OrderInv' /\ OrderExists' = OrderExists
<1>1. InOrder(ordered)'
  BY DEF OrderInv, InOrder
<1>2. Orderable' = Orderable
  BY DEF Orderable
<1> QED
  BY <1>1, <1>2 DEF OrderInv, OrderSound, OrderExists

(* The module of a pass is a registered one, and a pass goes by them all.  *)
LEMMA HereRegistered ==
    ASSUME StartupInv, Passed
    PROVE  Here \in Registered /\ at \in 1..Count
<1>1. Len(ordered) = Count /\ ordered \in Seq(Registered) /\ Count \in Nat
  BY StartupAssumption DEF StartupInv, OrderInv, Passes, Passed, OrderExists, InOrder
<1>2. at \in 1..Count
  BY <1>1 DEF StartupInv, SequencerTypes, Passed
<1> QED
  BY <1>1, <1>2 DEF Here

LEMMA AllPassed ==
    ASSUME StartupInv, OrderExists, NEW m \in Registered
    PROVE  \E i \in 1..Count : ordered[i] = m
<1>1. Placed(ordered) = Registered /\ Len(ordered) = Count
  BY StartupAssumption, OrderSize DEF StartupInv, OrderInv, OrderExists
<1> QED
  BY <1>1 DEF Placed

LEMMA StartupStep == StartupInv /\ [StartupNext]_startupVars => StartupInv'
<1> SUFFICES ASSUME StartupInv, [StartupNext]_startupVars PROVE StartupInv'
  OBVIOUS
<1>1. UNCHANGED <<needs, ordered>> /\ Count \in Nat /\ TaskCount \in [Registered -> Nat]
  BY StartupAssumption
  DEF StartupNext, startupVars, sequencerVars, Sequencer, BeginPass, SkipStarted, Postpone,
      startModule, FailAtTask, EndPass, Confirm, Elapse, Network, LoopOn
<1>2. OrderInv' /\ OrderExists' = OrderExists
  BY <1>1, OrderStays DEF StartupInv
<1>3. SequencerTypes /\ Releases /\ Passes
  BY DEF StartupInv
<1> SUFFICES SequencerTypes' /\ Releases' /\ Passes'
  BY <1>2 DEF StartupInv
<1>4. CASE BeginPass
  <2>1. delayed' = FALSE /\ delayed' \in BOOLEAN
    BY <1>4 DEF BeginPass
  <2>2. SequencerTypes'
    BY <1>1, <1>3, <1>4, <2>1 DEF BeginPass, SequencerTypes
  <2>3. Releases'
    BY <1>1, <1>3, <1>4 DEF BeginPass, Releases
  <2>4. Passes'
    BY <1>1, <1>2, <1>3, <1>4 DEF BeginPass, Passes, Sequencing
  <2> QED
    BY <2>2, <2>3, <2>4
<1>5. CASE SkipStarted
  <2>1. Here \in Registered /\ at \in 1..Count
    BY <1>5, HereRegistered DEF SkipStarted
  <2>2. SequencerTypes' /\ Releases'
    BY <1>1, <1>3, <1>5, <2>1 DEF SkipStarted, SequencerTypes, Releases
  <2>3. Passes'
    BY <1>1, <1>2, <1>3, <1>5, <2>1 DEF SkipStarted, Passed, Here, Passes, Sequencing
  <2> QED
    BY <2>2, <2>3
<1>6. CASE Postpone
  <2>1. Here \in Registered /\ at \in 1..Count
    BY <1>6, HereRegistered DEF Postpone
  <2>2. SequencerTypes' /\ Releases'
    BY <1>1, <1>3, <1>6, <2>1 DEF Postpone, NotYet, SequencerTypes, Releases
  <2>3. Passes'
    BY <1>1, <1>2, <1>3, <1>6, <2>1 DEF Postpone, NotYet, Passed, Passes, Sequencing
  <2> QED
    BY <2>2, <2>3
<1>7. CASE startModule
  <2>1. Here \in Registered /\ at \in 1..Count /\ Sequencing /\ Here \notin started
    BY <1>7, HereRegistered DEF startModule, Ready, Passed, Sequencing
  <2>2. released[Here] = 0 /\ needs[Here] \subseteq started
    BY <1>3, <1>7, <2>1 DEF startModule, Ready, dependenciesStarted, Releases, Sequencing
  <2>3. SequencerTypes' /\ Releases'
    BY <1>1, <1>3, <1>7, <2>1, <2>2 DEF startModule, SequencerTypes, Releases
  <2>4. Passes'
    BY <1>1, <1>2, <1>3, <1>7, <2>1 DEF startModule, Here, Passes, Sequencing
  <2> QED
    BY <2>3, <2>4
<1>8. CASE FailAtTask
  <2>1. Here \in Registered /\ at \in 1..Count /\ Sequencing /\ Here \notin started
    BY <1>8, HereRegistered DEF FailAtTask, Ready, Passed, Sequencing
  <2>2. released[Here] = 0 /\ needs[Here] \subseteq started
    BY <1>3, <1>8, <2>1 DEF FailAtTask, Ready, dependenciesStarted, Releases, Sequencing
  <2>3. phase' \in {"Failed", "Halted"}
    BY <1>8 DEF FailAtTask, AfterFailure
  <2>4. PICK n \in 0..(TaskCount[Here] - 1) : tasks' = [tasks EXCEPT ![Here] = n]
    BY <1>8 DEF FailAtTask
  <2>5. SequencerTypes' /\ Releases'
    BY <1>1, <1>3, <1>8, <2>1, <2>2, <2>3, <2>4 DEF FailAtTask, SequencerTypes, Releases
  <2>6. Passes'
    BY <1>1, <1>2, <1>3, <1>8, <2>1, <2>3 DEF FailAtTask, Passes, Sequencing
  <2> QED
    BY <2>5, <2>6
<1>9. CASE EndPass
  <2>1. Sequencing /\ OrderExists
    BY <1>1, <1>3, <1>9 DEF EndPass, Passes, Sequencing
  <2>2. ~delayed => started = Registered
    <3> SUFFICES ASSUME ~delayed, NEW m \in Registered PROVE m \in started
      BY <1>3 DEF SequencerTypes
    <3>1. PICK i \in 1..Count : ordered[i] = m
      BY <2>1, AllPassed
    <3>2. i < at /\ at > 0
      BY <1>1, <1>3, <1>9, <3>1 DEF EndPass, SequencerTypes
    <3> QED
      BY <1>3, <3>1, <3>2 DEF Passes
  <2>3. SequencerTypes' /\ Releases'
    BY <1>1, <1>3, <1>9, <2>1 DEF EndPass, AfterPass, SequencerTypes, Releases, Sequencing
  <2>4. Passes'
    BY <1>1, <1>2, <1>3, <1>9, <2>1, <2>2
    DEF EndPass, AfterPass, SequencerTypes, Passes, Sequencing
  <2> QED
    BY <2>3, <2>4
<1>10. CASE Confirm
  BY <1>1, <1>2, <1>3, <1>10
  DEF Confirm, sequencerVars, SequencerTypes, Releases, Passes, Sequencing
<1>11. CASE \E m \in Registered : Elapse(m)
  BY <1>1, <1>2, <1>3, <1>11
  DEF Elapse, sequencerVars, SequencerTypes, Releases, Passes, Sequencing
<1>12. CASE Network
  BY <1>1, <1>2, <1>3, <1>12
  DEF Network, sequencerVars, SequencerTypes, Releases, Passes, Sequencing
<1>13. CASE UNCHANGED startupVars
  BY <1>1, <1>2, <1>3, <1>13 DEF startupVars, SequencerTypes, Releases, Passes, Sequencing
<1> QED
  BY <1>4, <1>5, <1>6, <1>7, <1>8, <1>9, <1>10, <1>11, <1>12, <1>13
  DEF StartupNext, Sequencer, LoopOn

LEMMA StartupInvSuffices == StartupInv => StartupSound
<1> SUFFICES ASSUME StartupInv PROVE StartupSound
  OBVIOUS
<1>1. Count \in Nat /\ TaskCount \in [Registered -> Nat]
  BY StartupAssumption
<1>2. OrderInv /\ SequencerTypes /\ Releases /\ Passes
  BY DEF StartupInv
<1>3. \A m \in Registered : tasks[m] \in 0..TaskCount[m]
  BY <1>1, <1>2 DEF SequencerTypes, Releases
<1>4. StartupTypeOK
  BY <1>2, <1>3 DEF StartupTypeOK, OrderInv, SequencerTypes
<1>5. DependenciesRun
  BY <1>2 DEF DependenciesRun, Releases
<1>6. ConfirmedWhenAll
  BY <1>2 DEF ConfirmedWhenAll, Releases, Passes
<1> QED
  BY <1>2, <1>4, <1>5, <1>6 DEF StartupSound, OrderInv

(* Modules are ordered whenever they can be, none is told to start before  *)
(* all that it needs runs, and none twice, and an application is confirmed *)
(* only when every module runs, for any number of modules and any graph of *)
(* dependencies (StartupSound).                                            *)
THEOREM StartupCorrect == StartupSpec => []StartupSound
<1>1. StartupInit => StartupInv
  BY StartupInvInit
<1>2. StartupInv /\ [StartupNext]_startupVars => StartupInv'
  BY StartupStep
<1>3. StartupInv => StartupSound
  BY StartupInvSuffices
<1> QED
  BY <1>1, <1>2, <1>3, PTL DEF StartupSpec
=============================================================================
