-------------------------- MODULE PulsePersistence --------------------------
(***************************************************************************)
(* The count of a pulse input and its copy in NVS.  The IO task samples    *)
(* the count, checkpoints it once in a while and serves the request of a   *)
(* caller (save it, or reset it) that waits for two seconds at most; the   *)
(* task of the configuration store writes what the IO task hands it, with  *)
(* a receipt.  A restart loses all but NVS.                                *)
(*                                                                         *)
(* One input stands for all, which share the blob, the receipt and the     *)
(* request.  What elapses (the period, the two seconds) may do so at any   *)
(* time.  The rate and the published values are left out.                  *)
(*                                                                         *)
(* The operators that no action uses (MayAlwaysAsk, StillInRam...) are     *)
(* mistakes easily made here, kept beside the definition they would        *)
(* replace: each breaks a property below.                                  *)
(***************************************************************************)
EXTENDS Integers

CONSTANTS
    MaxPulses,  \* bound: pulses, over all restarts
    MaxAsked,   \* bound: requests and changes of the reset token
    MaxMishaps, \* bound: failures and restarts
    NoBlob      \* nothing to write

ASSUME PulseAssumption == MaxPulses \in Nat /\ MaxAsked \in Nat /\ MaxMishaps \in Nat

Counts == [count : 0..MaxPulses, generation : 0..MaxAsked, token : 0..1]

ASSUME NoBlobAssumption == NoBlob \notin Counts

VARIABLES
    unread,    \* pulses the hardware has counted since it was read
    pulse,     \* the count in RAM: count, generation, token seen
    token,     \* the reset token of the configuration
    persisted, \* pulsePersisted_
    onItsWay,  \* pulsePending_
    receipt,   \* pulseReceipt_
    retry,     \* pulseRetry_
    blob,      \* what the configuration store is to write
    nvs,       \* what it wrote last
    request,   \* the pulseRequest… fields
    waiting,   \* a caller holds pulseRequestCaller_ and waits
    io,        \* where the IO task is in its loop
    owed,      \* history: what NVS must have when the request succeeds
    promised,  \* history: what NVS must have since a request succeeded
    givenUp,   \* history: the caller left before the IO task took the request
    used       \* bounds: the pulses, requests and mishaps so far

pulseVars == <<unread, pulse, token, persisted, onItsWay, receipt, retry, blob, nvs,
               request, waiting, io, owed, promised, givenUp, used>>

Receipt == {"Idle", "Pending", "Succeeded", "Failed"}
Places == {"Loop", "Take", "Submit", "SeeReceipt"}
Result == {"Ok", "Error"}

(* a is at least as recent as b.                                           *)
Covers(a, b) ==
    \/ a.generation > b.generation
    \/ a.generation = b.generation /\ a.count >= b.count

ResetCount(p) == [p EXCEPT !.count = 0, !.generation = @ + 1]

(* Count p with n more pulses; a new token resets it before.               *)
Sampled(p, n) ==
    IF p.token # token THEN [ResetCount(p) EXCEPT !.token = token]
    ELSE [p EXCEPT !.count = @ + n]

Uses(what) ==
    LET bound == [pulses |-> MaxPulses, asked |-> MaxAsked, mishaps |-> MaxMishaps]
    IN  used[what] < bound[what] /\ used' = [used EXCEPT ![what] = @ + 1]
-----------------------------------------------------------------------------
(* checkpointPulses_ on count p.                                           *)
RetryNow == receipt = "Failed" \/ (retry /\ receipt # "Succeeded")

Harvested == IF receipt = "Succeeded" THEN onItsWay ELSE persisted

StillInRam(p) == Harvested.count # p.count

Dirty(p) == Harvested # p

StillPending == "Pending"

AfterRefusal == "Idle"

Hands(p) ==
    \/ /\ retry' = FALSE /\ receipt' = "Pending"
       /\ blob' = p
       /\ UNCHANGED used
    \/ /\ Uses("mishaps")
       /\ retry' = TRUE /\ receipt' = AfterRefusal
       /\ UNCHANGED blob

checkpointPulses(p, force) ==
    IF receipt = "Pending" THEN UNCHANGED <<persisted, onItsWay, receipt, retry, blob, used>>
    ELSE /\ persisted' = Harvested
         /\ \/ /\ ~force
               /\ receipt' = "Idle" /\ retry' = RetryNow
               /\ UNCHANGED <<onItsWay, blob, used>>
            \/ /\ onItsWay' = p
               /\ IF Dirty(p) THEN Hands(p)
                  ELSE receipt' = "Idle" /\ retry' = RetryNow /\ UNCHANGED <<blob, used>>
-----------------------------------------------------------------------------
(* requestPulseSave_: one caller at a time, and none while the storage of  *)
(* an earlier one is in use.                                               *)
MayAlwaysAsk == ~waiting

MayAsk == ~waiting /\ request.state \in {"Idle", "Complete"}

Ask(reset) ==
    /\ MayAsk /\ Uses("asked")
    /\ request' = [request EXCEPT !.state = "Requested", !.reset = reset, !.old = FALSE]
    /\ waiting' = TRUE /\ givenUp' = FALSE
    /\ owed' = IF reset THEN ResetCount(pulse) ELSE pulse
    /\ UNCHANGED <<unread, pulse, token, persisted, onItsWay, receipt, retry, blob, nvs, io,
                   promised>>

Answer ==
    /\ waiting /\ request.state = "Complete"
    /\ waiting' = FALSE
    /\ promised' = IF request.result = "Ok" /\ Covers(owed, promised) THEN owed ELSE promised
    /\ UNCHANGED <<unread, pulse, token, persisted, onItsWay, receipt, retry, blob, nvs,
                   request, io, owed, givenUp, used>>

TwoSeconds ==
    /\ request.state \in {"Requested", "Saving"} /\ ~request.old
    /\ request' = [request EXCEPT !.old = TRUE]
    /\ UNCHANGED <<unread, pulse, token, persisted, onItsWay, receipt, retry, blob, nvs,
                   waiting, io, owed, promised, givenUp, used>>

GiveUp ==
    /\ waiting /\ request.state # "Complete" /\ request.old
    /\ waiting' = FALSE
    /\ givenUp' = (request.state = "Requested" /\ io = "Loop")
    /\ UNCHANGED <<unread, pulse, token, persisted, onItsWay, receipt, retry, blob, nvs,
                   request, io, owed, promised, used>>
-----------------------------------------------------------------------------
(* The IO task: the samples, then servicePulseRequest_ or a checkpoint.    *)
finish(result) ==
    /\ request' = [request EXCEPT !.state = "Complete", !.result = result]
    /\ io' = "Loop"

NeverExpires == FALSE

Expired == request.old

Loop ==
    /\ io = "Loop"
    /\ pulse' = Sampled(pulse, unread) /\ unread' = 0
    /\ CASE request.state = "Requested" /\ Expired ->
              finish("Error") /\ UNCHANGED <<persisted, onItsWay, receipt, retry, blob, used>>
         [] request.state = "Requested" /\ ~Expired ->
              /\ checkpointPulses(pulse', FALSE)
              /\ io' = IF receipt = "Pending" THEN "Loop" ELSE "Take"
              /\ UNCHANGED request
         [] request.state = "Saving" ->
              /\ io' = "SeeReceipt"
              /\ UNCHANGED <<request, persisted, onItsWay, receipt, retry, blob, used>>
         [] OTHER ->
              checkpointPulses(pulse', FALSE) /\ UNCHANGED <<io, request>>
    /\ UNCHANGED <<token, nvs, waiting, owed, promised, givenUp>>

(* The drained request is taken: the count is reset, or read once more.    *)
Wait == receipt = "Pending" /\ io' = "Loop" /\ UNCHANGED <<pulse, unread, request, used>>

Refuse == receipt # "Pending" /\ Uses("mishaps") /\ finish("Error") /\ UNCHANGED <<pulse, unread>>

Accept ==
    /\ receipt # "Pending"
    /\ pulse' = IF request.reset THEN Sampled(ResetCount(pulse), 0)
                ELSE Sampled(pulse, unread)
    /\ unread' = 0
    /\ request' = [request EXCEPT !.state = "Saving"]
    /\ io' = "Submit"
    /\ UNCHANGED used

Take ==
    /\ io = "Take"
    /\ Wait \/ Refuse \/ Accept
    /\ UNCHANGED <<token, persisted, onItsWay, receipt, retry, blob, nvs, waiting, owed,
                   promised, givenUp>>

Submit ==
    /\ io = "Submit"
    /\ checkpointPulses(pulse, TRUE)
    /\ IF retry' THEN finish("Error") ELSE io' = "SeeReceipt" /\ UNCHANGED request
    /\ UNCHANGED <<unread, pulse, token, nvs, waiting, owed, promised, givenUp>>

SeeReceipt ==
    /\ io = "SeeReceipt"
    /\ IF receipt # "Pending" THEN finish(IF receipt = "Failed" THEN "Error" ELSE "Ok")
       ELSE io' = "Loop" /\ UNCHANGED request
    /\ UNCHANGED <<unread, pulse, token, persisted, onItsWay, receipt, retry, blob, nvs,
                   waiting, owed, promised, givenUp, used>>
-----------------------------------------------------------------------------
(* The task of the configuration store.                                    *)
Write ==
    /\ blob # NoBlob
    /\ \/ nvs' = blob /\ receipt' = "Succeeded" /\ UNCHANGED used
       \/ Uses("mishaps") /\ receipt' = "Failed" /\ UNCHANGED nvs
    /\ blob' = NoBlob
    /\ UNCHANGED <<unread, pulse, token, persisted, onItsWay, retry, request, waiting, io,
                   owed, promised, givenUp>>

(* The environment.                                                        *)
Pulse ==
    /\ Uses("pulses")
    /\ unread' = unread + 1
    /\ UNCHANGED <<pulse, token, persisted, onItsWay, receipt, retry, blob, nvs, request,
                   waiting, io, owed, promised, givenUp>>

ChangeToken ==
    /\ Uses("asked")
    /\ token' = 1 - token
    /\ UNCHANGED <<unread, pulse, persisted, onItsWay, receipt, retry, blob, nvs, request,
                   waiting, io, owed, promised, givenUp>>

(* loadPulseCheckpoint_ and the restored slot.                             *)
Restored ==
    IF nvs.token # token THEN [ResetCount(nvs) EXCEPT !.token = token] ELSE nvs

Restart ==
    /\ Uses("mishaps")
    /\ pulse' = Restored
    /\ unread' = 0
    /\ persisted' = nvs /\ onItsWay' = nvs
    /\ receipt' = "Idle" /\ retry' = FALSE /\ blob' = NoBlob
    /\ request' = [state |-> "Idle", reset |-> FALSE, old |-> FALSE, result |-> "Ok"]
    /\ waiting' = FALSE /\ io' = "Loop" /\ givenUp' = FALSE
    /\ UNCHANGED <<token, nvs, owed, promised>>
-----------------------------------------------------------------------------
Zero == [count |-> 0, generation |-> 0, token |-> 0]

PulseInit ==
    /\ unread = 0 /\ token = 0
    /\ pulse = Zero /\ persisted = Zero /\ onItsWay = Zero /\ nvs = Zero
    /\ receipt = "Idle" /\ retry = FALSE /\ blob = NoBlob
    /\ request = [state |-> "Idle", reset |-> FALSE, old |-> FALSE, result |-> "Ok"]
    /\ waiting = FALSE /\ io = "Loop"
    /\ owed = Zero /\ promised = Zero /\ givenUp = FALSE
    /\ used = [pulses |-> 0, asked |-> 0, mishaps |-> 0]

IoTask == Loop \/ Take \/ Submit \/ SeeReceipt

PulseNext ==
    \/ \E reset \in BOOLEAN : Ask(reset)
    \/ Answer \/ TwoSeconds \/ GiveUp
    \/ IoTask \/ Write
    \/ Pulse \/ ChangeToken \/ Restart

(* Both tasks go on, and the period ends again and again: a loop that may  *)
(* hand over a checkpoint does so in the end.                              *)
PulseFairness ==
    /\ WF_pulseVars(IoTask)
    /\ WF_pulseVars(Write)
    /\ WF_pulseVars(Loop /\ receipt' = "Pending")

PulseSpec == PulseInit /\ [][PulseNext]_pulseVars /\ PulseFairness
-----------------------------------------------------------------------------
(* The request, the counter, the blob and its receipt keep their types.    *)
PulseTypeOK ==
    /\ unread \in 0..MaxPulses /\ token \in 0..1
    /\ {pulse, persisted, onItsWay, nvs, owed, promised} \subseteq Counts
    /\ receipt \in Receipt /\ retry \in BOOLEAN
    /\ blob \in Counts \cup {NoBlob}
    /\ receipt = "Pending" <=> blob # NoBlob
    /\ request \in [state : {"Idle", "Requested", "Saving", "Complete"}, reset : BOOLEAN,
                    old : BOOLEAN, result : Result]
    /\ waiting \in BOOLEAN /\ io \in Places /\ givenUp \in BOOLEAN

(* A caller that is told that its save or its reset succeeded may restart  *)
(* the controller: NVS has at least what was counted when it asked, and    *)
(* never again what was before its reset.                                  *)
SavedForGood == Covers(nvs, promised)

(* A reset that the IO task has not taken when its caller gives up is not  *)
(* executed late (docs/modules/IOModule.md:336).                           *)
NotExecutedLate == [][Take /\ request'.state = "Saving" => ~givenUp]_pulseVars

(* What a caller of a save or a reset may rely on: what succeeded is on    *)
(* NVS for good, what was given up is not done later.                      *)
RequestsHonoured == [](PulseTypeOK /\ SavedForGood) /\ NotExecutedLate

(* Whatever failed, NVS catches up with the count once pulses, requests    *)
(* and mishaps end.                                                        *)
CatchesUp == <>[](nvs = pulse /\ unread = 0)
=============================================================================
