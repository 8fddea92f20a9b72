------------------------------ MODULE BusClock ------------------------------
(***************************************************************************)
(* The clock arithmetic of Rs485TransactionScheduler: availableAtMs_ and   *)
(* sentAtMs are unsigned millisecond counters that wrap, compared through  *)
(* the sign of their difference.  ModbusScheduler has relative times in    *)
(* their place; due is that relative time.                                 *)
(*                                                                         *)
(* NeverWrapped and UnsignedAfter are mistakes easily made here, kept      *)
(* beside the definitions they would replace.                              *)
(***************************************************************************)
EXTENDS WrappedCounter

CONSTANTS
    Quiet, Guard, Interval, Timeout,  \* the line profile
    LineLimit, \* bound: how long a transaction stays on the line
    RestLimit  \* bound: how long the line is left unused when it may be used

ASSUME ProfileAssumption ==
    /\ {Quiet, Guard, Interval, Timeout, LineLimit, RestLimit} \subseteq Nat
    /\ LineLimit >= Timeout
    /\ 2 * (2 * (Quiet + Guard) + Interval + LineLimit + RestLimit) < Range

VARIABLES
    now,        \* millis()
    available,  \* availableAtMs_
    sentAt,     \* sentAtMs of the request last on the line
    retrying,   \* is that request queued for another attempt
    onLine,     \* activeIndex_ >= 0
    for,        \* history: how long the line has been in use, or left unused
    due,        \* history: time left before the line may be used again
    adrift      \* history: a request never sent failed late, and none was sent since

clockVars == <<now, available, sentAt, retrying, onLine, for, due, adrift>>

UnsignedAfter(a, b) == a > b

(* int32_t(a - b) > 0.                                                     *)
After(a, b) == Wrapped(a - b) \in 1..(Range \div 2 - 1)

Larger(a, b) == IF a >= b THEN a ELSE b
Less(a, b) == IF a >= b THEN a - b ELSE 0

NeverWrapped(sent, at, guarded) ==
    Larger(at + Quiet + (IF guarded THEN Guard ELSE 0), sent + Interval)

busAvailableAt(sent, at, guarded) ==
    LET quietUntil == Wrapped(at + Quiet + (IF guarded THEN Guard ELSE 0))
        nextStart == Wrapped(sent + Interval)
    IN  IF After(nextStart, quietUntil) THEN nextStart ELSE quietUntil

MayStart == NotBefore(now, available)

Due(since, guarded) ==
    Larger(Quiet + (IF guarded THEN Guard ELSE 0), Less(Interval, since))

(* The first half of the counter, but for what is compared at its ends.    *)
FirstHalf == Interval..(Range \div 2 - Quiet - Guard)
-----------------------------------------------------------------------------
(* The firmware has run for any while, and the line has just been freed.   *)
ClockInit ==
    /\ now \in Counter
    /\ available = now
    /\ sentAt = 0
    /\ retrying = FALSE
    /\ onLine = FALSE
    /\ for = 0
    /\ due = 0
    /\ adrift = FALSE

Send ==
    /\ ~onLine /\ MayStart
    /\ sentAt' = now
    /\ retrying' = FALSE
    /\ onLine' = TRUE
    /\ adrift' = FALSE
    /\ for' = 0
    /\ UNCHANGED <<now, available, due>>

(* sendActive_ fails before it sets sentAtMs: a request queued again has   *)
(* that of its last attempt, one never sent still has 0.                   *)
SendFails(again) ==
    /\ ~onLine /\ MayStart
    /\ again => retrying
    /\ available' = busAvailableAt(IF again THEN sentAt ELSE 0, now, TRUE)
    /\ due' = Due(IF again THEN Wrapped(now - sentAt) ELSE Interval, TRUE)
    /\ adrift' = (~again /\ now \notin FirstHalf)
    /\ retrying' = FALSE
    /\ for' = 0
    /\ UNCHANGED <<now, sentAt, onLine>>

(* finish_, or retryOrFinish_ that queues the request again.               *)
Done(guarded, again) ==
    /\ onLine
    /\ guarded \/ for <= Timeout
    /\ again => guarded
    /\ available' = busAvailableAt(sentAt, now, guarded)
    /\ due' = Due(for, guarded)
    /\ retrying' = again
    /\ onLine' = FALSE
    /\ for' = 0
    /\ UNCHANGED <<now, sentAt, adrift>>

Elapse ==
    /\ IF onLine \/ MayStart
       THEN /\ for < IF onLine THEN LineLimit ELSE RestLimit
            /\ for' = for + 1
       ELSE for' = for
    /\ now' = Wrapped(now + 1)
    /\ due' = Less(due, 1)
    /\ UNCHANGED <<available, sentAt, retrying, onLine, adrift>>

ClockNext ==
    \/ Send
    \/ \E again \in BOOLEAN : SendFails(again)
    \/ \E guarded, again \in BOOLEAN : Done(guarded, again)
    \/ Elapse

ClockSpec == ClockInit /\ [][ClockNext]_clockVars
-----------------------------------------------------------------------------
(* The counters stay in their range, the marks are marks.                  *)
ClockTypeOK ==
    /\ {now, available, sentAt} \subseteq Counter
    /\ {retrying, onLine, adrift} \subseteq BOOLEAN
    /\ for \in Nat /\ due \in Nat

(* Whatever millis() reads, through its wrap, the line is released at the  *)
(* moment relative time releases it, neither before the silence, the guard *)
(* and the interval nor after them; but after a request that could not be  *)
(* sent at all outside the first half of the counter.                      *)
ReleasedOnTime == ~onLine /\ ~adrift => (MayStart <=> due = 0)

(* The counters keep their ranges, and time.                               *)
ClockSound == ClockTypeOK /\ ReleasedOnTime

(* A line that rests is kept for no longer than any request may owe, so    *)
(* that a device in failure does not take it for the others                *)
(* (docs/modules/ModbusMaster.md:33).                                      *)
FreedInTime ==
    ~onLine /\ ~MayStart => ~After(available, Wrapped(now + Quiet + Guard + Interval))
=============================================================================
