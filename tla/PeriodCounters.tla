---------------------------- MODULE PeriodCounters ----------------------------
(***************************************************************************)
(* PoolDeviceModule: how long a pool device has run, in all and in each    *)
(* period.  The counts are kept in RAM, handed to the store now and then   *)
(* and read back after a restart; a count goes back to zero when its       *)
(* period begins, told by the scheduler or by the clock, which is unknown  *)
(* until it is synchronised.  The count of the day stops the device.       *)
(*                                                                         *)
(* One device; the volumes are counted alike and left out.  A device that  *)
(* has never known the date is left out.                                   *)
(*                                                                         *)
(* The operators that no action uses (KeptByTheClock, SetBackAlways,       *)
(* OnceClean, SinceBoot) are mistakes easily made here, kept beside the    *)
(* definition they would replace: each breaks a property below.            *)
(***************************************************************************)
EXTENDS Integers, Sequences

CONSTANTS
    Periods,        \* day, week, month
    PeriodLength,   \* in ticks of tickDevices_
    Day,            \* the period whose count is limited
    MaxUptimeDay,   \* its limit; a device without one is left out
    PersistInterval, \* RUNTIME_PERSIST_INTERVAL_MS
    MaxTime, MaxRestarts, MaxFailures  \* bounds

ASSUME PeriodAssumption ==
    /\ PeriodLength \in [Periods -> Nat \ {0}] /\ Day \in Periods /\ "Total" \notin Periods
    /\ MaxUptimeDay \in Nat \ {0}
    /\ {PersistInterval, MaxTime, MaxRestarts, MaxFailures} \subseteq Nat

VARIABLES
    now,       \* the clock
    lastTick,  \* lastTickMs
    synced,    \* timeReady
    actualOn,
    count,     \* running time: total, and of each period
    key,       \* the period that each count is of
    resetPending,     \* resetPendingMask_
    reconcilePending, \* periodReconcilePending_
    dirty, immediate, \* persistDirty, persistImmediate
    lastPersist,      \* lastPersistMs, counted back from now
    handed,    \* what the store has yet to write
    saved,     \* what it has written
    ran,       \* history: how long the device ran, in all and in each period
    undated,   \* history: of what it ran in the present period, what was counted as of another
    begun,     \* history: the periods whose start was posted
    restarts, failures

periodVars == <<now, lastTick, synced, actualOn, count, key, resetPending, reconcilePending,
                dirty, immediate, lastPersist, handed, saved, ran, undated, begun, restarts,
                failures>>
memory == <<count, key, resetPending, reconcilePending, dirty, immediate, lastPersist>>

Total == "Total"
Counters == Periods \cup {Total}

Current(p) == now \div PeriodLength[p]
NoTime == [c \in Counters |-> 0]
-----------------------------------------------------------------------------
(* Time passes, in the steps of tickDevices_; the store writes sooner.      *)
TimePasses ==
    /\ now = lastTick /\ handed = <<>> /\ now < MaxTime /\ now' = now + 1
    /\ ran' = [c \in Counters |->
                 IF c # Total /\ (now + 1) \div PeriodLength[c] # Current(c) THEN 0
                 ELSE IF actualOn THEN ran[c] + 1 ELSE ran[c]]
    /\ undated' = [p \in Periods |->
                     IF (now + 1) \div PeriodLength[p] # Current(p) THEN 0
                     ELSE IF actualOn /\ key[p] # Current(p) THEN undated[p] + 1 ELSE undated[p]]
    /\ lastPersist' = IF lastPersist > PersistInterval THEN lastPersist ELSE lastPersist + 1
    /\ begun' = {p \in begun : (now + 1) \div PeriodLength[p] = Current(p)}
    /\ UNCHANGED <<lastTick, synced, actualOn, count, key, resetPending, reconcilePending, dirty,
                   immediate, handed, saved, restarts, failures>>

(* The clock becomes known: DataChanged asks for a reconciliation.  So     *)
(* does a change of the configuration of the time.                         *)
requestPeriodReconcile ==
    /\ ~reconcilePending /\ synced' = TRUE /\ reconcilePending' = TRUE
    /\ UNCHANGED <<now, lastTick, actualOn, count, key, resetPending, dirty, immediate,
                   lastPersist, handed, saved, ran, undated, begun, restarts, failures>>

(* The scheduler posts the start of a period, in its first tick; a full    *)
(* bus drops the event.                                                    *)
PeriodStarts(p) ==
    /\ synced /\ now % PeriodLength[p] = 0 /\ p \notin begun
    /\ begun' = begun \cup {p}
    /\ \/ resetPending' = resetPending \cup {p} /\ UNCHANGED failures
       \/ failures < MaxFailures /\ failures' = failures + 1 /\ UNCHANGED resetPending
    /\ UNCHANGED <<now, lastTick, synced, actualOn, count, key, reconcilePending, dirty, immediate,
                   lastPersist, handed, saved, ran, undated, restarts>>
-----------------------------------------------------------------------------
(* tickDevices_: resets, reconciliation, then the device.                  *)
KeptByTheClock == resetPending

SetBackAlways == resetPending \cup (IF reconcilePending /\ synced THEN Periods ELSE {})

Outdated ==
    resetPending \cup (IF reconcilePending /\ synced THEN {p \in Periods : key[p] # Current(p)}
                       ELSE {})

AfterResets == [c \in Counters |-> IF c \in Outdated THEN 0 ELSE count[c]]

Known == IF ~synced THEN {} ELSE IF reconcilePending THEN Periods ELSE resetPending

SinceBoot == IF actualOn THEN now ELSE 0

delta == IF actualOn THEN now - lastTick ELSE 0

AfterTick == [c \in Counters |-> AfterResets[c] + delta]

maxUptimeReached == AfterResets[Day] >= MaxUptimeDay

Stops(runs) == actualOn /\ ~runs

OnceClean == dirty \/ Outdated # {}

IsDirty == dirty \/ Outdated # {} \/ actualOn

ShouldPersist(runs) ==
    /\ IsDirty
    /\ immediate \/ Outdated # {} \/ Stops(runs) \/ ~runs \/ lastPersist >= PersistInterval

Image == [count |-> count', key |-> key']

(* The queue of the store, which others use, may be full.                  *)
StillDirty(runs, full) == IsDirty /\ (full \/ ~ShouldPersist(runs))

persistMetrics(full) ==
    IF full THEN UNCHANGED <<handed, lastPersist>>
    ELSE handed' = Append(handed, Image) /\ lastPersist' = 0

tickDevices(desired, full) ==
    /\ lastTick < now /\ (full => failures < MaxFailures)
    /\ failures' = IF full THEN failures + 1 ELSE failures
    /\ \E runs \in {desired /\ ~maxUptimeReached} :
         /\ actualOn' = runs
         /\ dirty' = StillDirty(runs, full)
         /\ immediate' = ((immediate \/ Outdated # {} \/ Stops(runs)) /\ StillDirty(runs, full))
         /\ count' = AfterTick
         /\ key' = [p \in Periods |-> IF p \in Known THEN Current(p) ELSE key[p]]
         /\ IF ShouldPersist(runs) THEN persistMetrics(full) ELSE UNCHANGED <<handed, lastPersist>>
    /\ lastTick' = now
    /\ resetPending' = {} /\ reconcilePending' = (reconcilePending /\ ~synced)
    /\ UNCHANGED <<now, synced, saved, ran, undated, begun, restarts>>

(* The store, later; a write that fails is lost.                           *)
WriteBack ==
    /\ handed # <<>> /\ handed' = Tail(handed)
    /\ \/ saved' = Head(handed) /\ UNCHANGED failures
       \/ failures < MaxFailures /\ failures' = failures + 1 /\ UNCHANGED saved
    /\ UNCHANGED <<now, lastTick, synced, actualOn, ran, undated, begun, restarts, memory>>

Reboot ==
    /\ restarts < MaxRestarts /\ restarts' = restarts + 1
    /\ lastTick' = now /\ synced' = FALSE /\ actualOn' = FALSE
    /\ count' = saved.count /\ key' = saved.key
    /\ resetPending' = {} /\ reconcilePending' = FALSE /\ dirty' = FALSE /\ immediate' = FALSE
    /\ lastPersist' = 0 /\ handed' = <<>> /\ begun' = {}
    /\ UNCHANGED <<now, saved, ran, undated, failures>>

(* The instances end at MaxTime.                                           *)
TimeIsUp == now = MaxTime /\ lastTick = now /\ handed = <<>> /\ UNCHANGED periodVars
-----------------------------------------------------------------------------
PeriodInit ==
    /\ now = 0 /\ lastTick = 0 /\ synced = TRUE /\ actualOn = FALSE
    /\ count = NoTime /\ key = [p \in Periods |-> 0]
    /\ resetPending = {} /\ reconcilePending = FALSE /\ dirty = FALSE /\ immediate = FALSE
    /\ lastPersist = 0 /\ handed = <<>> /\ saved = [count |-> NoTime, key |-> key]
    /\ ran = NoTime /\ undated = [p \in Periods |-> 0] /\ begun = Periods
    /\ restarts = 0 /\ failures = 0

PeriodNext ==
    \/ TimePasses \/ requestPeriodReconcile \/ WriteBack \/ Reboot \/ TimeIsUp
    \/ \E p \in Periods : PeriodStarts(p)
    \/ \E desired, full \in BOOLEAN : tickDevices(desired, full)

PeriodSpec == PeriodInit /\ [][PeriodNext]_periodVars
-----------------------------------------------------------------------------
(* No count exceeds the time there was to run; the rest keeps its type.    *)
PeriodTypeOK ==
    /\ now \in 0..MaxTime /\ lastTick \in 0..now /\ count \in [Counters -> 0..MaxTime]
    /\ key \in [Periods -> 0..MaxTime] /\ resetPending \subseteq Periods
    /\ {synced, actualOn, reconcilePending, dirty, immediate} \subseteq BOOLEAN
    /\ lastPersist \in 0..(PersistInterval + 1) /\ Len(handed) \in Nat
    /\ saved \in [count : [Counters -> 0..MaxTime], key : [Periods -> 0..MaxTime]]

(* What a restart, or a write that fails, may cost: what ran in one        *)
(* interval and a tick.                                                    *)
Allowed == (restarts + failures) * (PersistInterval + 1)

(* The total never runs ahead of the device, and falls behind it only by   *)
(* what restarts and failed writes cost.                                   *)
LossIsBounded ==
    count[Total] <= ran[Total] /\ ran[Total] - count[Total] <= Allowed + (now - lastTick)

(* A count that is said to be of the present period has nothing of an      *)
(* earlier one in it but the tick in which it began, however late the      *)
(* clock is known.  Beside what restarts and failures cost, it lacks at    *)
(* most what ran before the device knew that the period had begun, which   *)
(* is taken for time of an earlier one and set back with it.               *)
CountsThePeriod ==
    \A p \in Periods :
        /\ key[p] = Current(p) /\ now = lastTick => count[p] <= ran[p] + 1
        /\ ran[p] - count[p] <= Allowed + undated[p] + (now - lastTick)

(* The device runs on beyond the limit of the day by no more than that     *)
(* loss and the tick that finds the limit reached.                         *)
DayIsLimited == actualOn => ran[Day] <= MaxUptimeDay + 1 + Allowed + undated[Day]

(* The counters: what ran is counted, in its own period, and limits the    *)
(* day, but for the loss stated.                                           *)
CountersSound == PeriodTypeOK /\ LossIsBounded /\ CountsThePeriod /\ DayIsLimited
=============================================================================
