---------------------------- MODULE CountingProofs ----------------------------
(***************************************************************************)
(* What is counted while it flows, runs or passes, over interruptions,     *)
(* failures and restarts: the doses of oxygen, the running time of a       *)
(* device, and the slots of the schedule.                                  *)
(***************************************************************************)
EXTENDS OxygenDosing, PeriodCounters, TimeScheduler, TLAPS

-----------------------------------------------------------------------------
(* Products, quotients and remainders.                                     *)
-----------------------------------------------------------------------------
LEMMA ProductGrows ==
    ASSUME NEW f \in Int, NEW n \in Int PROVE f * n \in Int /\ f * (n + 1) = f * n + f
OBVIOUS

LEMMA ProductSign ==
    ASSUME NEW f \in Nat \ {0}, NEW n \in Int
    PROVE  (n <= 0 => f * n <= 0) /\ (n >= 0 => f * n >= 0)
OBVIOUS

LEMMA ProductOrder ==
    ASSUME NEW f \in Nat \ {0}, NEW m \in Int, NEW n \in Int, f * m < f * n PROVE m < n
<1> SUFFICES ASSUME m >= n PROVE FALSE
  OBVIOUS
<1>1. m - n \in Int /\ m - n >= 0
  OBVIOUS
<1>2. f * (m - n) >= 0
  BY <1>1, ProductSign
<1>3. f * (m - n) = f * m - f * n
  OBVIOUS
<1> QED
  BY <1>2, <1>3

LEMMA QuotientBelow ==
    ASSUME NEW r \in Nat \ {0}, NEW a \in Nat PROVE a < ((a \div r) + 1) * r
OBVIOUS

LEMMA QuotientIsNat == ASSUME NEW r \in Nat \ {0}, NEW a \in Nat PROVE a \div r \in Nat
OBVIOUS

LEMMA RemainderInRange ==
    ASSUME NEW r \in Nat \ {0}, NEW a \in Int PROVE a % r \in 0..(r - 1)
OBVIOUS

LEMMA Division ==
    ASSUME NEW r \in Nat \ {0}, NEW a \in Int PROVE a = r * (a \div r) + (a % r)
OBVIOUS

LEMMA DivisionIsUnique ==
    ASSUME NEW r \in Nat \ {0}, NEW a \in Nat, NEW q \in Nat, NEW m \in 0..(r - 1), a = q * r + m
    PROVE  a \div r = q
OBVIOUS

(* A quotient grows by one when the remainder comes round.                 *)
LEMMA QuotientGrows ==
    ASSUME NEW r \in Nat \ {0}, NEW a \in Nat
    PROVE  (a + 1) \div r = IF (a + 1) % r = 0 THEN (a \div r) + 1 ELSE a \div r
<1> DEFINE q == a \div r
           m == a % r
           p == (a + 1) \div r
           k == (a + 1) % r
<1>n. a \in Int /\ a + 1 \in Nat /\ a + 1 \in Int
  OBVIOUS
<1>1. q \in Nat /\ m \in 0..(r - 1) /\ p \in Nat /\ k \in 0..(r - 1)
  <2>1. q \in Nat /\ m \in 0..(r - 1)
    BY <1>n, QuotientIsNat, RemainderInRange
  <2>2. p \in Nat /\ k \in 0..(r - 1)
    BY <1>n, QuotientIsNat, RemainderInRange
  <2> QED
    BY <2>1, <2>2
<1>2. a = r * q + m
  BY Division
<1>3. a + 1 = r * p + k
  BY Division
<1> HIDE DEF q, m, p, k
<1>4. CASE k = 0
  <2>1. r * (p - 1) = r * p - r
    BY <1>1
  <2>2. a = r * (p - 1) + (r - 1)
    BY <1>3, <1>4, <2>1, <1>1
  <2>3. p # 0
    <3>1. r * 0 = 0
      OBVIOUS
    <3> QED
      BY <1>3, <1>4, <3>1
  <2>4. p - 1 \in Nat /\ r - 1 \in 0..(r - 1) /\ (p - 1) * r = r * (p - 1)
    BY <2>3, <1>1
  <2>5. a = (p - 1) * r + (r - 1)
    BY <2>2, <2>4
  <2>6. q = p - 1
    BY <2>4, <2>5, DivisionIsUnique DEF q
  <2> QED
    BY <2>6, <1>1, <1>4 DEF q, p, k
<1>5. CASE k # 0
  <2>1. k - 1 \in 0..(r - 1) /\ a = p * r + (k - 1)
    BY <1>1, <1>3, <1>5
  <2>2. q = p
    BY <2>1, <1>1, DivisionIsUnique DEF q
  <2> QED
    BY <2>2, <1>5 DEF q, p, k
<1> QED
  BY <1>4, <1>5

LEMMA RemainderIsUnique ==
    ASSUME NEW r \in Nat \ {0}, NEW a \in Nat, NEW q \in Nat, NEW m \in 0..(r - 1), a = r * q + m
    PROVE  a % r = m
<1>1. q * r = r * q
  OBVIOUS
<1>2. a \div r = q
  BY <1>1, DivisionIsUnique
<1>3. a \in Int
  OBVIOUS
<1>4. a = r * (a \div r) + (a % r)
  BY <1>3, Division
<1>5. a = r * q + (a % r) /\ r * q \in Int
  BY <1>2, <1>4
<1>6. a % r \in 0..(r - 1)
  BY <1>3, RemainderInRange
<1> QED
  BY <1>5, <1>6

(* A remainder does not see what is added in multiples.                    *)
LEMMA RemainderOfSum ==
    ASSUME NEW r \in Nat \ {0}, NEW a \in Nat, NEW k \in Nat
    PROVE  (a + r * k) % r = a % r
<1> DEFINE q == a \div r
           m == a % r
<1>0. a \in Int
  OBVIOUS
<1>a. q \in Nat
  BY QuotientIsNat
<1>b. m \in 0..(r - 1)
  BY <1>0, RemainderInRange
<1>c. a = r * q + m
  BY <1>0, Division
<1> HIDE DEF q, m
<1>1. q \in Nat /\ m \in 0..(r - 1) /\ a = r * q + m
  BY <1>a, <1>b, <1>c
<1>2. r * (q + k) = r * q + r * k /\ r * k \in Nat /\ q + k \in Nat
  BY <1>1
<1>3. a + r * k = r * (q + k) + m /\ a + r * k \in Nat
  BY <1>1, <1>2
<1>4. (a + r * k) % r = m
  BY <1>1, <1>2, <1>3, RemainderIsUnique
<1> QED
  BY <1>4 DEF m

(* The day after, and the day before.                                      *)
LEMMA DaysAround ==
    ASSUME NEW w \in Nat \ {0}, NEW q \in Nat
    PROVE  /\ (q + w) % w = q % w
           /\ q + (w - 1) \in Nat /\ ((q % w) + w - 1) % w = (q + (w - 1)) % w
<1> DEFINE m == q % w
           k == q \div w
<1>0. q \in Int
  OBVIOUS
<1>a. k \in Nat
  BY QuotientIsNat
<1>b. m \in 0..(w - 1)
  BY <1>0, RemainderInRange
<1>c. q = w * k + m
  BY <1>0, Division
<1>1. m \in 0..(w - 1) /\ k \in Nat /\ q = w * k + m
  BY <1>a, <1>b, <1>c
<1>2. (q + w * 1) % w = q % w
  BY RemainderOfSum
<1>3. w * 1 = w
  OBVIOUS
<1> HIDE DEF m, k
<1>4. m + w - 1 \in Nat /\ q + (w - 1) \in Nat /\ w * k \in Nat
  BY <1>1
<1>5. q + (w - 1) = (m + w - 1) + w * k
  BY <1>1, <1>4
<1>6. ((m + w - 1) + w * k) % w = (m + w - 1) % w
  BY <1>1, <1>4, RemainderOfSum
<1> QED
  BY <1>2, <1>3, <1>4, <1>5, <1>6 DEF m

-----------------------------------------------------------------------------
(* Active oxygen.                                                          *)
-----------------------------------------------------------------------------
OxygenFlags ==
    /\ stepped \in BOOLEAN /\ moved \in BOOLEAN /\ pumpOn \in BOOLEAN
    /\ asked \in BOOLEAN /\ wanted \in BOOLEAN
    /\ obstacle \in Obstacles
    /\ protocol \in {"Idle", "Pending", "Starting", "Dosing", "Blocked"}

OxygenRanges ==
    /\ tick \in 0..MaxTicks /\ o2LastProgress \in {Never} \cup 0..tick
    /\ filtration \in 0..(o2MinFilterRunMin + 1)
    /\ o2Pending \in Nat /\ o2WeeklyDone \in Nat /\ o2LastDoseDay \in Nat
    /\ planned \in Nat /\ poured \in Nat /\ starts \in Nat /\ doses \in Nat
    /\ waited \in Nat /\ resets \in Nat

(* No cursor ever reaches the store.                                       *)
NothingStored ==
    stored = [pending |-> 0, weeklyDone |-> 0, lastDoseDay |-> 0, protocol |-> "Idle"]

(* A pump that is wanted pours a dose, and one that runs has been wanted   *)
(* and started; what is counted is counted from the last step.             *)
PumpHasReason ==
    /\ wanted => o2Pending # 0
    /\ pumpOn /\ ~stepped => wanted
    /\ pumpOn => starts # 0
    /\ o2LastProgress # Never =>
           /\ o2LastProgress = (IF stepped THEN tick ELSE tick - 1)
           /\ o2Pending # 0 /\ starts # 0

Counted   == planned - o2Pending
Uncounted == poured - Counted

(* What a pump that runs may yet pour before the next volume is counted,   *)
(* and what is sure to be counted of what it has poured.                   *)
ToCome ==
    IF ~(pumpOn /\ wanted) THEN 0
    ELSE IF stepped THEN (IF o2LastProgress = Never THEN Flow + Flow ELSE Flow)
    ELSE IF o2LastProgress = Never THEN Flow ELSE 0

ToCount == IF pumpOn /\ ~stepped /\ o2LastProgress # Never THEN Flow ELSE 0

Restarts == IF starts > 1 THEN starts - 1 ELSE 0

PouredAndCounted ==
    /\ o2Pending <= planned
    /\ Uncounted + ToCome <= 2 * (Flow * starts)
    /\ ToCount <= Uncounted + Flow * Restarts

(* The stages of a dose that nothing obstructs.                            *)
AwaitsFiltration == waited <= filtration \/ waited <= 1
AwaitsPump   == waited <= o2MinFilterRunMin + 2
AwaitsCount  == waited <= o2MinFilterRunMin + 3
Counts       == Flow * (waited - o2MinFilterRunMin - 3) <= Counted
CountsNext   == Flow * (waited - o2MinFilterRunMin - 4) <= Counted

AfterStep ==
    /\ ~wanted => asked /\ AwaitsFiltration
    /\ wanted => filtrationReady
    /\ wanted /\ o2LastProgress = Never => AwaitsPump
    /\ wanted /\ o2LastProgress # Never => Counts

BeforeStep ==
    /\ ~filtrationReady => AwaitsFiltration
    /\ filtrationReady /\ ~pumpOn => AwaitsPump
    /\ filtrationReady /\ pumpOn /\ o2LastProgress = Never => AwaitsCount
    /\ filtrationReady /\ pumpOn /\ o2LastProgress # Never => CountsNext
    /\ pumpOn => filtration # 0

DoseAdvances ==
    waited # 0 => /\ obstacle = "None" /\ o2Pending # 0
                  /\ stepped => AfterStep
                  /\ ~stepped => BeforeStep

(* The day of the last dose is over, or it leaves nothing to pour.         *)
DayIsKept ==
    /\ o2LastDoseDay <= dayKey /\ doses <= 1 + resets
    /\ o2LastDoseDay = dayKey => o2Pending = 0
    /\ o2LastDoseDay # dayKey => doses <= resets

OxygenInv ==
    /\ OxygenFlags /\ OxygenRanges /\ NothingStored
    /\ PumpHasReason /\ PouredAndCounted /\ DoseAdvances /\ DayIsKept

LEMMA OxygenConstants ==
    /\ DayLength \in Nat \ {0} /\ WeekDays \in Nat \ {0} /\ Epoch \in Nat \ {0}
    /\ o2SplitCount \in Nat \ {0} /\ Flow \in Nat \ {0} /\ Shift \in Nat
    /\ o2MinFilterRunMin \in Nat /\ MaxTicks \in Nat /\ MaxResets \in Nat
    /\ \A w \in WeeklyDoses : w \in Nat
BY OxygenAssumption

LEMMA DayKeyIsNat == OxygenRanges => dayKey \in Nat \ {0}
<1> SUFFICES ASSUME OxygenRanges PROVE dayKey \in Nat \ {0}
  OBVIOUS
<1>1. tick + Shift \in Nat
  BY OxygenConstants DEF OxygenRanges
<1>2. (tick + Shift) \div DayLength \in Nat
  BY <1>1, OxygenConstants, QuotientIsNat
<1> QED
  BY <1>2, OxygenConstants DEF dayKey

LEMMA OxygenInvInit == OxygenInit => OxygenInv
<1> SUFFICES ASSUME OxygenInit PROVE OxygenInv
  OBVIOUS
<1>1. OxygenFlags
  BY DEF OxygenInit, OxygenFlags, Obstacles
<1>2. OxygenRanges
  BY OxygenConstants DEF OxygenInit, OxygenRanges
<1>3. NothingStored /\ PumpHasReason /\ DoseAdvances
  BY DEF OxygenInit, NothingStored, PumpHasReason, DoseAdvances
<1>4. PouredAndCounted
  <2>1. ToCome = 0 /\ ToCount = 0
    BY DEF OxygenInit, ToCome, ToCount
  <2>2. Uncounted = 0 /\ Restarts = 0 /\ starts = 0 /\ o2Pending = 0 /\ planned = 0
    BY DEF OxygenInit, Uncounted, Counted, Restarts
  <2>3. Flow * 0 = 0
    BY OxygenConstants
  <2> QED
    BY <2>1, <2>2, <2>3 DEF PouredAndCounted
<1>5. DayIsKept
  <2>1. o2LastDoseDay = 0 /\ doses = 0 /\ resets = 0
    BY DEF OxygenInit
  <2> QED
    BY <2>1, <1>2, DayKeyIsNat DEF DayIsKept
<1> QED
  BY <1>1, <1>2, <1>3, <1>4, <1>5 DEF OxygenInv

(* The dose that a step creates.                                           *)
LEMMA DoseIsSane ==
    ASSUME OxygenRanges, NEW w \in WeeklyDoses
    PROVE  /\ WeeklyDone \in Nat /\ Due(w) \in Nat
           /\ Created(w) => /\ Dose(w) \in Nat /\ Due(w) = Dose(w) /\ o2Pending = 0
                            /\ o2LastDoseDay # dayKey
           /\ ~Created(w) => Due(w) = o2Pending
<1>1. w \in Nat /\ w \div o2SplitCount \in Nat
  BY OxygenConstants, QuotientIsNat
<1>2. WeeklyDone \in Nat
  BY DEF WeeklyDone, OxygenRanges
<1>3. ASSUME Created(w) PROVE Dose(w) \in Nat
  <2>1. WeeklyDone < w
    BY <1>3 DEF Created, dueToday
  <2> QED
    BY <2>1, <1>1, <1>2 DEF Dose, Smaller
<1>4. Created(w) => Due(w) = Dose(w) /\ o2Pending = 0 /\ o2LastDoseDay # dayKey
  BY DEF Created, Due, dueToday
<1>5. ~Created(w) => Due(w) = o2Pending
  BY DEF Due
<1>6. Due(w) \in Nat
  <2>1. CASE Created(w)
    BY <2>1, <1>3, <1>4
  <2>2. CASE ~Created(w)
    BY <2>2, <1>5 DEF OxygenRanges
  <2> QED
    BY <2>1, <2>2
<1> QED
  BY <1>2, <1>3, <1>4, <1>5, <1>6
(* Steps of the surroundings leave the account of the dose alone.          *)
LEMMA AccountStands ==
    ASSUME PumpHasReason, PouredAndCounted, DayIsKept, NothingStored,
           UNCHANGED <<tick, stepped, pumpOn, cursors, o2LastProgress, wanted, stored, planned,
                       poured, starts, doses, resets>>
    PROVE  PumpHasReason' /\ PouredAndCounted' /\ DayIsKept' /\ NothingStored'
<1>1. UNCHANGED <<tick, stepped, pumpOn, o2Pending, o2WeeklyDone, o2LastDoseDay, o2LastProgress,
                  wanted, stored, planned, poured, starts, doses, resets>>
  BY DEF cursors
<1>2. PumpHasReason' /\ NothingStored'
  BY <1>1 DEF PumpHasReason, NothingStored
<1>3. PouredAndCounted'
  BY <1>1 DEF PouredAndCounted, Uncounted, Counted, ToCome, ToCount, Restarts
<1>4. DayIsKept'
  BY <1>1 DEF DayIsKept, dayKey
<1> QED
  BY <1>2, <1>3, <1>4

(* The account of a dose when it is created or when the pump is not heard. *)
LEMMA AccountAfterStep ==
    ASSUME OxygenInv, ~stepped, stepped' = TRUE, NEW w \in WeeklyDoses, NewDose(w),
           Created(w) => ~pumpOn,
           UNCHANGED <<tick, pumpOn, o2LastDoseDay, doses, resets, stored>>,
           o2LastProgress' = Never, ~wanted' \/ ~pumpOn, wanted' => Due(w) # 0
    PROVE  /\ PumpHasReason' /\ PouredAndCounted' /\ DayIsKept' /\ NothingStored'
           /\ o2Pending' \in Nat /\ o2WeeklyDone' \in Nat
           /\ planned' \in Nat /\ poured' \in Nat /\ starts' \in Nat
<1>1. /\ o2Pending' = Due(w) /\ o2WeeklyDone' = WeeklyDone
      /\ Created(w) => planned' = Dose(w) /\ poured' = 0 /\ starts' = 0
      /\ ~Created(w) => planned' = planned /\ poured' = poured /\ starts' = starts
  BY DEF NewDose
<1>2. OxygenRanges /\ PumpHasReason /\ PouredAndCounted /\ DayIsKept /\ NothingStored
  BY DEF OxygenInv
<1>3. /\ WeeklyDone \in Nat /\ Due(w) \in Nat
      /\ Created(w) => /\ Dose(w) \in Nat /\ Due(w) = Dose(w) /\ o2Pending = 0
                       /\ o2LastDoseDay # dayKey
      /\ ~Created(w) => Due(w) = o2Pending
  BY <1>2, DoseIsSane
<1>r. poured \in Nat /\ planned \in Nat /\ o2Pending \in Nat /\ starts \in Nat
  BY <1>2 DEF OxygenRanges
<1>4. PumpHasReason'
  <2>1. wanted' => o2Pending' # 0
    BY <1>1
  <2>2. pumpOn' => starts' # 0
    BY <1>1, <1>2 DEF PumpHasReason
  <2> QED
    BY <2>1, <2>2 DEF PumpHasReason
<1>5. ToCome' = 0 /\ ToCount' = 0
  BY DEF ToCome, ToCount
<1>6. PouredAndCounted'
  <2>1. CASE Created(w)
    <3>1. /\ poured' = 0 /\ starts' = 0 /\ planned' = o2Pending' /\ planned' \in Nat
      BY <2>1, <1>1, <1>3
    <3>0. \A x \in Nat : x - x = 0 /\ 0 - (x - x) = 0
      OBVIOUS
    <3>a. Uncounted' = poured' - (planned' - o2Pending')
      BY DEF Uncounted, Counted
    <3>b. Uncounted' = 0 - (planned' - planned')
      BY <3>a, <3>1
    <3>c. Uncounted' = 0
      BY <3>b, <3>0, <3>1
    <3>2. Uncounted' = 0 /\ Restarts' = 0
      BY <3>c, <3>1 DEF Restarts
    <3>3. Flow * 0 = 0
      BY OxygenConstants
    <3> QED
      BY <3>1, <3>2, <3>3, <1>5 DEF PouredAndCounted
  <2>2. CASE ~Created(w)
    <3>1. planned' = planned /\ poured' = poured /\ starts' = starts /\ o2Pending' = o2Pending
      BY <2>2, <1>1, <1>3
    <3>2. Uncounted' = Uncounted /\ Restarts' = Restarts /\ Uncounted \in Int
      BY <3>1, <1>r DEF Uncounted, Counted, Restarts
    <3>3. ToCome >= 0 /\ ToCount >= 0 /\ ToCome \in Int /\ ToCount \in Int
      BY OxygenConstants DEF ToCome, ToCount
    <3>4. Flow * starts \in Int /\ Flow * Restarts \in Int
      BY <1>r, OxygenConstants DEF Restarts
    <3> QED
      BY <3>1, <3>2, <3>3, <3>4, <1>2, <1>5 DEF PouredAndCounted
  <2> QED
    BY <2>1, <2>2
<1>7. DayIsKept'
  <2>1. dayKey' = dayKey
    BY DEF dayKey
  <2>2. o2LastDoseDay' = dayKey => o2Pending' = 0
    BY <1>1, <1>2, <1>3 DEF DayIsKept
  <2> QED
    BY <2>1, <2>2, <1>2 DEF DayIsKept
<1> QED
  BY <1>1, <1>2, <1>3, <1>4, <1>6, <1>7, <1>r DEF NothingStored

LEMMA StandByKeeps == OxygenInv /\ StandBy => OxygenInv'
<1> SUFFICES ASSUME OxygenInv, StandBy PROVE OxygenInv'
  OBVIOUS
<1>1. /\ ~stepped /\ obstacle \in {"Inactive", "Unsynced"}
      /\ stepped' = TRUE /\ wanted' = FALSE /\ asked' = (obstacle = "Unsynced" /\ o2Pending > 0)
      /\ o2LastProgress' = Never
      /\ protocol' = (IF o2Pending = 0 THEN "Idle"
                      ELSE IF obstacle = "Inactive" THEN "Pending" ELSE "Blocked")
      /\ UNCHANGED <<tick, obstacle, moved, filtration, pumpOn, o2Pending, o2WeeklyDone,
                     o2LastDoseDay, stored, planned, poured, starts, doses, waited, resets>>
  BY DEF StandBy, Interrupted, cursors
<1>2. /\ OxygenFlags /\ OxygenRanges /\ NothingStored
      /\ PumpHasReason /\ PouredAndCounted /\ DoseAdvances /\ DayIsKept
  BY DEF OxygenInv
<1>3. OxygenFlags'
  <2>1. asked' \in BOOLEAN
    BY <1>1
  <2>2. protocol' \in {"Idle", "Pending", "Starting", "Dosing", "Blocked"}
    BY <1>1
  <2> QED
    BY <2>1, <2>2, <1>1, <1>2 DEF OxygenFlags
<1>4. OxygenRanges' /\ NothingStored'
  BY <1>1, <1>2 DEF OxygenRanges, NothingStored
<1>5. PumpHasReason'
  BY <1>1, <1>2 DEF PumpHasReason
<1>6. PouredAndCounted'
  <2>1. ToCome' = 0 /\ ToCount' = 0
    BY <1>1 DEF ToCome, ToCount
  <2>2. Uncounted' = Uncounted /\ Restarts' = Restarts
    BY <1>1 DEF Uncounted, Counted, Restarts
  <2>3. ToCome >= 0 /\ ToCount >= 0 /\ ToCome \in Int /\ ToCount \in Int
    BY OxygenConstants DEF ToCome, ToCount
  <2>4. Flow * starts \in Int /\ Flow * Restarts \in Int /\ Uncounted \in Int
    BY <1>2, OxygenConstants DEF Restarts, OxygenRanges, Uncounted, Counted
  <2> QED
    BY <2>1, <2>2, <2>3, <2>4, <1>1, <1>2 DEF PouredAndCounted
<1>7. DoseAdvances'
  BY <1>1, <1>2 DEF DoseAdvances
<1>8. DayIsKept'
  BY <1>1, <1>2 DEF DayIsKept, dayKey
<1> QED
  BY <1>3, <1>4, <1>5, <1>6, <1>7, <1>8 DEF OxygenInv

(* Before a step, a pump that runs has a dose to pour.                     *)
LEMMA NotCreatedUnderWay ==
    ASSUME OxygenInv, ~stepped, NEW w \in WeeklyDoses,
           pumpOn \/ o2LastProgress # Never \/ waited # 0
    PROVE  ~Created(w) /\ o2Pending # 0
<1>1. o2Pending # 0
  BY DEF OxygenInv, PumpHasReason, DoseAdvances
<1> QED
  BY <1>1 DEF Created

LEMMA OutcomeIs ==
    ASSUME NEW state \in {"Idle", "Pending", "Starting", "Dosing", "Blocked"}, NEW w,
           Outcome(state, w)
    PROVE  /\ protocol' = state /\ wanted' \in BOOLEAN
           /\ wanted' <=> state \in {"Starting", "Dosing"}
           /\ asked' = requestFiltration(w) /\ stepped' = TRUE
<1>1. wanted' = (state \in {"Starting", "Dosing"})
  BY DEF Outcome
<1>2. (state \in {"Starting", "Dosing"}) \in BOOLEAN
  OBVIOUS
<1>3. wanted' \in BOOLEAN /\ (wanted' <=> state \in {"Starting", "Dosing"})
  BY <1>1, <1>2, Zenon
<1> QED
  BY <1>3 DEF Outcome

LEMMA IdleKeeps == ASSUME OxygenInv, NEW w \in WeeklyDoses, Idle(w) PROVE OxygenInv'
<1>1. /\ ~stepped /\ Due(w) = 0 /\ NewDose(w) /\ stored' = stored
      /\ UNCHANGED <<tick, obstacle, moved, filtration, pumpOn, o2LastDoseDay, o2LastProgress,
                     doses, waited, resets>>
  BY DEF Idle, persistO2Protocol
<1>2. /\ protocol' \in {"Blocked", "Idle"} /\ ~wanted' /\ wanted' \in BOOLEAN
      /\ asked' = requestFiltration(w) /\ stepped' = TRUE
  <2>1. Outcome("Blocked", w) \/ Outcome("Idle", w)
    BY DEF Idle
  <2> QED
    BY <2>1, OutcomeIs DEF requestFiltration
<1>i. /\ OxygenFlags /\ OxygenRanges /\ NothingStored
      /\ PumpHasReason /\ PouredAndCounted /\ DoseAdvances /\ DayIsKept
  BY DEF OxygenInv
<1>3. o2Pending = 0
  BY <1>1, <1>i, DoseIsSane DEF Due, Created
<1>4. ~pumpOn /\ o2LastProgress = Never /\ waited = 0
  BY <1>1, <1>3, NotCreatedUnderWay
<1>5. /\ PumpHasReason' /\ PouredAndCounted' /\ DayIsKept' /\ NothingStored'
      /\ o2Pending' \in Nat /\ o2WeeklyDone' \in Nat
      /\ planned' \in Nat /\ poured' \in Nat /\ starts' \in Nat
  BY <1>1, <1>2, <1>4, AccountAfterStep
<1>6. OxygenFlags'
  <2>1. asked' \in BOOLEAN
    BY <1>2 DEF requestFiltration
  <2> QED
    BY <2>1, <1>1, <1>2, <1>i DEF OxygenFlags
<1>7. OxygenRanges'
  BY <1>1, <1>5, <1>i DEF OxygenRanges
<1>8. DoseAdvances'
  BY <1>1, <1>4 DEF DoseAdvances
<1> QED
  BY <1>5, <1>6, <1>7, <1>8 DEF OxygenInv

LEMMA WaitKeeps == ASSUME OxygenInv, NEW w \in WeeklyDoses, Wait(w) PROVE OxygenInv'
<1>1. /\ ~stepped /\ Due(w) > 0 /\ (obstacle # "None" \/ ~filtrationReady)
      /\ NewDose(w) /\ stored' = stored /\ o2LastProgress' = Never
      /\ waited' = (IF Created(w) THEN 0 ELSE waited)
      /\ UNCHANGED <<tick, obstacle, moved, filtration, pumpOn, o2LastDoseDay, doses, resets>>
  BY DEF Wait, persistO2Protocol, Interrupted
<1>2. /\ protocol' \in {"Pending", "Blocked"} /\ ~wanted' /\ wanted' \in BOOLEAN
      /\ asked' = requestFiltration(w) /\ stepped' = TRUE
  <2>1. Outcome("Pending", w) \/ Outcome("Blocked", w)
    BY DEF Wait
  <2> QED
    BY <2>1, OutcomeIs
<1>i. /\ OxygenFlags /\ OxygenRanges /\ NothingStored
      /\ PumpHasReason /\ PouredAndCounted /\ DoseAdvances /\ DayIsKept
  BY DEF OxygenInv
<1>3. Created(w) => ~pumpOn
  BY <1>1, NotCreatedUnderWay
<1>4. Due(w) # 0
  BY <1>1
<1>5. /\ PumpHasReason' /\ PouredAndCounted' /\ DayIsKept' /\ NothingStored'
      /\ o2Pending' \in Nat /\ o2WeeklyDone' \in Nat
      /\ planned' \in Nat /\ poured' \in Nat /\ starts' \in Nat
  BY <1>1, <1>2, <1>3, <1>4, AccountAfterStep
<1>a. asked' = TRUE
  BY <1>1, <1>2 DEF requestFiltration
<1>6. OxygenFlags'
  BY <1>a, <1>1, <1>2, <1>i DEF OxygenFlags
<1>7. OxygenRanges'
  <2>1. waited' \in Nat
    BY <1>1, <1>i DEF OxygenRanges
  <2> QED
    BY <2>1, <1>1, <1>5, <1>i DEF OxygenRanges
<1>8. DoseAdvances'
  <2> SUFFICES ASSUME waited' # 0
               PROVE  obstacle' = "None" /\ o2Pending' # 0 /\ AfterStep'
    BY <1>2 DEF DoseAdvances
  <2>1. waited' = waited /\ waited # 0
    BY <1>1
  <2>2. obstacle = "None" /\ BeforeStep
    BY <2>1, <1>1, <1>i DEF DoseAdvances
  <2>3. AwaitsFiltration
    BY <2>2, <1>1 DEF BeforeStep
  <2>4. AfterStep'
    BY <2>1, <2>3, <1>1, <1>2, <1>a DEF AfterStep, AwaitsFiltration
  <2>5. o2Pending' # 0
    BY <1>1 DEF NewDose
  <2> QED
    BY <2>2, <2>4, <2>5, <1>1
<1> QED
  BY <1>5, <1>6, <1>7, <1>8 DEF OxygenInv
(* A step that hears the pump counts what it has poured since the last.    *)
LEMMA InjectedIs ==
    ASSUME OxygenInv, ~stepped
    PROVE  injected = IF o2LastProgress = Never THEN 0 ELSE Flow
<1>1. CASE o2LastProgress = Never
  BY <1>1 DEF injected
<1>2. CASE o2LastProgress # Never
  <2>1. o2LastProgress = tick - 1 /\ tick \in Nat
    BY <1>2 DEF OxygenInv, PumpHasReason, OxygenRanges
  <2>2. tick - o2LastProgress = 1
    BY <2>1
  <2>3. Flow * 1 = Flow
    BY OxygenConstants
  <2> QED
    BY <1>2, <2>2, <2>3 DEF injected
<1> QED
  BY <1>1, <1>2

LEMMA PourKeeps == ASSUME OxygenInv, NEW w \in WeeklyDoses, Pour(w) PROVE OxygenInv'
<1>1. /\ ~stepped /\ obstacle = "None" /\ Due(w) > 0 /\ filtrationReady /\ stored' = stored
      /\ waited' = (IF Created(w) \/ o2Pending' = 0 THEN 0 ELSE waited)
      /\ UNCHANGED <<tick, obstacle, moved, filtration, pumpOn, resets>>
  BY DEF Pour, persistO2Protocol
<1>i. /\ OxygenFlags /\ OxygenRanges /\ NothingStored
      /\ PumpHasReason /\ PouredAndCounted /\ DoseAdvances /\ DayIsKept
  BY DEF OxygenInv
<1>r. /\ poured \in Nat /\ planned \in Nat /\ o2Pending \in Nat /\ starts \in Nat
      /\ waited \in Nat /\ tick \in Nat /\ doses \in Nat /\ resets \in Nat
      /\ Flow \in Nat \ {0} /\ o2MinFilterRunMin \in Nat
  BY <1>i, OxygenConstants DEF OxygenRanges
<1>d. WeeklyDone \in Nat /\ Due(w) \in Nat
  BY <1>i, DoseIsSane
<1>w. waited' \in Nat
  BY <1>1, <1>r
<1>k. dayKey' = dayKey /\ filtrationReady'
  BY <1>1 DEF dayKey, filtrationReady
<1>2. CASE ~pumpOn
  <2>1. /\ NewDose(w) /\ Outcome("Starting", w) /\ o2LastProgress' = Never
        /\ UNCHANGED <<o2LastDoseDay, doses>>
    BY <1>2 DEF Pour, Interrupted
  <2>2. /\ protocol' = "Starting" /\ wanted' \in BOOLEAN /\ wanted'
        /\ asked' = requestFiltration(w) /\ stepped' = TRUE
    BY <2>1, OutcomeIs
  <2>3. Due(w) # 0
    BY <1>1
  <2>4. /\ PumpHasReason' /\ PouredAndCounted' /\ DayIsKept' /\ NothingStored'
        /\ o2Pending' \in Nat /\ o2WeeklyDone' \in Nat
        /\ planned' \in Nat /\ poured' \in Nat /\ starts' \in Nat
    BY <1>1, <1>2, <2>1, <2>2, <2>3, AccountAfterStep
  <2>5. OxygenFlags'
    <3>1. asked' \in BOOLEAN
      BY <2>2 DEF requestFiltration
    <3> QED
      BY <3>1, <1>1, <2>2, <1>i DEF OxygenFlags
  <2>6. OxygenRanges'
    BY <1>1, <2>1, <2>4, <1>w, <1>i DEF OxygenRanges
  <2>7. DoseAdvances'
    <3> SUFFICES ASSUME waited' # 0
                 PROVE  obstacle' = "None" /\ o2Pending' # 0 /\ AfterStep'
      BY <2>2 DEF DoseAdvances
    <3>1. waited' = waited /\ waited # 0 /\ o2Pending' # 0
      BY <1>1
    <3>2. AwaitsPump
      BY <3>1, <1>1, <1>2, <1>i DEF DoseAdvances, BeforeStep
    <3>3. AwaitsPump'
      BY <3>1, <3>2 DEF AwaitsPump
    <3>4. AfterStep'
      BY <3>3, <2>1, <2>2, <1>k DEF AfterStep
    <3> QED
      BY <3>1, <3>4, <1>1
  <2> QED
    BY <2>4, <2>5, <2>6, <2>7 DEF OxygenInv
<1>3. CASE pumpOn
  <2>1. ~Created(w) /\ o2Pending # 0 /\ Due(w) = o2Pending /\ wanted
    <3>1. ~Created(w) /\ o2Pending # 0
      BY <1>1, <1>3, NotCreatedUnderWay
    <3> QED
      BY <3>1, <1>1, <1>3, <1>i DEF Due, PumpHasReason
  <2>2. /\ o2Pending' = Remaining(w)
        /\ o2WeeklyDone' = WeeklyDone + Due(w) - Remaining(w)
        /\ planned' = planned /\ poured' = poured /\ starts' = starts
    BY <1>3, <2>1 DEF Pour
  <2>3. o2LastDoseDay # dayKey /\ doses <= resets
    BY <2>1, <1>i DEF DayIsKept
  <2>4. injected = IF o2LastProgress = Never THEN 0 ELSE Flow
    BY <1>1, InjectedIs
  <2>5. /\ Remaining(w) \in Nat /\ Remaining(w) <= o2Pending
        /\ Remaining(w) # 0 => Remaining(w) = o2Pending - injected
        /\ Remaining(w) = 0 => o2LastProgress # Never /\ o2Pending <= Flow
    <3>1. injected \in Nat
      BY <2>4, <1>r
    <3>2. Remaining(w) = IF injected < o2Pending THEN o2Pending - injected ELSE 0
      BY <2>1 DEF Remaining
    <3> QED
      BY <3>1, <3>2, <2>1, <2>4, <1>r
  <2>6. o2Pending' \in Nat /\ o2WeeklyDone' \in Nat
    BY <2>1, <2>2, <2>5, <1>d, <1>r
  <2>u. /\ Uncounted \in Int /\ Uncounted' = Uncounted - (o2Pending - o2Pending')
        /\ Counted \in Int /\ Counted >= 0 /\ Counted' = Counted + (o2Pending - o2Pending')
        /\ Restarts' = Restarts /\ Flow * starts \in Int /\ Flow * Restarts \in Int
    <3>1. o2Pending <= planned
      BY <1>i DEF PouredAndCounted
    <3>2. Counted \in Int /\ Counted >= 0 /\ Counted' = Counted + (o2Pending - o2Pending')
      BY <3>1, <2>2, <2>6, <1>r DEF Counted
    <3>3. Uncounted \in Int /\ Uncounted' = Uncounted - (o2Pending - o2Pending')
      BY <2>2, <2>6, <1>r DEF Uncounted, Counted
    <3>4. Restarts' = Restarts /\ Restarts \in Nat
      BY <2>2, <1>r DEF Restarts
    <3>5. Flow * starts \in Int /\ Flow * Restarts \in Int
      BY <3>4, <1>r
    <3> QED
      BY <3>2, <3>3, <3>4, <3>5
  <2>p. /\ o2Pending <= planned
        /\ Uncounted + ToCome <= 2 * (Flow * starts)
        /\ ToCount <= Uncounted + Flow * Restarts
        /\ ToCome = (IF o2LastProgress = Never THEN Flow ELSE 0)
        /\ ToCount = (IF o2LastProgress # Never THEN Flow ELSE 0)
    BY <1>1, <1>3, <2>1, <1>i DEF PouredAndCounted, ToCome, ToCount
  <2>7. CASE Remaining(w) = 0
    <3>1. /\ Outcome("Idle", w) /\ o2LastDoseDay' = dayKey /\ o2LastProgress' = Never
          /\ doses' = doses + 1
      BY <1>3, <2>7 DEF Pour, DoseDay, Interrupted
    <3>2. /\ protocol' = "Idle" /\ wanted' \in BOOLEAN /\ ~wanted'
          /\ asked' = requestFiltration(w) /\ stepped' = TRUE
      BY <3>1, OutcomeIs
    <3>3. o2Pending' = 0
      BY <2>2, <2>7
    <3>4. waited' = 0
      BY <1>1, <3>3
    <3>5. OxygenFlags'
      <4>1. asked' \in BOOLEAN
        BY <3>2 DEF requestFiltration
      <4> QED
        BY <4>1, <3>2, <1>1, <1>i DEF OxygenFlags
    <3>6. OxygenRanges'
      <4>1. dayKey \in Nat
        BY <1>i, DayKeyIsNat
      <4> QED
        BY <4>1, <3>1, <2>2, <2>6, <1>1, <1>w, <1>i DEF OxygenRanges
    <3>7. PumpHasReason'
      BY <3>1, <3>2, <2>2, <1>1, <1>i DEF PumpHasReason
    <3>8. PouredAndCounted'
      <4>1. ToCome' = 0 /\ ToCount' = 0
        BY <3>1, <3>2 DEF ToCome, ToCount
      <4>2. Uncounted' = Uncounted - o2Pending
        BY <2>u, <3>3, <1>r
      <4> QED
        BY <4>1, <4>2, <3>3, <2>u, <2>p, <2>2, <2>5, <2>7, <1>r DEF PouredAndCounted
    <3>9. DoseAdvances'
      BY <3>4 DEF DoseAdvances
    <3>10. DayIsKept'
      <4>1. dayKey \in Nat /\ dayKey <= dayKey
        BY <1>i, DayKeyIsNat
      <4> QED
        BY <4>1, <3>1, <3>3, <2>3, <1>k, <1>1, <1>r DEF DayIsKept
    <3> QED
      BY <3>5, <3>6, <3>7, <3>8, <3>9, <3>10, <1>1, <1>i DEF OxygenInv, NothingStored
  <2>8. CASE Remaining(w) # 0
    <3>1. /\ Outcome("Dosing", w) /\ o2LastDoseDay' = o2LastDoseDay /\ o2LastProgress' = tick
          /\ doses' = doses
      BY <1>3, <2>8 DEF Pour
    <3>2. /\ protocol' = "Dosing" /\ wanted' \in BOOLEAN /\ wanted'
          /\ asked' = requestFiltration(w) /\ stepped' = TRUE
      BY <3>1, OutcomeIs
    <3>3. o2Pending' # 0 /\ o2Pending - o2Pending' = injected /\ o2LastProgress' # Never
      BY <2>2, <2>4, <2>5, <2>8, <3>1, <1>r DEF Never
    <3>5. OxygenFlags'
      <4>1. asked' \in BOOLEAN
        BY <3>2 DEF requestFiltration
      <4> QED
        BY <4>1, <3>2, <1>1, <1>i DEF OxygenFlags
    <3>6. OxygenRanges'
      BY <3>1, <2>2, <2>6, <1>1, <1>w, <1>i DEF OxygenRanges
    <3>7. PumpHasReason'
      <4>1. starts # 0
        BY <1>3, <1>i DEF PumpHasReason
      <4> QED
        BY <4>1, <3>1, <3>2, <3>3, <2>2, <1>1 DEF PumpHasReason
    <3>8. PouredAndCounted'
      <4>1. ToCome' = Flow /\ ToCount' = 0
        BY <3>2, <3>3, <1>1, <1>3 DEF ToCome, ToCount
      <4>2. o2Pending' <= planned
        BY <2>2, <2>5, <2>p, <1>r
      <4>3. CASE o2LastProgress = Never
        <5>1. Uncounted' = Uncounted /\ ToCome = Flow /\ ToCount = 0
          BY <4>3, <2>4, <2>u, <2>p, <3>3
        <5> QED
          BY <4>1, <4>2, <5>1, <2>u, <2>p, <2>2, <1>r DEF PouredAndCounted
      <4>4. CASE o2LastProgress # Never
        <5>1. Uncounted' = Uncounted - Flow /\ ToCome = 0 /\ ToCount = Flow
          BY <4>4, <2>4, <2>u, <2>p, <3>3
        <5> QED
          BY <4>1, <4>2, <5>1, <2>u, <2>p, <2>2, <1>r DEF PouredAndCounted
      <4> QED
        BY <4>3, <4>4
    <3>9. DoseAdvances'
      <4> SUFFICES ASSUME waited' # 0
                   PROVE  obstacle' = "None" /\ o2Pending' # 0 /\ AfterStep'
        BY <3>2 DEF DoseAdvances
      <4>1. waited' = waited /\ waited # 0
        BY <1>1
      <4>2. BeforeStep
        BY <4>1, <1>1, <1>i DEF DoseAdvances
      <4> DEFINE n == waited - o2MinFilterRunMin - 3
      <4>3. n \in Int /\ n - 1 \in Int /\ n - 1 = waited - o2MinFilterRunMin - 4
            /\ (n - 1) + 1 = n /\ n = waited' - o2MinFilterRunMin - 3
        BY <1>r, <4>1
      <4>4. ASSUME o2LastProgress = Never PROVE Counts'
        <5>1. AwaitsCount
          BY <4>2, <4>4, <1>1, <1>3 DEF BeforeStep
        <5>2. n <= 0
          BY <5>1, <1>r DEF AwaitsCount
        <5>3. Flow * n <= 0 /\ Flow * n \in Int
          BY <5>2, <4>3, <1>r, ProductSign
        <5>4. Flow * n <= Counted'
          BY <5>3, <2>u, <3>3, <2>4, <4>4
        <5>5. Flow * (waited' - o2MinFilterRunMin - 3) <= Counted'
          BY <5>4, <4>3
        <5> QED
          BY <5>5 DEF Counts
      <4>5. ASSUME o2LastProgress # Never PROVE Counts'
        <5>1. CountsNext
          BY <4>2, <4>5, <1>1, <1>3 DEF BeforeStep
        <5>2. Flow * (n - 1) <= Counted
          BY <5>1, <4>3 DEF CountsNext
        <5> HIDE DEF n
        <5>3. Flow * (n - 1) \in Int /\ Flow * n = Flow * (n - 1) + Flow
          BY <4>3, <1>r, ProductGrows
        <5>4. Flow * n <= Counted'
          BY <5>2, <5>3, <2>u, <3>3, <2>4, <4>5, <1>r
        <5>5. Flow * (waited' - o2MinFilterRunMin - 3) <= Counted'
          BY <5>4, <4>3
        <5> QED
          BY <5>5 DEF Counts
      <4>6. Counts'
        BY <4>4, <4>5
      <4>7. AfterStep'
        BY <4>6, <3>2, <3>3, <1>k DEF AfterStep
      <4> QED
        BY <4>7, <3>3, <1>1
    <3>10. DayIsKept'
      BY <3>1, <2>3, <1>k, <1>1, <1>i DEF DayIsKept
    <3> QED
      BY <3>5, <3>6, <3>7, <3>8, <3>9, <3>10, <1>1, <1>i DEF OxygenInv, NothingStored
  <2> QED
    BY <2>7, <2>8
<1> QED
  BY <1>2, <1>3

(* The pump follows what is wanted of it.                                  *)
LEMMA PumpFollowsKeeps == OxygenInv /\ PumpFollows => OxygenInv'
<1> SUFFICES ASSUME OxygenInv, PumpFollows PROVE OxygenInv'
  OBVIOUS
<1>1. /\ pumpOn # Driven /\ pumpOn' = Driven
      /\ starts' = (IF Driven THEN starts + 1 ELSE starts)
      /\ UNCHANGED <<tick, stepped, obstacle, moved, filtration, o2Pending, o2WeeklyDone,
                     o2LastDoseDay, o2LastProgress, protocol, asked, wanted, stored, planned,
                     poured, doses, waited, resets>>
  BY DEF PumpFollows, cursors
<1>i. /\ OxygenFlags /\ OxygenRanges /\ NothingStored
      /\ PumpHasReason /\ PouredAndCounted /\ DoseAdvances /\ DayIsKept
  BY DEF OxygenInv
<1>r. /\ poured \in Nat /\ planned \in Nat /\ o2Pending \in Nat /\ starts \in Nat
      /\ waited \in Nat /\ Flow \in Nat \ {0} /\ o2MinFilterRunMin \in Nat
  BY <1>i, OxygenConstants DEF OxygenRanges
<1>b. Driven \in BOOLEAN /\ pumpOn \in BOOLEAN
  BY <1>i DEF Driven, OxygenFlags
<1>2. OxygenFlags'
  BY <1>1, <1>b, <1>i DEF OxygenFlags
<1>3. OxygenRanges'
  <2>1. starts' \in Nat
    BY <1>1, <1>r
  <2> QED
    BY <2>1, <1>1, <1>i DEF OxygenRanges
<1>4. NothingStored' /\ DayIsKept'
  BY <1>1, <1>i DEF NothingStored, DayIsKept, dayKey
<1>u. Uncounted' = Uncounted /\ Uncounted \in Int /\ Counted' = Counted
  BY <1>1, <1>r DEF Uncounted, Counted
<1>c. Counted \in Nat
  BY <1>i, <1>r DEF PouredAndCounted, Counted
<1>5. CASE Driven
  <2>a. ~pumpOn /\ pumpOn'
    BY <1>1, <1>5, <1>b
  <2>b. wanted /\ filtration # 0
    BY <1>5, <1>i DEF Driven, OxygenRanges
  <2>1. /\ ~pumpOn /\ pumpOn' /\ wanted /\ filtration # 0
    BY <2>a, <2>b
  <2>2. starts' = starts + 1
    BY <1>1, <1>5
  <2>3. PumpHasReason'
    <3>1. starts' # 0
      BY <2>2, <1>r
    <3> QED
      BY <3>1, <2>1, <1>1, <1>i DEF PumpHasReason
  <2>4. PouredAndCounted'
    <3>1. Flow * starts' = Flow * starts + Flow /\ Flow * starts \in Int
      BY <2>2, <1>r, ProductGrows
    <3>2. ToCome = 0 /\ ToCount = 0
      BY <2>1 DEF ToCome, ToCount
    <3>3. ToCome' \in Int /\ ToCome' <= Flow + Flow
      BY <1>r DEF ToCome
    <3>4. Restarts \in Int /\ Flow * Restarts \in Int
      BY <1>r DEF Restarts
    <3>5. ToCount' <= Uncounted + Flow * Restarts'
      <4>1. CASE starts = 0
        <5>1. ToCount' = 0
          BY <4>1, <1>1, <1>i DEF PumpHasReason, ToCount
        <5>2. Restarts' = Restarts
          BY <4>1, <2>2 DEF Restarts
        <5> QED
          BY <5>1, <5>2, <3>2, <1>i DEF PouredAndCounted
      <4>2. CASE starts # 0
        <5>1. Restarts' = Restarts + 1
          BY <4>2, <2>2, <1>r DEF Restarts
        <5>2. Flow * Restarts' = Flow * Restarts + Flow
          BY <5>1, <3>4, <1>r, ProductGrows
        <5>3. ToCount' \in Int /\ ToCount' <= Flow
          BY <1>r DEF ToCount
        <5>4. 0 <= Uncounted + Flow * Restarts
          BY <3>2, <1>i DEF PouredAndCounted
        <5> QED
          BY <5>2, <5>3, <5>4, <3>4, <1>u, <1>r
      <4> QED
        BY <4>1, <4>2
    <3>6. Uncounted + ToCome' <= 2 * (Flow * starts')
      <4>1. Uncounted <= 2 * (Flow * starts)
        BY <3>2, <1>u, <1>i DEF PouredAndCounted
      <4> QED
        BY <4>1, <3>1, <3>3, <1>u, <1>r
    <3> QED
      BY <3>5, <3>6, <1>u, <1>1, <1>i DEF PouredAndCounted
  <2>5. DoseAdvances'
    <3> SUFFICES ASSUME waited' # 0
                 PROVE  /\ obstacle' = "None" /\ o2Pending' # 0
                        /\ stepped' => AfterStep'
                        /\ ~stepped' => BeforeStep'
      BY DEF DoseAdvances
    <3>1. /\ obstacle = "None" /\ o2Pending # 0
          /\ stepped => AfterStep
          /\ ~stepped => BeforeStep
      BY <1>1, <1>i DEF DoseAdvances
    <3>2. AfterStep => AfterStep'
      BY <1>1, <1>u DEF AfterStep, AwaitsFiltration, filtrationReady, AwaitsPump, Counts
    <3>3. ASSUME BeforeStep PROVE BeforeStep'
      <4>1. ~filtrationReady' => AwaitsFiltration'
        BY <3>3, <1>1 DEF BeforeStep, filtrationReady, AwaitsFiltration
      <4>2. filtrationReady' => waited <= o2MinFilterRunMin + 2
        BY <3>3, <2>1, <1>1 DEF BeforeStep, filtrationReady, AwaitsPump
      <4>3. filtrationReady' => AwaitsCount'
        BY <4>2, <1>1, <1>r DEF AwaitsCount
      <4>4. filtrationReady' => CountsNext'
        <5> SUFFICES ASSUME filtrationReady' PROVE CountsNext'
          OBVIOUS
        <5> DEFINE n == waited - o2MinFilterRunMin - 4
        <5>1. n \in Int /\ n <= 0
          BY <4>2, <1>r
        <5>2. n = waited' - o2MinFilterRunMin - 4
          BY <1>1
        <5> HIDE DEF n
        <5>3. Flow * n \in Int /\ Flow * n <= 0
          BY <5>1, <1>r, ProductSign
        <5>4. Flow * n <= Counted'
          BY <5>3, <1>u, <1>c
        <5>5. Flow * (waited' - o2MinFilterRunMin - 4) <= Counted'
          BY <5>4, <5>2
        <5> QED
          BY <5>5 DEF CountsNext
      <4> QED
        BY <4>1, <4>3, <4>4, <2>1, <1>1 DEF BeforeStep
    <3> QED
      BY <3>1, <3>2, <3>3, <1>1
  <2> QED
    BY <1>2, <1>3, <1>4, <2>3, <2>4, <2>5 DEF OxygenInv
<1>6. CASE ~Driven
  <2>1. pumpOn /\ ~pumpOn' /\ starts' = starts
    BY <1>1, <1>6, <1>b
  <2>2. PumpHasReason'
    BY <2>1, <1>1, <1>i DEF PumpHasReason
  <2>3. PouredAndCounted'
    <3>1. ToCome' = 0 /\ ToCount' = 0 /\ Restarts' = Restarts
      BY <2>1 DEF ToCome, ToCount, Restarts
    <3>2. ToCome >= 0 /\ ToCount >= 0 /\ ToCome \in Int /\ ToCount \in Int
      BY OxygenConstants DEF ToCome, ToCount
    <3>3. Flow * starts \in Int /\ Flow * Restarts \in Int
      BY <1>r, OxygenConstants DEF Restarts
    <3> QED
      BY <3>1, <3>2, <3>3, <2>1, <1>1, <1>u, <1>i DEF PouredAndCounted
  <2>4. DoseAdvances'
    <3> SUFFICES ASSUME waited' # 0
                 PROVE  obstacle' = "None" /\ o2Pending' # 0 /\ stepped' /\ AfterStep'
      BY DEF DoseAdvances
    <3>1. /\ obstacle = "None" /\ o2Pending # 0
          /\ stepped => AfterStep
          /\ ~stepped => BeforeStep
      BY <1>1, <1>i DEF DoseAdvances
    <3>2. AfterStep => AfterStep'
      BY <1>1, <1>u DEF AfterStep, AwaitsFiltration, filtrationReady, AwaitsPump, Counts
    <3>3. ASSUME ~stepped PROVE FALSE
      <4>1. wanted /\ filtration # 0
        BY <3>3, <3>1, <2>1, <1>i DEF PumpHasReason, BeforeStep
      <4>2. filtration > 0
        BY <4>1, <1>i DEF OxygenRanges
      <4> QED
        BY <4>1, <4>2, <3>1, <1>6 DEF Driven
    <3> QED
      BY <3>1, <3>2, <3>3, <1>1
  <2> QED
    BY <1>2, <1>3, <1>4, <2>2, <2>3, <2>4 DEF OxygenInv
<1> QED
  BY <1>5, <1>6

(* Filtration that starts lets the dose wait for the pump next.            *)
LEMMA FiltrationStarts ==
    ASSUME OxygenInv, filtration = 0, filtration' = 1, moved' \in BOOLEAN,
           UNCHANGED <<tick, stepped, obstacle, pumpOn, cursors, o2LastProgress, protocol, asked,
                       wanted, stored, planned, poured, starts, doses, waited, resets>>
    PROVE  OxygenInv'
<1>1. UNCHANGED <<tick, stepped, obstacle, pumpOn, o2Pending, o2WeeklyDone, o2LastDoseDay,
                  o2LastProgress, protocol, asked, wanted, stored, planned, poured, starts,
                  doses, waited, resets>>
  BY DEF cursors
<1>i. /\ OxygenFlags /\ OxygenRanges /\ NothingStored
      /\ PumpHasReason /\ PouredAndCounted /\ DoseAdvances /\ DayIsKept
  BY DEF OxygenInv
<1>r. waited \in Nat /\ o2MinFilterRunMin \in Nat
  BY <1>i, OxygenConstants DEF OxygenRanges
<1>2. PumpHasReason' /\ PouredAndCounted' /\ DayIsKept' /\ NothingStored'
  BY <1>i, AccountStands
<1>3. OxygenFlags' /\ OxygenRanges'
  BY <1>1, <1>r, <1>i DEF OxygenFlags, OxygenRanges
<1>4. DoseAdvances'
  <2> SUFFICES ASSUME waited' # 0
               PROVE  /\ obstacle' = "None" /\ o2Pending' # 0
                      /\ stepped' => AfterStep'
                      /\ ~stepped' => BeforeStep'
    BY DEF DoseAdvances
  <2>1. /\ obstacle = "None" /\ o2Pending # 0
        /\ stepped => AfterStep
        /\ ~stepped => BeforeStep
    BY <1>1, <1>i DEF DoseAdvances
  <2>2. ~filtrationReady
    BY <1>r DEF filtrationReady
  <2>3. ASSUME AfterStep PROVE AfterStep'
    <3>1. ~wanted /\ asked /\ AwaitsFiltration
      BY <2>2, <2>3 DEF AfterStep
    <3>2. waited <= 1
      BY <3>1, <1>r DEF AwaitsFiltration
    <3> QED
      BY <3>1, <3>2, <1>1 DEF AfterStep, AwaitsFiltration
  <2>4. ASSUME BeforeStep PROVE BeforeStep'
    <3>1. ~pumpOn /\ AwaitsFiltration
      BY <2>2, <2>4 DEF BeforeStep
    <3>2. waited <= 1
      BY <3>1, <1>r DEF AwaitsFiltration
    <3>3. AwaitsFiltration' /\ AwaitsPump'
      BY <3>2, <1>1, <1>r DEF AwaitsFiltration, AwaitsPump
    <3> QED
      BY <3>1, <3>3, <1>1 DEF BeforeStep
  <2> QED
    BY <2>1, <2>3, <2>4, <1>1
<1> QED
  BY <1>2, <1>3, <1>4 DEF OxygenInv

(* What moves around the dose makes it wait anew, or helps it on.          *)
LEMMA SurroundingsKeep ==
    OxygenInv /\ (FiltrationTurns \/ FiltrationFollows \/ CircumstancesChange) => OxygenInv'
<1>1. ASSUME OxygenInv, waited' = 0, moved' \in BOOLEAN, obstacle' \in Obstacles,
             filtration' \in 0..(o2MinFilterRunMin + 1),
             UNCHANGED <<tick, stepped, pumpOn, cursors, o2LastProgress, protocol, asked, wanted,
                         stored, planned, poured, starts, doses, resets>>
      PROVE  OxygenInv'
  <2>1. UNCHANGED <<tick, stepped, pumpOn, o2Pending, o2WeeklyDone, o2LastDoseDay,
                    o2LastProgress, protocol, asked, wanted, stored, planned, poured, starts,
                    doses, resets>>
    BY <1>1 DEF cursors
  <2>i. /\ OxygenFlags /\ OxygenRanges /\ NothingStored
        /\ PumpHasReason /\ PouredAndCounted /\ DayIsKept
    BY <1>1 DEF OxygenInv
  <2>2. PumpHasReason' /\ PouredAndCounted' /\ DayIsKept' /\ NothingStored'
    BY <2>i, <1>1, AccountStands
  <2>3. OxygenFlags' /\ OxygenRanges' /\ DoseAdvances'
    BY <2>1, <1>1, <2>i DEF OxygenFlags, OxygenRanges, DoseAdvances
  <2> QED
    BY <2>2, <2>3 DEF OxygenInv
<1>2. ASSUME OxygenInv, FiltrationTurns PROVE OxygenInv'
  <2>1. CASE filtration = 0
    BY <2>1, <1>2, FiltrationStarts DEF FiltrationTurns
  <2>2. CASE filtration # 0
    <3>1. filtration' = 0 /\ 0 \in 0..(o2MinFilterRunMin + 1) /\ obstacle \in Obstacles
      BY <2>2, <1>2, OxygenConstants DEF FiltrationTurns, OxygenInv, OxygenFlags
    <3> QED
      BY <2>2, <3>1, <1>1, <1>2 DEF FiltrationTurns
  <2> QED
    BY <2>1, <2>2
<1>3. ASSUME OxygenInv, FiltrationFollows PROVE OxygenInv'
  BY <1>3, FiltrationStarts DEF FiltrationFollows, OxygenInv, OxygenFlags
<1>4. ASSUME OxygenInv, CircumstancesChange PROVE OxygenInv'
  BY <1>4, <1>1 DEF CircumstancesChange, OxygenInv, OxygenRanges
<1> QED
  BY <1>2, <1>3, <1>4

LEMMA OxygenTickKeeps == OxygenInv /\ OxygenTick => OxygenInv'
<1> SUFFICES ASSUME OxygenInv, OxygenTick PROVE OxygenInv'
  OBVIOUS
<1>1. /\ tick < MaxTicks /\ stepped /\ pumpOn = Driven
      /\ asked /\ obstacle # "Psi" => filtration > 0
      /\ tick' = tick + 1 /\ stepped' = FALSE /\ moved' = FALSE
      /\ filtration' = (IF filtration = 0 THEN 0
                        ELSE Smaller(filtration + 1, o2MinFilterRunMin + 1))
      /\ poured' = (IF pumpOn THEN poured + Flow ELSE poured)
      /\ doses' = (IF (tick + 1 + Shift) % DayLength = 0 THEN 0 ELSE doses)
      /\ waited' = (IF o2Pending > 0 /\ obstacle = "None" THEN waited + 1 ELSE 0)
      /\ UNCHANGED <<obstacle, pumpOn, o2Pending, o2WeeklyDone, o2LastDoseDay, o2LastProgress,
                     protocol, asked, wanted, stored, planned, starts, resets>>
  BY DEF OxygenTick, Settled, cursors
<1>i. /\ OxygenFlags /\ OxygenRanges /\ NothingStored
      /\ PumpHasReason /\ PouredAndCounted /\ DoseAdvances /\ DayIsKept
  BY DEF OxygenInv
<1>r. /\ poured \in Nat /\ planned \in Nat /\ o2Pending \in Nat /\ starts \in Nat
      /\ waited \in Nat /\ tick \in Nat /\ doses \in Nat /\ resets \in Nat
      /\ filtration \in 0..(o2MinFilterRunMin + 1)
      /\ Flow \in Nat \ {0} /\ o2MinFilterRunMin \in Nat /\ Shift \in Nat
      /\ DayLength \in Nat \ {0} /\ Epoch \in Nat \ {0} /\ MaxTicks \in Nat
  BY <1>i, OxygenConstants DEF OxygenRanges
<1>d. pumpOn => wanted /\ filtration > 0 /\ obstacle # "PumpBlocked"
  BY <1>1 DEF Driven
<1>f. /\ filtration' \in 0..(o2MinFilterRunMin + 1)
      /\ filtration # 0 => filtration' # 0
      /\ filtration = o2MinFilterRunMin + 1 => filtration' = filtration
      /\ filtration # 0 /\ filtration' <= o2MinFilterRunMin => filtration' = filtration + 1
  BY <1>1, <1>r DEF Smaller
<1>2. OxygenFlags'
  BY <1>1, <1>i DEF OxygenFlags
<1>3. OxygenRanges'
  <2>1. tick' \in 0..MaxTicks /\ tick' = tick + 1
    BY <1>1, <1>r
  <2>2. o2LastProgress' \in {Never} \cup 0..tick'
    BY <1>1, <1>r, <1>i DEF OxygenRanges
  <2>3. poured' \in Nat /\ doses' \in Nat /\ waited' \in Nat
    BY <1>1, <1>r
  <2> QED
    BY <2>1, <2>2, <2>3, <1>f, <1>1, <1>i DEF OxygenRanges
<1>4. NothingStored'
  BY <1>1, <1>i DEF NothingStored
<1>5. PumpHasReason'
  <2>1. o2LastProgress # Never => o2LastProgress = tick' - 1
    BY <1>1, <1>r, <1>i DEF PumpHasReason
  <2> QED
    BY <2>1, <1>d, <1>1, <1>i DEF PumpHasReason
<1>c. Counted' = Counted /\ Counted \in Nat
  BY <1>1, <1>i, <1>r DEF PouredAndCounted, Counted
<1>6. PouredAndCounted'
  <2>1. Restarts' = Restarts /\ Flow * starts \in Int /\ Flow * Restarts \in Int
    BY <1>1, <1>r DEF Restarts
  <2>2. /\ o2Pending <= planned /\ Uncounted + ToCome <= 2 * (Flow * starts)
        /\ ToCount <= Uncounted + Flow * Restarts
    BY <1>i DEF PouredAndCounted
  <2>3. ToCount = 0 /\ Uncounted \in Int
    BY <1>1, <1>r DEF ToCount, Uncounted, Counted
  <2>4. CASE pumpOn
    <3>1. wanted /\ Uncounted' = Uncounted + Flow
      <4>1. poured' = poured + Flow /\ Uncounted' = poured' - Counted
        BY <2>4, <1>1, <1>c DEF Uncounted
      <4> QED
        BY <4>1, <2>4, <1>d, <1>c, <1>r DEF Uncounted
    <3>2. CASE o2LastProgress = Never
      <4>1. ToCome = Flow + Flow /\ ToCome' = Flow /\ ToCount' = 0
        BY <3>1, <3>2, <2>4, <1>1 DEF ToCome, ToCount
      <4> QED
        BY <4>1, <3>1, <2>1, <2>2, <2>3, <1>1, <1>r DEF PouredAndCounted
    <3>3. CASE o2LastProgress # Never
      <4>1. ToCome = Flow /\ ToCome' = 0 /\ ToCount' = Flow
        BY <3>1, <3>3, <2>4, <1>1 DEF ToCome, ToCount
      <4> QED
        BY <4>1, <3>1, <2>1, <2>2, <2>3, <1>1, <1>r DEF PouredAndCounted
    <3> QED
      BY <3>2, <3>3
  <2>5. CASE ~pumpOn
    <3>1. ToCome = 0 /\ ToCome' = 0 /\ ToCount' = 0 /\ Uncounted' = Uncounted
      BY <2>5, <1>1, <1>c DEF ToCome, ToCount, Uncounted
    <3> QED
      BY <3>1, <2>1, <2>2, <2>3, <1>1, <1>r DEF PouredAndCounted
  <2> QED
    BY <2>4, <2>5
<1>7. DoseAdvances'
  <2> SUFFICES ASSUME waited' # 0
               PROVE  obstacle' = "None" /\ o2Pending' # 0 /\ BeforeStep'
    BY <1>1 DEF DoseAdvances
  <2>1. obstacle = "None" /\ o2Pending # 0 /\ waited' = waited + 1
    BY <1>1, <1>r
  <2>2. pumpOn' => filtration' # 0
    BY <1>1, <1>d, <1>f, <1>r
  <2>3. CASE waited = 0
    <3>1. waited' = 1
      BY <2>1, <2>3
    <3>2. AwaitsFiltration' /\ AwaitsPump' /\ AwaitsCount'
      BY <3>1, <1>r DEF AwaitsFiltration, AwaitsPump, AwaitsCount
    <3>3. CountsNext'
      <4> DEFINE n == 1 - o2MinFilterRunMin - 4
      <4>1. n \in Int /\ n <= 0
        BY <1>r
      <4>2. n = waited' - o2MinFilterRunMin - 4
        BY <3>1
      <4> HIDE DEF n
      <4>3. Flow * n \in Int /\ Flow * n <= 0
        BY <4>1, <1>r, ProductSign
      <4>4. Flow * n <= Counted'
        BY <4>3, <1>c
      <4>5. Flow * (waited' - o2MinFilterRunMin - 4) <= Counted'
        BY <4>4, <4>2
      <4> QED
        BY <4>5 DEF CountsNext
    <3> QED
      BY <3>2, <3>3, <2>1, <2>2, <1>1 DEF BeforeStep
  <2>4. CASE waited # 0
    <3>1. AfterStep
      BY <2>4, <1>1, <1>i DEF DoseAdvances
    <3>2. CASE ~wanted
      <4>1. ~pumpOn /\ asked /\ AwaitsFiltration
        BY <3>1, <3>2, <1>d DEF AfterStep
      <4>2. filtration # 0 /\ waited <= filtration
        BY <4>1, <2>1, <1>1, <1>r DEF AwaitsFiltration
      <4>3. ~filtrationReady' => AwaitsFiltration'
        <5> SUFFICES ASSUME ~filtrationReady' PROVE waited' <= filtration'
          BY DEF AwaitsFiltration
        <5>1. filtration' = filtration + 1
          BY <4>2, <1>f, <1>r DEF filtrationReady
        <5> QED
          BY <5>1, <4>2, <2>1, <1>r
      <4>4. AwaitsPump'
        BY <4>2, <2>1, <1>r DEF AwaitsPump
      <4> QED
        BY <4>1, <4>3, <4>4, <2>1, <1>1 DEF BeforeStep
    <3>3. CASE wanted
      <4>1. filtration = o2MinFilterRunMin + 1
        BY <3>1, <3>3, <1>r DEF AfterStep, filtrationReady
      <4>2. filtrationReady'
        BY <4>1, <1>f, <1>r DEF filtrationReady
      <4>3. pumpOn
        <5>1. Driven
          BY <4>1, <3>3, <2>1, <1>r DEF Driven
        <5> QED
          BY <5>1, <1>1
      <4>4. o2LastProgress = Never => AwaitsCount'
        BY <3>1, <3>3, <2>1, <1>r DEF AfterStep, AwaitsPump, AwaitsCount
      <4>5. o2LastProgress # Never => CountsNext'
        <5> SUFFICES ASSUME o2LastProgress # Never PROVE CountsNext'
          OBVIOUS
        <5>1. Flow * (waited - o2MinFilterRunMin - 3) <= Counted
          BY <3>1, <3>3 DEF AfterStep, Counts
        <5>2. waited' - o2MinFilterRunMin - 4 = waited - o2MinFilterRunMin - 3
          BY <2>1, <1>r
        <5>3. Flow * (waited' - o2MinFilterRunMin - 4) <= Counted'
          BY <5>1, <5>2, <1>c
        <5> QED
          BY <5>3 DEF CountsNext
      <4> QED
        BY <4>2, <4>3, <4>4, <4>5, <2>1, <2>2, <1>1 DEF BeforeStep
    <3> QED
      BY <3>2, <3>3
  <2> QED
    BY <2>3, <2>4
<1>8. DayIsKept'
  <2> DEFINE a == tick + Shift
  <2>1. a \in Nat /\ a + 1 = tick + 1 + Shift /\ a + 1 = tick' + Shift
    BY <1>1, <1>r
  <2>2. dayKey = Epoch + (a \div DayLength) /\ dayKey' = Epoch + ((a + 1) \div DayLength)
    BY <2>1 DEF dayKey
  <2>3. a \div DayLength \in Nat
    BY <2>1, <1>r, QuotientIsNat
  <2>4. (a + 1) \div DayLength =
            IF (a + 1) % DayLength = 0 THEN (a \div DayLength) + 1 ELSE a \div DayLength
    BY <2>1, <1>r, QuotientGrows
  <2>5. dayKey \in Nat /\ dayKey' = IF (a + 1) % DayLength = 0 THEN dayKey + 1 ELSE dayKey
    <3> DEFINE q == a \div DayLength
               k == (a + 1) % DayLength
               p == (a + 1) \div DayLength
    <3>1. q \in Nat /\ p = (IF k = 0 THEN q + 1 ELSE q) /\ dayKey = Epoch + q /\ dayKey' = Epoch + p
      BY <2>2, <2>3, <2>4
    <3> HIDE DEF q, k, p
    <3>2. dayKey \in Nat /\ dayKey' = IF k = 0 THEN dayKey + 1 ELSE dayKey
      BY <3>1, <1>r
    <3> QED
      BY <3>2 DEF k
  <2>6. doses' = IF (a + 1) % DayLength = 0 THEN 0 ELSE doses
    BY <2>1, <1>1
  <2>7. o2LastDoseDay \in Nat /\ o2LastDoseDay' = o2LastDoseDay /\ resets' = resets
        /\ o2Pending' = o2Pending
    BY <1>1, <1>i DEF OxygenRanges
  <2>8. CASE (a + 1) % DayLength = 0
    BY <2>5, <2>6, <2>7, <2>8, <1>r, <1>i DEF DayIsKept
  <2>9. CASE (a + 1) % DayLength # 0
    BY <2>5, <2>6, <2>7, <2>9, <1>r, <1>i DEF DayIsKept
  <2> QED
    BY <2>8, <2>9
<1> QED
  BY <1>2, <1>3, <1>4, <1>5, <1>6, <1>7, <1>8 DEF OxygenInv

LEMMA OxygenRestartKeeps == OxygenInv /\ OxygenRestart => OxygenInv'
<1> SUFFICES ASSUME OxygenInv, OxygenRestart PROVE OxygenInv'
  OBVIOUS
<1>i. OxygenRanges /\ NothingStored /\ DayIsKept
  BY DEF OxygenInv
<1>1. /\ stepped' = FALSE /\ moved' = TRUE /\ obstacle' = "Unsynced" /\ filtration' = 0
      /\ pumpOn' = FALSE /\ wanted' = FALSE /\ asked' = FALSE
      /\ o2Pending' = 0 /\ o2WeeklyDone' = 0 /\ o2LastDoseDay' = 0 /\ protocol' = "Idle"
      /\ o2LastProgress' = Never /\ planned' = 0 /\ poured' = 0 /\ starts' = 0 /\ waited' = 0
      /\ resets' = resets + 1 /\ UNCHANGED <<tick, stored, doses>>
  BY <1>i DEF OxygenRestart, NothingStored
<1>2. OxygenFlags'
  BY <1>1 DEF OxygenFlags, Obstacles
<1>3. OxygenRanges'
  <2>1. resets' \in Nat /\ 0 \in 0..(o2MinFilterRunMin + 1)
    BY <1>1, <1>i, OxygenConstants DEF OxygenRanges
  <2> QED
    BY <2>1, <1>1, <1>i DEF OxygenRanges
<1>4. NothingStored' /\ PumpHasReason' /\ DoseAdvances'
  BY <1>1, <1>i DEF NothingStored, PumpHasReason, DoseAdvances
<1>5. PouredAndCounted'
  <2>1. ToCome' = 0 /\ ToCount' = 0 /\ Restarts' = 0
    BY <1>1 DEF ToCome, ToCount, Restarts
  <2>2. Uncounted' = 0
    BY <1>1 DEF Uncounted, Counted
  <2>3. Flow * 0 = 0
    BY OxygenConstants
  <2> QED
    BY <2>1, <2>2, <2>3, <1>1 DEF PouredAndCounted
<1>6. DayIsKept'
  <2>1. dayKey' = dayKey /\ dayKey \in Nat \ {0}
    BY <1>1, <1>i, DayKeyIsNat DEF dayKey
  <2>2. doses \in Nat /\ resets \in Nat /\ doses <= 1 + resets
    BY <1>i DEF OxygenRanges, DayIsKept
  <2> QED
    BY <2>1, <2>2, <1>1 DEF DayIsKept
<1> QED
  BY <1>2, <1>3, <1>4, <1>5, <1>6 DEF OxygenInv

LEMMA OxygenInvNext == OxygenInv /\ [OxygenNext]_oxygenVars => OxygenInv'
<1>1. ASSUME OxygenInv, stepO2Protocol PROVE OxygenInv'
  BY <1>1, StandByKeeps, IdleKeeps, WaitKeeps, PourKeeps DEF stepO2Protocol
<1>2. ASSUME OxygenInv, UNCHANGED oxygenVars PROVE OxygenInv'
  <2>1. UNCHANGED <<tick, stepped, obstacle, moved, filtration, pumpOn, o2Pending, o2WeeklyDone,
                    o2LastDoseDay, o2LastProgress, protocol, asked, wanted, stored, planned,
                    poured, starts, doses, waited, resets>>
    BY <1>2 DEF oxygenVars, cursors
  <2>i. /\ OxygenFlags /\ OxygenRanges /\ NothingStored
        /\ PumpHasReason /\ PouredAndCounted /\ DoseAdvances /\ DayIsKept
    BY <1>2 DEF OxygenInv
  <2>2. PumpHasReason' /\ PouredAndCounted' /\ DayIsKept' /\ NothingStored'
    BY <2>i, <1>2, AccountStands DEF oxygenVars
  <2>3. OxygenFlags' /\ OxygenRanges'
    BY <2>1, <2>i DEF OxygenFlags, OxygenRanges
  <2>4. DoseAdvances'
    BY <2>1, <2>i DEF DoseAdvances, AfterStep, BeforeStep, AwaitsFiltration, AwaitsPump,
                      AwaitsCount, Counts, CountsNext, Counted, filtrationReady
  <2> QED
    BY <2>2, <2>3, <2>4 DEF OxygenInv
<1>3. OxygenOver => UNCHANGED oxygenVars
  BY DEF OxygenOver
<1> QED
  BY <1>1, <1>2, <1>3, PumpFollowsKeeps, SurroundingsKeep, OxygenTickKeeps, OxygenRestartKeeps
     DEF OxygenNext

LEMMA OxygenInvIsSound == OxygenInv => DosingSound
<1> SUFFICES ASSUME OxygenInv PROVE DosingSound
  OBVIOUS
<1>i. /\ OxygenFlags /\ OxygenRanges /\ NothingStored
      /\ PouredAndCounted /\ DoseAdvances /\ DayIsKept
  BY DEF OxygenInv
<1>r. /\ poured \in Nat /\ planned \in Nat /\ o2Pending \in Nat /\ starts \in Nat
      /\ waited \in Nat /\ filtration \in 0..(o2MinFilterRunMin + 1)
      /\ Flow \in Nat \ {0} /\ o2MinFilterRunMin \in Nat
  BY <1>i, OxygenConstants DEF OxygenRanges
<1>1. OxygenTypeOK
  <2>1. stored \in [pending : Nat, weeklyDone : Nat, lastDoseDay : Nat, protocol : {"Idle"}]
    BY <1>i DEF NothingStored
  <2>2. {stepped, moved, pumpOn, asked, wanted} \subseteq BOOLEAN
    BY <1>i DEF OxygenFlags
  <2>3. {o2Pending, o2WeeklyDone, o2LastDoseDay, planned, poured, starts, doses, waited,
         resets} \subseteq Nat
    BY <1>i DEF OxygenRanges
  <2> QED
    BY <2>1, <2>2, <2>3, <1>i DEF OxygenTypeOK, OxygenFlags, OxygenRanges
<1>2. DosePoured
  <2>1. ToCome >= 0 /\ ToCount >= 0 /\ ToCome \in Int /\ ToCount \in Int
    BY <1>r DEF ToCome, ToCount
  <2>2. /\ Uncounted \in Int /\ Restarts \in Nat
        /\ Flow * starts \in Int /\ Flow * Restarts \in Int
    BY <1>r DEF Uncounted, Counted, Restarts
  <2>3. Uncounted <= 2 * (Flow * starts) /\ -(Flow * Restarts) <= Uncounted
    BY <2>1, <2>2, <1>i DEF PouredAndCounted
  <2>4. 2 * starts * Flow = 2 * (Flow * starts) /\ Restarts * Flow = Flow * Restarts
    BY <2>2, <1>r
  <2>5. Uncounted \in -(Restarts * Flow)..(2 * starts * Flow)
    BY <2>2, <2>3, <2>4
  <2> QED
    BY <2>5 DEF DosePoured, Uncounted, Counted, Restarts
<1>3. DoseInTime
  <2> DEFINE q == planned \div Flow
             n == waited - o2MinFilterRunMin - 4
  <2>1. q \in Nat
    BY <1>r, QuotientIsNat
  <2>2. planned < Flow * (q + 1)
    <3>1. planned < (q + 1) * Flow
      BY <1>r, QuotientBelow
    <3> HIDE DEF q
    <3>2. (q + 1) * Flow = Flow * (q + 1)
      BY <2>1, <1>r
    <3> QED
      BY <3>1, <3>2
  <2>3. n \in Int /\ n + 1 \in Int /\ n + 1 = waited - o2MinFilterRunMin - 3
        /\ waited = o2MinFilterRunMin + 4 + n
    BY <1>r
  <2>4. Counted <= planned /\ Counted \in Int
    BY <1>r DEF Counted
  <2> HIDE DEF q, n
  <2>5. CountsNext => n <= q
    <3> SUFFICES ASSUME CountsNext PROVE n <= q
      OBVIOUS
    <3>1. Flow * n <= Counted
      BY DEF CountsNext, n
    <3>2. Flow * n \in Int /\ Flow * (q + 1) \in Int
      BY <2>1, <2>3, <1>r
    <3>3. Flow * n < Flow * (q + 1)
      BY <3>1, <3>2, <2>2, <2>4, <1>r
    <3>4. n < q + 1
      BY <3>3, <2>1, <2>3, <1>r, ProductOrder
    <3> QED
      BY <3>4, <2>1, <2>3
  <2>6. Counts => n <= q
    <3> SUFFICES ASSUME Counts PROVE n <= q
      OBVIOUS
    <3>1. Flow * (n + 1) <= Counted
      BY <2>3 DEF Counts
    <3>2. Flow * (n + 1) \in Int /\ Flow * (q + 1) \in Int
      BY <2>1, <2>3, <1>r
    <3>3. Flow * (n + 1) < Flow * (q + 1)
      BY <3>1, <3>2, <2>2, <2>4, <1>r
    <3>4. n + 1 < q + 1
      BY <3>3, <2>1, <2>3, <1>r, ProductOrder
    <3> QED
      BY <3>4, <2>1, <2>3
  <2>7. AwaitsFiltration \/ AwaitsPump \/ AwaitsCount => n <= 0
    BY <2>3, <1>r DEF AwaitsFiltration, AwaitsPump, AwaitsCount
  <2>8. n <= q
    <3>1. waited # 0 => AfterStep \/ BeforeStep
      BY <1>i DEF DoseAdvances
    <3>2. CASE waited = 0
      BY <3>2, <2>1, <2>3, <1>r
    <3>3. AfterStep => n <= q
      BY <2>6, <2>7, <2>1, <2>3 DEF AfterStep
    <3>4. BeforeStep => n <= q
      BY <2>5, <2>7, <2>1, <2>3 DEF BeforeStep
    <3> QED
      BY <3>1, <3>2, <3>3, <3>4
  <2>9. waited <= o2MinFilterRunMin + 4 + q
    BY <2>8, <2>1, <2>3, <1>r
  <2> QED
    BY <2>9 DEF DoseInTime, q
<1>4. OneDoseADay
  BY <1>i DEF DayIsKept, OneDoseADay
<1> QED
  BY <1>1, <1>2, <1>3, <1>4 DEF DosingSound

(* A dose is poured as it was planned, counted or not while the pump was   *)
(* stopped and started, within a time that is known, and once a day: for   *)
(* every calendar, volume, flow and delay.                                 *)
THEOREM DosingCorrect == OxygenSpec => []DosingSound
<1>1. OxygenInv /\ [OxygenNext]_oxygenVars => OxygenInv'
  BY OxygenInvNext
<1> QED
  BY <1>1, OxygenInvInit, OxygenInvIsSound, PTL DEF OxygenSpec

-----------------------------------------------------------------------------
(* Running time.                                                           *)
-----------------------------------------------------------------------------
Images == [count : [Counters -> Nat], key : [Periods -> Nat]]

PeriodFlags ==
    /\ synced \in BOOLEAN /\ actualOn \in BOOLEAN /\ reconcilePending \in BOOLEAN
    /\ dirty \in BOOLEAN /\ immediate \in BOOLEAN

PeriodRanges ==
    /\ now \in 0..MaxTime /\ lastTick \in Nat /\ (lastTick = now \/ lastTick + 1 = now)
    /\ resetPending \subseteq Periods /\ lastPersist \in 0..(PersistInterval + 1)
    /\ restarts \in Nat /\ failures \in Nat
    /\ ran \in [Counters -> Nat]

(* What the device has run since the last tick is yet to be counted.       *)
LiveIsTrue ==
    /\ count \in [Counters -> Nat] /\ key \in [Periods -> Nat]
    /\ \A c \in Counters : count[c] <= lastTick
    /\ count[Total] + delta <= ran[Total]
    /\ \A p \in Periods : /\ key[p] <= Current(p)
                          /\ key[p] = Current(p) => count[p] + delta <= ran[p] + 1

(* The counts that the store has, and those that it is about to have: of   *)
(* a period that is over at the latest when its successor begins.          *)
SavedIsTrue ==
    /\ saved \in Images
    /\ \A c \in Counters : saved.count[c] <= lastTick
    /\ saved.count[Total] <= ran[Total]
    /\ \A p \in Periods : /\ saved.key[p] <= Current(p)
                          /\ saved.key[p] = Current(p) => saved.count[p] <= ran[p] + 1

HandedIsTrue ==
    handed = <<>> \/
        /\ lastTick = now /\ dirty = FALSE
        /\ handed = <<[count |-> count, key |-> key]>>

(* What a restart would lose: what has run since the last save, of which   *)
(* the count of lastPersist is a bound while it does not saturate.         *)
Unsaved ==
    IF dirty /\ (lastPersist < PersistInterval \/ (lastPersist = PersistInterval /\ lastTick # now))
    THEN lastPersist ELSE delta

AtStake == IF handed = <<>> THEN Unsaved ELSE PersistInterval + 1

LossIsKnown ==
    /\ ran[Total] <= count[Total] + delta + Allowed
    /\ ran[Total] <= saved.count[Total] + Allowed + AtStake
    /\ lastTick # now => lastPersist # 0

(* The same of a period, but for what was counted as of another.  A count  *)
(* that is about to be set back has nothing else of the present period; so *)
(* has one whose period is over, in RAM or saved.                          *)
PeriodLoss(p) ==
    /\ now % PeriodLength[p] = 0 => ran[p] = 0
    /\ p \in resetPending => ran[p] <= delta
    /\ ran[p] <= count[p] + delta + Allowed + undated[p]
    /\ ran[p] <= saved.count[p] + Allowed + AtStake + undated[p]
    /\ key[p] # Current(p) => ran[p] <= Allowed + undated[p]
    /\ saved.key[p] # Current(p) => ran[p] <= Allowed + AtStake + undated[p]

PeriodLossIsKnown == undated \in [Periods -> Nat] /\ \A p \in Periods : PeriodLoss(p)

LimitIsKept == actualOn => count[Day] <= MaxUptimeDay

PeriodInv ==
    /\ PeriodFlags /\ PeriodRanges /\ LiveIsTrue /\ SavedIsTrue /\ HandedIsTrue /\ LossIsKnown

LEMMA PeriodConstants ==
    /\ PeriodLength \in [Periods -> Nat \ {0}] /\ Day \in Periods /\ Total \notin Periods
    /\ PersistInterval \in Nat /\ MaxTime \in Nat /\ MaxUptimeDay \in Nat
BY PeriodAssumption DEF Total

LEMMA QuotientAtMost == ASSUME NEW r \in Nat \ {0}, NEW a \in Nat PROVE a \div r <= a
OBVIOUS

LEMMA CurrentIs ==
    ASSUME PeriodRanges, NEW p \in Periods
    PROVE  /\ Current(p) \in Nat /\ Current(p) <= now
           /\ (now + 1) \div PeriodLength[p] \in {Current(p), Current(p) + 1}
<1>1. PeriodLength[p] \in Nat \ {0} /\ now \in Nat
  BY PeriodConstants DEF PeriodRanges
<1>2. now \div PeriodLength[p] \in Nat /\ now \div PeriodLength[p] <= now
  BY <1>1, QuotientIsNat, QuotientAtMost
<1>3. (now + 1) \div PeriodLength[p] \in {now \div PeriodLength[p], (now \div PeriodLength[p]) + 1}
  BY <1>1, QuotientGrows
<1> QED
  BY <1>2, <1>3 DEF Current

LEMMA DeltaIs ==
    ASSUME PeriodFlags, PeriodRanges
    PROVE  /\ delta \in {0, 1} /\ (lastTick = now => delta = 0) /\ (~actualOn => delta = 0)
           /\ lastTick + delta <= now
BY DEF PeriodFlags, PeriodRanges, delta

LEMMA AllowedIs ==
    ASSUME PeriodRanges
    PROVE  /\ Allowed \in Nat
           /\ \A n \in Nat : n = restarts + failures + 1 =>
                  n * (PersistInterval + 1) = Allowed + PersistInterval + 1
<1>1. restarts + failures \in Nat /\ PersistInterval + 1 \in Nat
  BY PeriodConstants DEF PeriodRanges
<1>2. \A f, n \in Nat : n * f \in Nat /\ (n + 1) * f = n * f + f
  OBVIOUS
<1>3. Allowed \in Nat
  BY <1>1, <1>2 DEF Allowed
<1>4. (restarts + failures + 1) * (PersistInterval + 1) = Allowed + (PersistInterval + 1)
  BY <1>1, <1>2 DEF Allowed
<1>5. Allowed + (PersistInterval + 1) = Allowed + PersistInterval + 1
  BY <1>3, PeriodConstants
<1> QED
  BY <1>3, <1>4, <1>5

LEMMA PeriodInvInit == PeriodInit => PeriodInv
<1> SUFFICES ASSUME PeriodInit PROVE PeriodInv
  OBVIOUS
<1>1. /\ now = 0 /\ lastTick = 0 /\ synced = TRUE /\ actualOn = FALSE
      /\ count = [c \in Counters |-> 0] /\ key = [p \in Periods |-> 0]
      /\ resetPending = {} /\ reconcilePending = FALSE /\ dirty = FALSE /\ immediate = FALSE
      /\ lastPersist = 0 /\ handed = <<>>
      /\ saved = [count |-> [c \in Counters |-> 0], key |-> [p \in Periods |-> 0]]
      /\ ran = [c \in Counters |-> 0] /\ restarts = 0 /\ failures = 0
  BY DEF PeriodInit, NoTime
<1>2. PeriodFlags /\ PeriodRanges
  <2>1. PeriodFlags
    BY <1>1 DEF PeriodFlags
  <2>2. 0 \in 0..MaxTime /\ 0 \in 0..(PersistInterval + 1)
    BY PeriodConstants
  <2>3. ran \in [Counters -> Nat]
    BY <1>1
  <2>4. PeriodRanges
    BY <1>1, <2>2, <2>3 DEF PeriodRanges
  <2> QED
    BY <2>1, <2>4
<1>3. delta = 0 /\ Total \in Counters /\ Periods \subseteq Counters
  BY <1>1 DEF delta, Counters
<1>4. \A p \in Periods : Current(p) \in Nat
  BY <1>2, CurrentIs
<1>5. LiveIsTrue /\ SavedIsTrue /\ HandedIsTrue
  BY <1>1, <1>3, <1>4 DEF LiveIsTrue, SavedIsTrue, HandedIsTrue, Images
<1>6. LossIsKnown
  <2>1. Unsaved = 0 /\ Allowed \in Nat
    BY <1>1, <1>2, <1>3, AllowedIs DEF Unsaved
  <2> QED
    BY <2>1, <1>1, <1>3 DEF LossIsKnown, AtStake
<1> QED
  BY <1>2, <1>5, <1>6 DEF PeriodInv

(* Sums of what is allowed and what is at stake.                           *)
LEMMA SumGrows ==
    ASSUME NEW a \in Nat, NEW b \in Nat, NEW c \in Nat, NEW d \in Nat, NEW i \in Nat,
           (a <= c /\ b <= d) \/ (c = a + i + 1 /\ b <= i + 1)
    PROVE  a + b <= c + d
OBVIOUS

LEMMA LossStands ==
    ASSUME NEW r \in Nat, NEW n \in Nat, NEW a \in Nat, NEW b \in Nat, NEW c \in Nat,
           NEW d \in Nat, NEW u \in Nat, r <= n + a + b + u, a + b <= c + d
    PROVE  r <= n + c + d + u
OBVIOUS

LEMMA StaleStands ==
    ASSUME NEW r \in Nat, NEW a \in Nat, NEW b \in Nat, NEW c \in Nat,
           NEW d \in Nat, NEW u \in Nat, r <= a + b + u, a + b <= c + d
    PROVE  r <= c + d + u
OBVIOUS

LEMMA LossGrows ==
    ASSUME NEW r \in Nat, NEW n \in Nat, NEW a \in Nat, NEW b \in Nat, NEW d \in Nat,
           NEW u \in Nat, NEW v \in Nat, NEW x \in {0, 1}, r <= n + a + b + u, b + x <= d, u <= v
    PROVE  r + x <= n + a + d + v
OBVIOUS

LEMMA StaleGrows ==
    ASSUME NEW r \in Nat, NEW a \in Nat, NEW b \in Nat, NEW d \in Nat,
           NEW u \in Nat, NEW v \in Nat, NEW x \in {0, 1}, r <= a + b + u, b + x <= d, u <= v
    PROVE  r + x <= a + d + v
OBVIOUS

(* What runs while time passes is at stake.                                *)
LEMMA TimeStakes ==
    ASSUME PeriodInv, TimePasses
    PROVE  /\ AtStake = Unsaved /\ AtStake' = Unsaved'
           /\ AtStake \in Nat /\ AtStake' \in Nat /\ AtStake + delta' <= AtStake'
<1>1. /\ now = lastTick /\ handed = <<>> /\ now' = now + 1
      /\ lastPersist' = (IF lastPersist > PersistInterval THEN lastPersist ELSE lastPersist + 1)
      /\ UNCHANGED <<lastTick, actualOn, dirty, handed>>
  BY DEF TimePasses
<1>i. PeriodFlags /\ PeriodRanges
  BY DEF PeriodInv
<1>t. PersistInterval \in Nat /\ lastPersist \in 0..(PersistInterval + 1)
  BY <1>i, PeriodConstants DEF PeriodRanges
<1>d. delta = 0 /\ delta' = (IF actualOn THEN 1 ELSE 0)
  <2>1. \A n \in Nat : (n + 1) - n = 1
    OBVIOUS
  <2> QED
    BY <1>1, <1>i, <2>1, DeltaIs DEF delta, PeriodRanges
<1>2. lastPersist' \in Nat /\ lastPersist' # 0 /\ lastTick' # now'
  BY <1>1, <1>t, <1>i DEF PeriodRanges
<1>3. Unsaved \in Nat /\ Unsaved' \in Nat /\ Unsaved + delta' <= Unsaved'
  <2>1. CASE dirty /\ lastPersist < PersistInterval
    BY <2>1, <1>1, <1>d, <1>t, <1>2 DEF Unsaved
  <2>2. CASE ~(dirty /\ lastPersist < PersistInterval)
    <3>1. Unsaved = 0
      BY <2>2, <1>1, <1>d DEF Unsaved
    <3>2. dirty' => lastPersist' > PersistInterval
      BY <2>2, <1>1, <1>t
    <3>3. Unsaved' = delta'
      BY <3>2, <1>t, <1>2 DEF Unsaved
    <3> QED
      BY <3>1, <3>3, <1>d
  <2> QED
    BY <2>1, <2>2
<1>4. AtStake = Unsaved /\ AtStake' = Unsaved'
  BY <1>1 DEF AtStake
<1> QED
  BY <1>3, <1>4

LEMMA TimePassesKeeps == PeriodInv /\ TimePasses => PeriodInv'
<1> SUFFICES ASSUME PeriodInv, TimePasses PROVE PeriodInv'
  OBVIOUS
<1>1. /\ now = lastTick /\ handed = <<>> /\ now < MaxTime /\ now' = now + 1
      /\ ran' = [c \in Counters |->
                   IF c # Total /\ (now + 1) \div PeriodLength[c] # Current(c) THEN 0
                   ELSE IF actualOn THEN ran[c] + 1 ELSE ran[c]]
      /\ lastPersist' = (IF lastPersist > PersistInterval THEN lastPersist ELSE lastPersist + 1)
      /\ UNCHANGED <<lastTick, synced, actualOn, count, key, resetPending, reconcilePending,
                     dirty, immediate, handed, saved, restarts, failures>>
  BY DEF TimePasses
<1>i. PeriodFlags /\ PeriodRanges /\ LiveIsTrue /\ SavedIsTrue /\ HandedIsTrue /\ LossIsKnown
  BY DEF PeriodInv
<1>t. Total \in Counters /\ Periods \subseteq Counters /\ PersistInterval \in Nat
      /\ \A p \in Periods : p # Total
  BY PeriodConstants DEF Counters
<1>d. delta = 0 /\ delta' = (IF actualOn THEN 1 ELSE 0)
  <2>1. \A n \in Nat : (n + 1) - n = 1
    OBVIOUS
  <2> QED
    BY <1>1, <1>i, <2>1, DeltaIs DEF delta, PeriodRanges
<1>2. PeriodFlags'
  BY <1>1, <1>i DEF PeriodFlags
<1>3. PeriodRanges'
  <2>1. now' \in 0..MaxTime /\ lastTick' \in Nat /\ lastTick' + 1 = now'
    BY <1>1, <1>i, PeriodConstants DEF PeriodRanges
  <2>2. lastPersist' \in 0..(PersistInterval + 1)
    BY <1>1, <1>t, <1>i DEF PeriodRanges
  <2>3. ran' \in [Counters -> Nat]
    BY <1>1, <1>i DEF PeriodRanges
  <2> QED
    BY <2>1, <2>2, <2>3, <1>1, <1>i DEF PeriodRanges
<1>4. \A p \in Periods : /\ Current(p) \in Nat /\ Current(p)' \in {Current(p), Current(p) + 1}
                         /\ Current(p)' = Current(p) => ran'[p] = ran[p] + delta'
  <2> SUFFICES ASSUME NEW p \in Periods
               PROVE  /\ Current(p) \in Nat /\ Current(p)' \in {Current(p), Current(p) + 1}
                      /\ Current(p)' = Current(p) => ran'[p] = ran[p] + delta'
    OBVIOUS
  <2>1. Current(p)' = (now + 1) \div PeriodLength[p]
    BY <1>1 DEF Current
  <2>2. ran[p] \in Nat
    BY <1>t, <1>i DEF PeriodRanges
  <2> QED
    BY <2>1, <2>2, <1>1, <1>t, <1>d, <1>i, CurrentIs
<1>5. ran'[Total] = ran[Total] + delta'
  <2>1. ran[Total] \in Nat
    BY <1>t, <1>i DEF PeriodRanges
  <2> QED
    BY <2>1, <1>1, <1>t, <1>d
<1>6. LiveIsTrue'
  <2>1. \A c \in Counters : count'[c] <= lastTick'
    BY <1>1, <1>i DEF LiveIsTrue
  <2>2. count'[Total] + delta' <= ran'[Total]
    BY <1>1, <1>5, <1>d, <1>t, <1>i DEF LiveIsTrue, PeriodRanges
  <2>3. ASSUME NEW p \in Periods
        PROVE  /\ key'[p] <= Current(p)'
               /\ key'[p] = Current(p)' => count'[p] + delta' <= ran'[p] + 1
    <3>1. /\ key[p] \in Nat /\ key[p] <= Current(p) /\ count[p] \in Nat /\ ran[p] \in Nat
          /\ key[p] = Current(p) => count[p] + delta <= ran[p] + 1
      BY <1>t, <1>i DEF LiveIsTrue, PeriodRanges
    <3>2. /\ Current(p) \in Nat /\ Current(p)' \in {Current(p), Current(p) + 1}
          /\ Current(p)' = Current(p) => ran'[p] = ran[p] + delta'
      BY <1>4
    <3> QED
      BY <3>1, <3>2, <1>1, <1>d
  <2> QED
    BY <2>1, <2>2, <2>3, <1>1, <1>i DEF LiveIsTrue
<1>7. SavedIsTrue'
  <2>1. \A c \in Counters : saved'.count[c] <= lastTick'
    BY <1>1, <1>i DEF SavedIsTrue
  <2>2. saved'.count[Total] <= ran'[Total]
    BY <1>1, <1>5, <1>d, <1>t, <1>i DEF SavedIsTrue, PeriodRanges, Images
  <2>3. ASSUME NEW p \in Periods
        PROVE  /\ saved'.key[p] <= Current(p)'
               /\ saved'.key[p] = Current(p)' => saved'.count[p] <= ran'[p] + 1
    <3>1. /\ saved.key[p] \in Nat /\ saved.key[p] <= Current(p)
          /\ saved.count[p] \in Nat /\ ran[p] \in Nat
          /\ saved.key[p] = Current(p) => saved.count[p] <= ran[p] + 1
      BY <1>t, <1>i DEF SavedIsTrue, PeriodRanges, Images
    <3>2. /\ Current(p) \in Nat /\ Current(p)' \in {Current(p), Current(p) + 1}
          /\ Current(p)' = Current(p) => ran'[p] = ran[p] + delta'
      BY <1>4
    <3> QED
      BY <3>1, <3>2, <1>1, <1>d
  <2> QED
    BY <2>1, <2>2, <2>3, <1>1, <1>i DEF SavedIsTrue
<1>8. HandedIsTrue'
  BY <1>1 DEF HandedIsTrue
<1>9. LossIsKnown'
  <2>1. Allowed' = Allowed /\ Allowed \in Nat
    BY <1>1, <1>i, AllowedIs DEF Allowed
  <2>2. count[Total] \in Nat /\ ran[Total] \in Nat /\ saved.count[Total] \in Nat
    BY <1>t, <1>i DEF LiveIsTrue, SavedIsTrue, PeriodRanges, Images
  <2>3. /\ ran[Total] <= count[Total] + Allowed
        /\ ran[Total] <= saved.count[Total] + Allowed + Unsaved
    BY <1>1, <1>d, <2>1, <2>2, <1>i DEF LossIsKnown, AtStake
  <2>4. lastPersist' # 0 /\ lastTick' # now'
    BY <1>1, <1>t, <1>i DEF PeriodRanges
  <2>5. Unsaved \in Nat /\ Unsaved' \in Nat /\ Unsaved + delta' <= Unsaved'
    BY TimeStakes
  <2>6. ran'[Total] <= count'[Total] + delta' + Allowed'
    BY <2>1, <2>2, <2>3, <1>5, <1>1, <1>d
  <2>7. ran'[Total] <= saved'.count[Total] + Allowed' + Unsaved'
    BY <2>1, <2>2, <2>3, <2>5, <1>5, <1>1, <1>d
  <2> QED
    BY <2>4, <2>6, <2>7, <1>1 DEF LossIsKnown, AtStake
<1> QED
  BY <1>2, <1>3, <1>6, <1>7, <1>8, <1>9 DEF PeriodInv

(* Steps that move neither time nor counts.                                *)
LEMMA CountsStand ==
    ASSUME PeriodInv,
           UNCHANGED <<now, lastTick, actualOn, count, key, dirty, lastPersist, handed, saved, ran,
                       restarts>>,
           immediate' = immediate, synced' \in BOOLEAN, reconcilePending' \in BOOLEAN,
           resetPending' \subseteq Periods, failures' \in {failures, failures + 1}
    PROVE  PeriodInv'
<1>i. PeriodFlags /\ PeriodRanges /\ LiveIsTrue /\ SavedIsTrue /\ HandedIsTrue /\ LossIsKnown
  BY DEF PeriodInv
<1>1. PeriodFlags'
  BY <1>i DEF PeriodFlags
<1>2. PeriodRanges'
  <2>1. failures' \in Nat
    BY <1>i DEF PeriodRanges
  <2> QED
    BY <2>1, <1>i DEF PeriodRanges
<1>3. delta' = delta
  BY DEF delta
<1>4. LiveIsTrue' /\ SavedIsTrue' /\ HandedIsTrue'
  BY <1>3, <1>i DEF LiveIsTrue, SavedIsTrue, HandedIsTrue, Current
<1>5. Unsaved' = Unsaved
  BY <1>3 DEF Unsaved
<1>6. LossIsKnown'
  <2>1. Allowed \in Nat /\ Allowed' \in Nat /\ Allowed <= Allowed'
    <3>1. Allowed \in Nat
      BY <1>i, AllowedIs
    <3>2. CASE failures' = failures
      BY <3>1, <3>2 DEF Allowed
    <3>3. CASE failures' = failures + 1
      <4>1. restarts' + failures' \in Nat /\ restarts' + failures' = restarts + failures + 1
        BY <3>3, <1>i DEF PeriodRanges
      <4>2. (restarts' + failures') * (PersistInterval + 1) = Allowed + PersistInterval + 1
        BY <4>1, <1>i, AllowedIs
      <4> QED
        BY <4>2, <3>1, PeriodConstants DEF Allowed
    <3> QED
      BY <3>2, <3>3
  <2>2. count[Total] \in Nat /\ ran[Total] \in Nat /\ saved.count[Total] \in Nat
        /\ delta \in Nat
    BY <1>i, DeltaIs DEF LiveIsTrue, SavedIsTrue, PeriodRanges, Images, Counters
  <2>3. Unsaved \in Nat /\ PersistInterval + 1 \in Nat
    BY <2>2, <1>i, PeriodConstants DEF Unsaved, PeriodRanges
  <2>4. AtStake \in Nat /\ AtStake' = AtStake
    BY <2>3, <1>5 DEF AtStake
  <2>5. ran'[Total] <= count'[Total] + delta' + Allowed'
    BY <2>1, <2>2, <1>3, <1>i DEF LossIsKnown
  <2>6. ran'[Total] <= saved'.count[Total] + Allowed' + AtStake'
    BY <2>1, <2>2, <2>4, <1>i DEF LossIsKnown
  <2> QED
    BY <2>5, <2>6, <1>i DEF LossIsKnown
<1> QED
  BY <1>1, <1>2, <1>4, <1>6 DEF PeriodInv

LEMMA NewsKeep ==
    PeriodInv /\ (requestPeriodReconcile \/ (\E p \in Periods : PeriodStarts(p))) => PeriodInv'
<1>1. ASSUME PeriodInv, requestPeriodReconcile PROVE PeriodInv'
  <2>1. resetPending \subseteq Periods
    BY <1>1 DEF PeriodInv, PeriodRanges
  <2> QED
    BY <2>1, <1>1, CountsStand DEF requestPeriodReconcile
<1>2. ASSUME PeriodInv, NEW p \in Periods, PeriodStarts(p) PROVE PeriodInv'
  <2>1. resetPending' \subseteq Periods /\ synced \in BOOLEAN /\ reconcilePending \in BOOLEAN
    BY <1>2 DEF PeriodStarts, PeriodInv, PeriodRanges, PeriodFlags
  <2> QED
    BY <2>1, <1>2, CountsStand DEF PeriodStarts
<1> QED
  BY <1>1, <1>2

(* The step of the device: what it counts, and for which period.           *)
LEMMA TickCounts ==
    ASSUME PeriodInv, lastTick < now, lastTick' = now, now' = now, ran' = ran,
           count' = AfterTick, saved' = saved,
           key' = [p \in Periods |-> IF p \in Known THEN Current(p) ELSE key[p]]
    PROVE  /\ LiveIsTrue' /\ SavedIsTrue' /\ delta' = 0
           /\ count'[Total] = count[Total] + delta
<1>i. PeriodFlags /\ PeriodRanges /\ LiveIsTrue /\ SavedIsTrue
  BY DEF PeriodInv
<1>t. Total \in Counters /\ Periods \subseteq Counters /\ Total \notin Periods
  BY PeriodConstants DEF Counters
<1>d. delta \in {0, 1} /\ lastTick + delta <= now /\ lastTick \in Nat /\ now \in Nat
  BY <1>i, DeltaIs DEF PeriodRanges
<1>0. delta' = 0
  BY <1>d DEF delta
<1>o. Outdated \subseteq Periods
  BY <1>i DEF Outdated, PeriodRanges
<1>c. \A p \in Periods : Current(p) \in Nat /\ Current(p)' = Current(p)
  BY <1>i, CurrentIs DEF Current
<1>1. count' = [c \in Counters |-> (IF c \in Outdated THEN 0 ELSE count[c]) + delta]
  BY DEF AfterTick, AfterResets
<1>2. \A c \in Counters : count'[c] \in Nat /\ count'[c] <= lastTick'
  BY <1>1, <1>d, <1>i DEF LiveIsTrue
<1>3. count'[Total] = count[Total] + delta
  BY <1>1, <1>t, <1>o
<1>4. count'[Total] + delta' <= ran'[Total]
  BY <1>0, <1>2, <1>3, <1>t, <1>i DEF LiveIsTrue
<1>5. ASSUME NEW p \in Periods
      PROVE  /\ key'[p] \in Nat /\ key'[p] <= Current(p)'
             /\ key'[p] = Current(p)' => count'[p] + delta' <= ran'[p] + 1
  <2>1. /\ key[p] \in Nat /\ key[p] <= Current(p) /\ count[p] \in Nat /\ ran[p] \in Nat
        /\ key[p] = Current(p) => count[p] + delta <= ran[p] + 1
    BY <1>t, <1>i DEF LiveIsTrue, PeriodRanges
  <2>2. key'[p] = IF p \in Known THEN Current(p) ELSE key[p]
    OBVIOUS
  <2>3. count'[p] = (IF p \in Outdated THEN 0 ELSE count[p]) + delta
    BY <1>1, <1>t
  <2>4. CASE p \in Outdated
    BY <2>1, <2>2, <2>3, <2>4, <1>0, <1>c, <1>d
  <2>5. CASE p \notin Outdated
    <3>1. p \in Known => key[p] = Current(p)
      BY <2>5 DEF Known, Outdated
    <3> QED
      BY <3>1, <2>1, <2>2, <2>3, <2>5, <1>0, <1>c, <1>d
  <2> QED
    BY <2>4, <2>5
<1>6. count' \in [Counters -> Nat] /\ key' \in [Periods -> Nat]
  BY <1>1, <1>2, <1>5
<1>7. LiveIsTrue'
  BY <1>2, <1>4, <1>5, <1>6 DEF LiveIsTrue
<1>8. SavedIsTrue'
  <2>1. \A c \in Counters : saved.count[c] \in Nat /\ saved.count[c] <= now
    BY <1>d, <1>i DEF SavedIsTrue, Images
  <2> QED
    BY <2>1, <1>c, <1>i DEF SavedIsTrue
<1> QED
  BY <1>0, <1>3, <1>7, <1>8

(* A tick that leaves the counts unsaved has had its write refused, or has *)
(* not run long since the last one.                                        *)
LEMMA TickStakes ==
    ASSUME PeriodInv, NEW desired \in BOOLEAN, NEW full \in BOOLEAN, tickDevices(desired, full)
    PROVE  /\ Allowed \in Nat /\ Allowed' \in Nat /\ Allowed <= Allowed'
           /\ AtStake \in Nat /\ AtStake' \in Nat /\ Allowed + AtStake <= Allowed' + AtStake'
<1>i. PeriodFlags /\ PeriodRanges /\ HandedIsTrue /\ LossIsKnown
  BY DEF PeriodInv
<1> DEFINE runs == desired /\ ~maxUptimeReached
<1>1. /\ lastTick < now /\ failures' = (IF full THEN failures + 1 ELSE failures)
      /\ dirty' = StillDirty(runs, full) /\ lastTick' = now /\ UNCHANGED <<now, restarts>>
      /\ IF ShouldPersist(runs) THEN persistMetrics(full) ELSE UNCHANGED <<handed, lastPersist>>
  BY DEF tickDevices
<1> HIDE DEF runs
<1>h. handed = <<>> /\ lastTick # now
  BY <1>1, <1>i DEF HandedIsTrue, PeriodRanges
<1>t. /\ delta \in {0, 1} /\ (~actualOn => delta = 0)
      /\ PersistInterval \in Nat /\ lastPersist \in Nat /\ lastPersist # 0
  BY <1>h, <1>i, PeriodConstants, DeltaIs DEF LossIsKnown, PeriodRanges
<1>d. delta' = 0
  <2>1. now \in Nat
    BY <1>i DEF PeriodRanges
  <2> QED
    BY <2>1, <1>1 DEF delta
<1>p. lastPersist' \in Nat
  BY <1>1, <1>t DEF persistMetrics
<1>a. /\ Allowed \in Nat /\ Allowed' \in Nat /\ Allowed <= Allowed'
      /\ full => Allowed' = Allowed + PersistInterval + 1
  <2>1. Allowed \in Nat
    BY <1>i, AllowedIs
  <2>2. CASE ~full
    BY <2>1, <2>2, <1>1 DEF Allowed
  <2>3. CASE full
    <3>1. restarts' + failures' \in Nat /\ restarts' + failures' = restarts + failures + 1
      BY <2>3, <1>1, <1>i DEF PeriodRanges
    <3>2. (restarts' + failures') * (PersistInterval + 1) = Allowed + PersistInterval + 1
      BY <3>1, <1>i, AllowedIs
    <3> QED
      BY <3>2, <2>1, PeriodConstants DEF Allowed
  <2> QED
    BY <2>2, <2>3
<1>u. Unsaved \in Nat /\ Unsaved <= PersistInterval + 1 /\ AtStake = Unsaved
  BY <1>t, <1>h DEF Unsaved, AtStake
<1>n. AtStake \in Nat /\ AtStake <= PersistInterval + 1
  BY <1>u
<1>2. AtStake' \in Nat /\ Allowed + AtStake <= Allowed' + AtStake'
  <2>1. CASE full
    <3>1. handed' = <<>>
      BY <2>1, <1>1, <1>h DEF persistMetrics
    <3>2. Unsaved' \in Nat
      BY <1>d, <1>p DEF Unsaved
    <3>3. AtStake' = Unsaved'
      BY <3>1 DEF AtStake
    <3> QED
      BY <3>2, <3>3, <2>1, <1>a, <1>n, <1>t, SumGrows
  <2>2. CASE ~full /\ ShouldPersist(runs)
    <3>1. handed' = Append(handed, Image)
      BY <2>2, <1>1 DEF persistMetrics
    <3>2. handed' # <<>>
      BY <3>1, <1>h
    <3>3. AtStake' = PersistInterval + 1
      BY <3>2 DEF AtStake
    <3>4. AtStake' \in Nat /\ AtStake <= AtStake'
      BY <3>3, <1>n, <1>t
    <3> QED
      BY <3>4, <1>a, <1>n, <1>t, SumGrows
  <2>3. CASE ~full /\ ~ShouldPersist(runs)
    <3>1. handed' = <<>> /\ lastPersist' = lastPersist
      BY <2>3, <1>1, <1>h
    <3>2. dirty' <=> IsDirty
      BY <2>3, <1>1 DEF StillDirty
    <3>3. CASE IsDirty
      <4>1. lastPersist < PersistInterval
        BY <3>3, <2>3, <1>t DEF ShouldPersist
      <4>2. Unsaved' = lastPersist
        BY <4>1, <3>1, <3>2, <3>3 DEF Unsaved
      <4>3. Unsaved <= lastPersist
        BY <4>1, <1>t DEF Unsaved
      <4>4. AtStake' = lastPersist
        BY <4>2, <3>1 DEF AtStake
      <4>5. AtStake' \in Nat /\ AtStake <= AtStake'
        BY <4>3, <4>4, <1>u, <1>t
      <4> QED
        BY <4>5, <1>a, <1>n, <1>t, SumGrows
    <3>4. CASE ~IsDirty
      <4>1. ~dirty /\ delta = 0
        BY <3>4, <1>t DEF IsDirty
      <4>2. Unsaved = 0
        BY <4>1 DEF Unsaved
      <4>3. Unsaved' = 0
        BY <3>2, <3>4, <1>d DEF Unsaved
      <4>4. AtStake' = 0
        BY <4>3, <3>1 DEF AtStake
      <4>5. AtStake' \in Nat /\ AtStake <= AtStake'
        BY <4>2, <4>4, <1>u
      <4> QED
        BY <4>5, <1>a, <1>n, <1>t, SumGrows
    <3> QED
      BY <3>3, <3>4
  <2> QED
    BY <2>1, <2>2, <2>3
<1> QED
  BY <1>2, <1>a, <1>n

LEMMA TickKeeps ==
    ASSUME PeriodInv, NEW desired \in BOOLEAN, NEW full \in BOOLEAN, tickDevices(desired, full)
    PROVE  PeriodInv'
<1>i. PeriodFlags /\ PeriodRanges /\ LiveIsTrue /\ SavedIsTrue /\ HandedIsTrue /\ LossIsKnown
  BY DEF PeriodInv
<1> DEFINE runs == desired /\ ~maxUptimeReached
<1>1. /\ lastTick < now /\ failures' = (IF full THEN failures + 1 ELSE failures)
      /\ actualOn' = runs /\ dirty' = StillDirty(runs, full)
      /\ immediate' = ((immediate \/ Outdated # {} \/ Stops(runs)) /\ StillDirty(runs, full))
      /\ count' = AfterTick
      /\ key' = [p \in Periods |-> IF p \in Known THEN Current(p) ELSE key[p]]
      /\ IF ShouldPersist(runs) THEN persistMetrics(full) ELSE UNCHANGED <<handed, lastPersist>>
      /\ lastTick' = now
      /\ resetPending' = {} /\ reconcilePending' = (reconcilePending /\ ~synced)
      /\ UNCHANGED <<now, synced, saved, ran, restarts>>
  BY DEF tickDevices
<1>b. runs \in BOOLEAN
  OBVIOUS
<1> HIDE DEF runs
<1>2. PeriodFlags'
  <2>1. StillDirty(runs, full) \in BOOLEAN
    BY DEF StillDirty
  <2>2. reconcilePending' \in BOOLEAN /\ immediate' \in BOOLEAN
    BY <2>1, <1>1
  <2> QED
    BY <2>1, <2>2, <1>1, <1>b, <1>i DEF PeriodFlags
<1>3. PeriodRanges'
  <2>1. lastPersist' \in 0..(PersistInterval + 1)
    BY <1>1, <1>i, PeriodConstants DEF persistMetrics, PeriodRanges
  <2>2. failures' \in Nat /\ now \in Nat
    BY <1>1, <1>i DEF PeriodRanges
  <2> QED
    BY <2>1, <2>2, <1>1, <1>i DEF PeriodRanges
<1>4. /\ LiveIsTrue' /\ SavedIsTrue' /\ delta' = 0
      /\ count'[Total] = count[Total] + delta
  BY <1>1, TickCounts
<1>h. handed = <<>> /\ lastTick # now
  BY <1>1, <1>i DEF HandedIsTrue, PeriodRanges
<1>5. HandedIsTrue'
  <2>1. CASE ShouldPersist(runs) /\ ~full
    <3>1. handed' = Append(handed, Image)
      BY <2>1, <1>1 DEF persistMetrics
    <3>2. handed' = <<[count |-> count', key |-> key']>>
      BY <3>1, <1>h DEF Image
    <3>3. ~dirty' /\ dirty' \in BOOLEAN
      BY <2>1, <1>1 DEF StillDirty
    <3> QED
      BY <3>2, <3>3, <1>1 DEF HandedIsTrue
  <2>2. CASE ~(ShouldPersist(runs) /\ ~full)
    <3>1. handed' = handed
      BY <2>2, <1>1 DEF persistMetrics
    <3> QED
      BY <3>1, <1>h DEF HandedIsTrue
  <2> QED
    BY <2>1, <2>2
<1>a. /\ Allowed \in Nat /\ Allowed' \in Nat /\ Allowed <= Allowed'
      /\ AtStake \in Nat /\ AtStake' \in Nat /\ Allowed + AtStake <= Allowed' + AtStake'
  BY TickStakes
<1>t. /\ count[Total] \in Nat /\ ran[Total] \in Nat /\ saved.count[Total] \in Nat
      /\ delta \in {0, 1}
  BY <1>i, DeltaIs DEF LiveIsTrue, SavedIsTrue, PeriodRanges, Images, Counters
<1>l. /\ ran[Total] <= count[Total] + delta + Allowed
      /\ ran[Total] <= saved.count[Total] + Allowed + AtStake
  BY <1>i DEF LossIsKnown
<1>6. ran'[Total] <= count'[Total] + delta' + Allowed'
  BY <1>1, <1>4, <1>a, <1>t, <1>l
<1>7. ran'[Total] <= saved'.count[Total] + Allowed' + AtStake'
  <2>0. ran'[Total] = ran[Total] /\ saved'.count[Total] = saved.count[Total]
    BY <1>1
  <2> QED
    BY <2>0, <1>a, <1>l, <1>t
<1>8. LossIsKnown'
  BY <1>6, <1>7, <1>1 DEF LossIsKnown
<1> QED
  BY <1>2, <1>3, <1>4, <1>5, <1>8 DEF PeriodInv

(* What is read back was true when it was handed to the store.             *)
LEMMA WriteBackKeeps == PeriodInv /\ WriteBack => PeriodInv'
<1> SUFFICES ASSUME PeriodInv, WriteBack PROVE PeriodInv'
  OBVIOUS
<1>i. PeriodFlags /\ PeriodRanges /\ LiveIsTrue /\ SavedIsTrue /\ HandedIsTrue /\ LossIsKnown
  BY DEF PeriodInv
<1>1. /\ handed # <<>> /\ handed' = Tail(handed)
      /\ \/ saved' = Head(handed) /\ failures' = failures
         \/ failures' = failures + 1 /\ saved' = saved
      /\ UNCHANGED <<now, lastTick, synced, actualOn, ran, restarts, count, key, resetPending,
                     reconcilePending, dirty, immediate, lastPersist>>
  BY DEF WriteBack, memory
<1>2. lastTick = now /\ dirty = FALSE /\ handed = <<[count |-> count, key |-> key]>>
  BY <1>1, <1>i DEF HandedIsTrue
<1>3. handed' = <<>> /\ Head(handed) = [count |-> count, key |-> key]
  BY <1>1, <1>2
<1>4. PeriodFlags' /\ HandedIsTrue'
  BY <1>1, <1>3, <1>i DEF PeriodFlags, HandedIsTrue
<1>5. PeriodRanges'
  <2>1. failures' \in Nat
    BY <1>1, <1>i DEF PeriodRanges
  <2> QED
    BY <2>1, <1>1, <1>i DEF PeriodRanges
<1>d. delta = 0 /\ delta' = 0
  <2>1. delta' = delta
    BY <1>1 DEF delta
  <2> QED
    BY <2>1, <1>2, <1>i, DeltaIs
<1>6. LiveIsTrue'
  BY <1>1, <1>d, <1>i DEF LiveIsTrue, Current
<1>t. /\ count[Total] \in Nat /\ ran[Total] \in Nat /\ saved.count[Total] \in Nat
      /\ PersistInterval \in Nat
  BY <1>i, PeriodConstants DEF LiveIsTrue, SavedIsTrue, PeriodRanges, Images, Counters
<1>s. AtStake = PersistInterval + 1 /\ AtStake' = 0
  <2>1. Unsaved' = delta'
    BY <1>1, <1>2 DEF Unsaved
  <2> QED
    BY <2>1, <1>1, <1>3, <1>d DEF AtStake
<1>a. Allowed \in Nat
  BY <1>i, AllowedIs
<1>l. /\ ran[Total] <= count[Total] + Allowed
      /\ ran[Total] <= saved.count[Total] + Allowed + PersistInterval + 1
  BY <1>d, <1>s, <1>t, <1>a, <1>i DEF LossIsKnown
<1>7. CASE saved' = Head(handed) /\ failures' = failures
  <2>1. saved'.count = count /\ saved'.key = key /\ saved' = [count |-> count, key |-> key]
    BY <1>7, <1>3
  <2>2. SavedIsTrue'
    <3>1. saved' \in Images
      BY <2>1, <1>i DEF LiveIsTrue, Images
    <3>2. Total \in Counters
      BY DEF Counters
    <3>3. count[Total] <= ran[Total]
      BY <1>d, <1>t, <1>i DEF LiveIsTrue
    <3>4. \A p \in Periods : /\ key[p] <= Current(p)
                             /\ key[p] = Current(p) => count[p] <= ran[p] + 1
      <4>1. \A p \in Periods : count[p] \in Nat
        BY <1>i DEF LiveIsTrue, Counters
      <4> QED
        BY <4>1, <1>d, <1>i DEF LiveIsTrue
    <3>5. \A p \in Periods : Current(p)' = Current(p)
      BY <1>1 DEF Current
    <3>6. \A c \in Counters : count[c] <= lastTick
      BY <1>i DEF LiveIsTrue
    <3> QED
      BY <3>1, <3>3, <3>4, <3>5, <3>6, <2>1, <1>1 DEF SavedIsTrue
  <2>3. LossIsKnown'
    <3>1. Allowed' = Allowed
      BY <1>1, <1>7 DEF Allowed
    <3> QED
      BY <3>1, <2>1, <1>l, <1>d, <1>s, <1>t, <1>a, <1>1, <1>2 DEF LossIsKnown
  <2> QED
    BY <2>2, <2>3, <1>4, <1>5, <1>6 DEF PeriodInv
<1>8. CASE saved' = saved /\ failures' = failures + 1
  <2>1. SavedIsTrue'
    BY <1>1, <1>8, <1>i DEF SavedIsTrue, Current
  <2>2. Allowed' = Allowed + PersistInterval + 1
    <3>1. restarts' + failures' \in Nat /\ restarts' + failures' = restarts + failures + 1
      BY <1>8, <1>1, <1>i DEF PeriodRanges
    <3> QED
      BY <3>1, <1>i, AllowedIs DEF Allowed
  <2>3. LossIsKnown'
    <3>1. ran'[Total] = ran[Total] /\ count'[Total] = count[Total]
          /\ saved'.count[Total] = saved.count[Total]
      BY <1>1, <1>8
    <3>2. ran'[Total] <= count'[Total] + delta' + Allowed'
      BY <3>1, <2>2, <1>l, <1>d, <1>t, <1>a
    <3>3. ran'[Total] <= saved'.count[Total] + Allowed' + AtStake'
      BY <3>1, <2>2, <1>l, <1>s, <1>t, <1>a
    <3> QED
      BY <3>2, <3>3, <1>1, <1>2 DEF LossIsKnown
  <2> QED
    BY <2>1, <2>3, <1>4, <1>5, <1>6 DEF PeriodInv
<1> QED
  BY <1>1, <1>7, <1>8

LEMMA RebootKeeps == PeriodInv /\ Reboot => PeriodInv'
<1> SUFFICES ASSUME PeriodInv, Reboot PROVE PeriodInv'
  OBVIOUS
<1>i. PeriodFlags /\ PeriodRanges /\ LiveIsTrue /\ SavedIsTrue /\ HandedIsTrue /\ LossIsKnown
  BY DEF PeriodInv
<1>1. /\ restarts' = restarts + 1
      /\ lastTick' = now /\ synced' = FALSE /\ actualOn' = FALSE
      /\ count' = saved.count /\ key' = saved.key
      /\ resetPending' = {} /\ reconcilePending' = FALSE /\ dirty' = FALSE /\ immediate' = FALSE
      /\ lastPersist' = 0 /\ handed' = <<>>
      /\ UNCHANGED <<now, saved, ran, failures>>
  BY DEF Reboot
<1>t. /\ Total \in Counters /\ Periods \subseteq Counters /\ saved.count \in [Counters -> Nat]
      /\ ran[Total] \in Nat /\ saved.count[Total] \in Nat /\ saved.key \in [Periods -> Nat]
      /\ PersistInterval \in Nat
      /\ now \in Nat /\ lastTick <= now
  BY <1>i, PeriodConstants DEF SavedIsTrue, PeriodRanges, Images, Counters
<1>2. PeriodFlags' /\ HandedIsTrue'
  BY <1>1 DEF PeriodFlags, HandedIsTrue
<1>3. PeriodRanges'
  <2>1. restarts' \in Nat /\ 0 \in 0..(PersistInterval + 1)
    BY <1>1, <1>t, <1>i DEF PeriodRanges
  <2> QED
    BY <2>1, <1>1, <1>t, <1>i DEF PeriodRanges
<1>d. delta' = 0
  BY <1>1 DEF delta
<1>c. \A p \in Periods : Current(p)' = Current(p)
  BY <1>1 DEF Current
<1>m. \A c \in Counters : saved.count[c] \in Nat /\ saved.count[c] <= now
  <2>1. \A c \in Counters : saved.count[c] \in Nat /\ saved.count[c] <= lastTick
    BY <1>t, <1>i DEF SavedIsTrue
  <2> QED
    BY <2>1, <1>t, <1>i DEF PeriodRanges
<1>p. \A p \in Periods : /\ saved.key[p] <= Current(p)
                         /\ saved.key[p] = Current(p) => saved.count[p] + 0 <= ran[p] + 1
  BY <1>m, <1>t, <1>i DEF SavedIsTrue
<1>4. LiveIsTrue'
  <2>1. saved.count[Total] + 0 <= ran[Total]
    BY <1>t, <1>i DEF SavedIsTrue
  <2> QED
    BY <2>1, <1>1, <1>d, <1>c, <1>m, <1>p, <1>t DEF LiveIsTrue
<1>5. SavedIsTrue'
  BY <1>1, <1>c, <1>m, <1>i DEF SavedIsTrue
<1>6. LossIsKnown'
  <2>1. Allowed \in Nat /\ Allowed' = Allowed + PersistInterval + 1
    <3>1. restarts' + failures' \in Nat /\ restarts' + failures' = restarts + failures + 1
      BY <1>1, <1>i DEF PeriodRanges
    <3> QED
      BY <3>1, <1>i, AllowedIs DEF Allowed
  <2>2. AtStake \in Nat /\ AtStake <= PersistInterval + 1
    <3>1. delta \in {0, 1}
      BY <1>i, DeltaIs
    <3> QED
      BY <3>1, <1>t, <1>i DEF AtStake, Unsaved, PeriodRanges
  <2>3. ran[Total] <= saved.count[Total] + Allowed + AtStake
    BY <1>i DEF LossIsKnown
  <2>4. AtStake' = 0
    BY <1>1, <1>d DEF AtStake, Unsaved
  <2>5. ran'[Total] = ran[Total] /\ saved'.count[Total] = saved.count[Total]
        /\ count'[Total] = saved.count[Total]
    BY <1>1
  <2>6. ran[Total] <= saved.count[Total] + Allowed'
    BY <2>1, <2>2, <2>3, <1>t
  <2> QED
    BY <2>1, <2>4, <2>5, <2>6, <1>d, <1>t, <1>1 DEF LossIsKnown
<1> QED
  BY <1>2, <1>3, <1>4, <1>5, <1>6 DEF PeriodInv

LEMMA PeriodInvNext == PeriodInv /\ [PeriodNext]_periodVars => PeriodInv'
<1>1. ASSUME PeriodInv, UNCHANGED periodVars PROVE PeriodInv'
  <2>1. /\ synced \in BOOLEAN /\ reconcilePending \in BOOLEAN /\ resetPending \subseteq Periods
    BY <1>1 DEF PeriodInv, PeriodFlags, PeriodRanges
  <2> QED
    BY <2>1, <1>1, CountsStand DEF periodVars
<1>2. TimeIsUp => UNCHANGED periodVars
  BY DEF TimeIsUp
<1> QED
  BY <1>1, <1>2, TimePassesKeeps, NewsKeep, WriteBackKeeps, RebootKeeps, TickKeeps DEF PeriodNext

(* What is counted, and what is at stake, of a period.                     *)
LEMMA PeriodNumbers ==
    ASSUME PeriodInv, PeriodLossIsKnown, NEW p \in Periods
    PROVE  /\ ran[p] \in Nat /\ count[p] \in Nat /\ saved.count[p] \in Nat /\ undated[p] \in Nat
           /\ Allowed \in Nat /\ AtStake \in 0..(PersistInterval + 1) /\ delta \in {0, 1}
           /\ PersistInterval \in Nat /\ PeriodLoss(p)
<1>i. PeriodFlags /\ PeriodRanges /\ LiveIsTrue /\ SavedIsTrue
  BY DEF PeriodInv
<1>t. p \in Counters /\ PersistInterval \in Nat
  BY PeriodConstants DEF Counters
<1>1. ran[p] \in Nat /\ count[p] \in Nat /\ saved.count[p] \in Nat
  BY <1>t, <1>i DEF PeriodRanges, LiveIsTrue, SavedIsTrue, Images
<1>2. Allowed \in Nat /\ delta \in {0, 1}
  BY <1>i, AllowedIs, DeltaIs
<1>3. AtStake \in 0..(PersistInterval + 1)
  BY <1>2, <1>t, <1>i DEF AtStake, Unsaved, PeriodRanges
<1> QED
  BY <1>1, <1>2, <1>3, <1>t DEF PeriodLossIsKnown

LEMMA AllowedGrows ==
    ASSUME PeriodRanges, PeriodRanges', restarts' + failures' \in Nat,
           restarts' + failures' = restarts + failures + 1
    PROVE  Allowed' = Allowed + PersistInterval + 1
<1>1. (restarts' + failures') * (PersistInterval + 1) = Allowed + PersistInterval + 1
  BY AllowedIs
<1> QED
  BY <1>1 DEF Allowed

(* Time brings what runs to the stake, and begins periods.                 *)
LEMMA TimeKeepsLoss ==
    ASSUME PeriodInv, PeriodInv', PeriodLossIsKnown, TimePasses
    PROVE  PeriodLossIsKnown'
<1>1. /\ now = lastTick /\ handed = <<>> /\ now' = now + 1
      /\ ran' = [c \in Counters |->
                   IF c # Total /\ (now + 1) \div PeriodLength[c] # Current(c) THEN 0
                   ELSE IF actualOn THEN ran[c] + 1 ELSE ran[c]]
      /\ undated' = [p \in Periods |->
                       IF (now + 1) \div PeriodLength[p] # Current(p) THEN 0
                       ELSE IF actualOn /\ key[p] # Current(p) THEN undated[p] + 1 ELSE undated[p]]
      /\ UNCHANGED <<lastTick, actualOn, count, key, resetPending, handed, saved, restarts,
                     failures>>
  BY DEF TimePasses
<1>i. PeriodFlags /\ PeriodRanges
  BY DEF PeriodInv
<1>d. delta = 0 /\ delta' = (IF actualOn THEN 1 ELSE 0)
  <2>1. \A n \in Nat : (n + 1) - n = 1
    OBVIOUS
  <2> QED
    BY <1>1, <1>i, <2>1, DeltaIs DEF delta, PeriodRanges
<1>a. Allowed' = Allowed
  BY <1>1 DEF Allowed
<1>u. AtStake + delta' <= AtStake'
  BY TimeStakes
<1>2. undated' \in [Periods -> Nat]
  BY <1>1 DEF PeriodLossIsKnown
<1>3. ASSUME NEW p \in Periods PROVE PeriodLoss(p)'
  <2>n. /\ ran[p] \in Nat /\ count[p] \in Nat /\ saved.count[p] \in Nat /\ undated[p] \in Nat
        /\ Allowed \in Nat /\ AtStake \in Nat
        /\ PeriodLoss(p)
    BY PeriodNumbers
  <2>m. ran'[p] \in Nat /\ AtStake' \in Nat /\ undated'[p] \in Nat
    <3>1. AtStake' \in 0..(PersistInterval + 1) /\ PersistInterval \in Nat
      <4>1. delta' \in {0, 1} /\ PersistInterval \in Nat /\ lastPersist' \in Nat
            /\ lastPersist' <= PersistInterval + 1
        BY <1>d, PeriodConstants DEF PeriodInv, PeriodRanges
      <4> QED
        BY <4>1 DEF AtStake, Unsaved
    <3>2. ran'[p] \in Nat
      BY PeriodConstants DEF PeriodInv, PeriodRanges, Counters
    <3> QED
      BY <3>1, <3>2, <1>2
  <2>t. p \in Counters /\ p # Total /\ PeriodLength[p] \in Nat \ {0} /\ now \in Nat
    BY <1>i, PeriodConstants DEF Counters, PeriodRanges
  <2>c. Current(p)' = (now + 1) \div PeriodLength[p]
    BY <1>1 DEF Current
  <2>1. CASE Current(p)' # Current(p)
    <3>1. ran'[p] = 0
      BY <2>1, <2>c, <2>t, <1>1
    <3>2. count'[p] \in Nat /\ saved'.count[p] \in Nat /\ Allowed' \in Nat /\ delta' \in Nat
      BY <1>1, <2>n, <1>a, <1>d
    <3> QED
      BY <3>1, <3>2, <2>m DEF PeriodLoss
  <2>2. CASE Current(p)' = Current(p)
    <3>0. (now + 1) \div PeriodLength[p] = Current(p)
      BY <2>2, <2>c
    <3>r. ran'[p] = (IF actualOn THEN ran[p] + 1 ELSE ran[p])
      BY <3>0, <2>t, <1>1
    <3>1. ran'[p] = ran[p] + delta' /\ delta' \in {0, 1}
      BY <3>r, <2>n, <1>d
    <3>v. undated'[p] = (IF actualOn /\ key[p] # Current(p) THEN undated[p] + 1 ELSE undated[p])
      BY <3>0, <1>1
    <3>2. undated'[p] = undated[p] + (IF key[p] # Current(p) THEN delta' ELSE 0)
          /\ undated[p] <= undated'[p]
      BY <3>v, <2>n, <1>d
    <3>3. (now + 1) % PeriodLength[p] # 0
      <4>1. (now + 1) \div PeriodLength[p] = IF (now + 1) % PeriodLength[p] = 0
                                            THEN (now \div PeriodLength[p]) + 1
                                            ELSE now \div PeriodLength[p]
        BY <2>t, QuotientGrows
      <4>2. now \div PeriodLength[p] \in Nat
        BY <2>t, QuotientIsNat
      <4> QED
        BY <4>1, <4>2, <2>2, <2>c DEF Current
    <3>4. ~(now' % PeriodLength[p] = 0)
      BY <3>3, <1>1
    <3>5. p \in resetPending' => ran'[p] <= delta'
      BY <3>1, <2>n, <1>1, <1>d DEF PeriodLoss
    <3>6. ran'[p] <= count'[p] + delta' + Allowed' + undated'[p]
      <4>1. ran[p] <= count[p] + Allowed + 0 + undated[p] /\ 0 + delta' <= delta'
        BY <3>1, <2>n, <1>d DEF PeriodLoss
      <4>2. delta' \in Nat
        BY <3>1
      <4>3. ran[p] + delta' <= count[p] + Allowed + delta' + undated'[p]
        BY <4>1, <4>2, <3>1, <3>2, <2>n, <2>m, LossGrows
      <4>4. count[p] + Allowed + delta' + undated'[p] = count[p] + delta' + Allowed + undated'[p]
        BY <4>2, <2>n, <2>m
      <4> QED
        BY <4>3, <4>4, <3>1, <1>1, <1>a
    <3>7. ran'[p] <= saved'.count[p] + Allowed' + AtStake' + undated'[p]
      <4>1. ran[p] <= saved.count[p] + Allowed + AtStake + undated[p]
        BY <2>n DEF PeriodLoss
      <4>2. ran[p] + delta' <= saved.count[p] + Allowed + AtStake' + undated'[p]
        BY <4>1, <3>1, <3>2, <2>n, <2>m, <1>u, LossGrows
      <4> QED
        BY <4>2, <3>1, <1>1, <1>a
    <3>8. key'[p] # Current(p)' => ran'[p] <= Allowed' + undated'[p]
      BY <3>1, <3>2, <2>n, <2>2, <1>1, <1>a, <1>d DEF PeriodLoss
    <3>9. saved'.key[p] # Current(p)' => ran'[p] <= Allowed' + AtStake' + undated'[p]
      <4>1. saved'.key[p] # Current(p)' => ran[p] <= Allowed + AtStake + undated[p]
        BY <2>2, <2>n, <1>1 DEF PeriodLoss
      <4>2. saved'.key[p] # Current(p)' => ran[p] + delta' <= Allowed + AtStake' + undated'[p]
        BY <4>1, <3>1, <3>2, <2>n, <2>m, <1>u, StaleGrows
      <4> QED
        BY <4>2, <3>1, <1>a
    <3> QED
      BY <3>4, <3>5, <3>6, <3>7, <3>8, <3>9 DEF PeriodLoss
  <2> QED
    BY <2>1, <2>2
<1> QED
  BY <1>2, <1>3 DEF PeriodLossIsKnown

(* The device counts: what is set back had nothing of the present period   *)
(* but what its count was not of.                                          *)
LEMMA TickKeepsLoss ==
    ASSUME PeriodInv, PeriodInv', PeriodLossIsKnown,
           NEW desired \in BOOLEAN, NEW full \in BOOLEAN, tickDevices(desired, full)
    PROVE  PeriodLossIsKnown'
<1>1. /\ count' = AfterTick /\ lastTick' = now /\ resetPending' = {}
      /\ key' = [p \in Periods |-> IF p \in Known THEN Current(p) ELSE key[p]]
      /\ UNCHANGED <<now, saved, ran, undated>>
  BY DEF tickDevices
<1>s. Allowed <= Allowed' /\ Allowed + AtStake <= Allowed' + AtStake'
  BY TickStakes
<1>d. delta' = 0
  <2>1. now \in Nat
    BY DEF PeriodInv, PeriodRanges
  <2> QED
    BY <2>1, <1>1 DEF delta
<1>3. ASSUME NEW p \in Periods PROVE PeriodLoss(p)'
  <2>n. /\ ran[p] \in Nat /\ count[p] \in Nat /\ saved.count[p] \in Nat /\ undated[p] \in Nat
        /\ Allowed \in Nat /\ AtStake \in Nat /\ delta \in {0, 1}
        /\ PeriodLoss(p)
    BY PeriodNumbers
  <2>m. Allowed' \in Nat /\ AtStake' \in Nat
    BY TickStakes
  <2>t. p \in Counters /\ Current(p)' = Current(p)
    BY <1>1 DEF Counters, Current
  <2>1. count'[p] = (IF p \in Outdated THEN 0 ELSE count[p]) + delta
    BY <2>t, <1>1 DEF AfterTick, AfterResets
  <2>2. p \in Outdated => p \in resetPending \/ key[p] # Current(p)
    BY DEF Outdated
  <2>3. ran'[p] <= count'[p] + delta' + Allowed' + undated'[p]
    <3>1. CASE p \notin Outdated
      BY <3>1, <2>1, <2>n, <2>m, <1>1, <1>s, <1>d DEF PeriodLoss
    <3>2. CASE p \in Outdated
      <4>1. count'[p] = delta
        BY <3>2, <2>1, <2>n
      <4>2. ran[p] <= delta + Allowed + undated[p]
        BY <3>2, <2>2, <2>n DEF PeriodLoss
      <4> QED
        BY <4>1, <4>2, <2>n, <2>m, <1>1, <1>s, <1>d
    <3> QED
      BY <3>1, <3>2
  <2>4. ran'[p] <= saved'.count[p] + Allowed' + AtStake' + undated'[p]
    <3>1. ran[p] <= saved.count[p] + Allowed + AtStake + undated[p]
      BY <2>n DEF PeriodLoss
    <3>2. ran[p] <= saved.count[p] + Allowed' + AtStake' + undated[p]
      BY <3>1, <2>n, <2>m, <1>s, LossStands
    <3> QED
      BY <3>2, <1>1
  <2>5. key'[p] # Current(p)' => ran'[p] <= Allowed' + undated'[p]
    <3>1. key'[p] # Current(p)' => key[p] # Current(p)
      BY <2>t, <1>1
    <3> QED
      BY <3>1, <2>n, <2>m, <1>1, <1>s DEF PeriodLoss
  <2>6. saved'.key[p] # Current(p)' => ran'[p] <= Allowed' + AtStake' + undated'[p]
    <3>1. saved.key[p] # Current(p) => ran[p] <= Allowed + AtStake + undated[p]
      BY <2>n DEF PeriodLoss
    <3>2. saved.key[p] # Current(p) => ran[p] <= Allowed' + AtStake' + undated[p]
      BY <3>1, <2>n, <2>m, <1>s, StaleStands
    <3> QED
      BY <3>2, <2>t, <1>1
  <2>7. (now' % PeriodLength[p] = 0) => ran'[p] = 0
    BY <2>n, <1>1 DEF PeriodLoss
  <2>8. p \notin resetPending'
    BY <1>1
  <2> QED
    BY <2>3, <2>4, <2>5, <2>6, <2>7, <2>8 DEF PeriodLoss
<1> QED
  BY <1>1, <1>3 DEF PeriodLossIsKnown

(* News move no count; the reset of a period is asked as it begins.        *)
LEMMA NewsKeepLoss ==
    ASSUME PeriodInv, PeriodInv', PeriodLossIsKnown,
           UNCHANGED <<now, lastTick, actualOn, count, key, dirty, lastPersist, handed, saved, ran,
                       undated, restarts>>,
           failures' \in {failures, failures + 1},
           \A q \in resetPending' : q \in resetPending \/ now % PeriodLength[q] = 0
    PROVE  PeriodLossIsKnown'
<1>d. delta' = delta
  BY DEF delta
<1>s. AtStake' = AtStake
  BY <1>d DEF AtStake, Unsaved
<1>i. PeriodRanges /\ PeriodRanges'
  BY DEF PeriodInv
<1>a. Allowed \in Nat /\ Allowed' \in Nat /\ Allowed <= Allowed'
  <2>1. Allowed \in Nat /\ PersistInterval \in Nat
    BY <1>i, AllowedIs, PeriodConstants
  <2>2. CASE failures' = failures
    BY <2>1, <2>2 DEF Allowed
  <2>3. CASE failures' = failures + 1
    <3>1. restarts' + failures' \in Nat /\ restarts' + failures' = restarts + failures + 1
      BY <2>3, <1>i DEF PeriodRanges
    <3>2. Allowed' = Allowed + PersistInterval + 1
      BY <3>1, <1>i, AllowedGrows
    <3> QED
      BY <3>2, <2>1
  <2> QED
    BY <2>2, <2>3
<1>3. ASSUME NEW p \in Periods PROVE PeriodLoss(p)'
  <2>n. /\ ran[p] \in Nat /\ count[p] \in Nat /\ saved.count[p] \in Nat /\ undated[p] \in Nat
        /\ AtStake \in Nat /\ delta \in {0, 1}
        /\ PeriodLoss(p)
    BY PeriodNumbers
  <2>c. Current(p)' = Current(p)
    BY DEF Current
  <2>1. p \in resetPending' => ran'[p] <= delta'
    BY <2>n, <1>d DEF PeriodLoss
  <2>2. /\ ran'[p] <= count'[p] + delta' + Allowed' + undated'[p]
        /\ ran'[p] <= saved'.count[p] + Allowed' + AtStake' + undated'[p]
    BY <2>n, <1>a, <1>d, <1>s DEF PeriodLoss
  <2>3. /\ key'[p] # Current(p)' => ran'[p] <= Allowed' + undated'[p]
        /\ saved'.key[p] # Current(p)' => ran'[p] <= Allowed' + AtStake' + undated'[p]
    BY <2>n, <2>c, <1>a, <1>s DEF PeriodLoss
  <2>4. (now' % PeriodLength[p] = 0) => ran'[p] = 0
    BY <2>n DEF PeriodLoss
  <2> QED
    BY <2>1, <2>2, <2>3, <2>4 DEF PeriodLoss
<1> QED
  BY <1>3 DEF PeriodLossIsKnown

(* The store saves what is counted, or it, or a restart, pays.             *)
LEMMA StoreKeepsLoss ==
    ASSUME PeriodInv, PeriodInv', PeriodLossIsKnown, WriteBack \/ Reboot
    PROVE  PeriodLossIsKnown'
<1>i. PeriodFlags /\ PeriodRanges /\ PeriodRanges' /\ HandedIsTrue
  BY DEF PeriodInv
<1>d. delta' = 0
  <2>1. CASE WriteBack
    <3>1. lastTick = now
      BY <2>1, <1>i DEF WriteBack, HandedIsTrue
    <3>2. delta' = delta
      BY <2>1 DEF WriteBack, delta
    <3> QED
      BY <3>1, <3>2, <1>i, DeltaIs
  <2>2. CASE Reboot
    BY <2>2 DEF Reboot, delta
  <2> QED
    BY <2>1, <2>2
<1>s. handed' = <<>> /\ AtStake' = 0
  <2>1. CASE WriteBack
    <3>1. Tail(handed) = <<>> /\ dirty = FALSE
      <4>1. handed = <<[count |-> count, key |-> key]>> /\ dirty = FALSE
        BY <2>1, <1>i DEF WriteBack, HandedIsTrue
      <4> QED
        BY <4>1
    <3>2. handed' = <<>> /\ dirty' = FALSE
      BY <3>1, <2>1 DEF WriteBack, memory
    <3> QED
      BY <3>2, <1>d DEF AtStake, Unsaved
  <2>2. CASE Reboot
    <3>1. handed' = <<>> /\ dirty' = FALSE
      BY <2>2 DEF Reboot
    <3> QED
      BY <3>1, <1>d DEF AtStake, Unsaved
  <2> QED
    BY <2>1, <2>2
<1>3. ASSUME NEW p \in Periods PROVE PeriodLoss(p)'
  <2>n. /\ ran[p] \in Nat /\ count[p] \in Nat /\ saved.count[p] \in Nat /\ undated[p] \in Nat
        /\ Allowed \in Nat /\ AtStake \in 0..(PersistInterval + 1) /\ PersistInterval \in Nat
        /\ delta \in {0, 1} /\ PeriodLoss(p)
    BY PeriodNumbers
  <2>u. UNCHANGED <<now, ran, undated>> /\ Current(p)' = Current(p)
    BY DEF WriteBack, Reboot, Current
  <2>1. (now' % PeriodLength[p] = 0) => ran'[p] = 0
    BY <2>n, <2>u DEF PeriodLoss
  <2>2. CASE Reboot
    <3>1. /\ count' = saved.count /\ key' = saved.key /\ saved' = saved /\ resetPending' = {}
          /\ restarts' = restarts + 1 /\ failures' = failures
      BY <2>2 DEF Reboot
    <3>2. Allowed' = Allowed + PersistInterval + 1
      <4>1. restarts' + failures' \in Nat /\ restarts' + failures' = restarts + failures + 1
        BY <3>1, <1>i DEF PeriodRanges
      <4> QED
        BY <4>1, <1>i, AllowedGrows
    <3>g. Allowed' \in Nat /\ 0 \in Nat /\ Allowed + AtStake <= Allowed' + 0
      BY <3>2, <2>n
    <3>3. /\ ran'[p] <= count'[p] + delta' + Allowed' + undated'[p]
          /\ ran'[p] <= saved'.count[p] + Allowed' + AtStake' + undated'[p]
      <4>1. ran[p] <= saved.count[p] + Allowed + AtStake + undated[p] /\ AtStake \in Nat
        BY <2>n DEF PeriodLoss
      <4>2. ran[p] <= saved.count[p] + Allowed' + 0 + undated[p]
        BY <4>1, <3>g, <2>n, LossStands
      <4>3. saved.count[p] + Allowed' + 0 + undated[p] = saved.count[p] + 0 + Allowed' + undated[p]
        BY <3>g, <2>n
      <4> QED
        BY <4>2, <4>3, <3>1, <2>u, <1>d, <1>s
    <3>4. /\ key'[p] # Current(p)' => ran'[p] <= Allowed' + undated'[p]
          /\ saved'.key[p] # Current(p)' => ran'[p] <= Allowed' + AtStake' + undated'[p]
      <4>1. (saved.key[p] # Current(p) => ran[p] <= Allowed + AtStake + undated[p])
            /\ AtStake \in Nat
        BY <2>n DEF PeriodLoss
      <4>2. saved.key[p] # Current(p) => ran[p] <= Allowed' + 0 + undated[p]
        BY <4>1, <3>g, <2>n, StaleStands
      <4>3. Allowed' + 0 = Allowed'
        <5>1. \A n \in Nat : n + 0 = n
          OBVIOUS
        <5> QED
          BY <5>1, <3>g
      <4> QED
        BY <4>2, <4>3, <3>1, <2>u, <1>s
    <3> QED
      BY <3>1, <3>3, <3>4, <2>1 DEF PeriodLoss
  <2>3. CASE WriteBack
    <3>1. /\ handed # <<>> /\ UNCHANGED <<count, key, resetPending, restarts>>
          /\ \/ saved' = Head(handed) /\ failures' = failures
             \/ failures' = failures + 1 /\ saved' = saved
      BY <2>3 DEF WriteBack, memory
    <3>2. handed = <<[count |-> count, key |-> key]>> /\ lastTick = now
      BY <3>1, <1>i DEF HandedIsTrue
    <3>d. delta = 0
      BY <3>2, <1>i, DeltaIs
    <3>3. p \in resetPending' => ran'[p] <= delta'
      BY <3>1, <3>d, <2>n, <2>u, <1>d DEF PeriodLoss
    <3>4. CASE saved' = Head(handed) /\ failures' = failures
      <4>1. saved'.count = count /\ saved'.key = key
        BY <3>2, <3>4
      <4>2. Allowed' = Allowed
        BY <3>1, <3>4 DEF Allowed
      <4> QED
        BY <4>1, <4>2, <3>1, <3>3, <3>d, <2>1, <2>n, <2>u, <1>d, <1>s DEF PeriodLoss
    <3>5. CASE failures' = failures + 1 /\ saved' = saved
      <4>1. Allowed' = Allowed + PersistInterval + 1
        <5>1. restarts' + failures' \in Nat /\ restarts' + failures' = restarts + failures + 1
          BY <3>1, <3>5, <1>i DEF PeriodRanges
        <5> QED
          BY <5>1, <1>i, AllowedGrows
      <4>g. /\ Allowed' \in Nat /\ 0 \in Nat /\ AtStake \in Nat
            /\ Allowed + AtStake <= Allowed' + 0 /\ Allowed + 0 <= Allowed' + 0
        BY <4>1, <2>n
      <4>2. /\ ran'[p] <= count'[p] + delta' + Allowed' + undated'[p]
            /\ ran'[p] <= saved'.count[p] + Allowed' + AtStake' + undated'[p]
        <5>1. /\ ran[p] <= count[p] + Allowed + 0 + undated[p]
              /\ ran[p] <= saved.count[p] + Allowed + AtStake + undated[p]
          BY <3>d, <2>n DEF PeriodLoss
        <5>2. ran[p] <= count[p] + Allowed' + 0 + undated[p]
          BY <5>1, <4>g, <2>n, LossStands
        <5>3. ran[p] <= saved.count[p] + Allowed' + 0 + undated[p]
          BY <5>1, <4>g, <2>n, LossStands
        <5>4. count[p] + Allowed' + 0 + undated[p] = count[p] + 0 + Allowed' + undated[p]
          BY <4>g, <2>n
        <5> QED
          BY <5>2, <5>3, <5>4, <3>1, <3>5, <2>u, <1>d, <1>s
      <4>3. /\ key'[p] # Current(p)' => ran'[p] <= Allowed' + undated'[p]
            /\ saved'.key[p] # Current(p)' => ran'[p] <= Allowed' + AtStake' + undated'[p]
        <5>1. /\ key[p] # Current(p) => ran[p] <= Allowed + 0 + undated[p]
              /\ saved.key[p] # Current(p) => ran[p] <= Allowed + AtStake + undated[p]
          BY <2>n DEF PeriodLoss
        <5>2. key[p] # Current(p) => ran[p] <= Allowed' + 0 + undated[p]
          BY <5>1, <4>g, <2>n, StaleStands
        <5>3. saved.key[p] # Current(p) => ran[p] <= Allowed' + 0 + undated[p]
          BY <5>1, <4>g, <2>n, StaleStands
        <5>4. Allowed' + 0 = Allowed'
          <6>1. \A n \in Nat : n + 0 = n
            OBVIOUS
          <6> QED
            BY <6>1, <4>g
        <5> QED
          BY <5>2, <5>3, <5>4, <3>1, <3>5, <2>u, <1>s
      <4> QED
        BY <4>2, <4>3, <3>3, <2>1 DEF PeriodLoss
    <3> QED
      BY <3>1, <3>4, <3>5
  <2> QED
    BY <2>2, <2>3
<1>4. undated' = undated
  BY DEF WriteBack, Reboot
<1> QED
  BY <1>3, <1>4 DEF PeriodLossIsKnown

LEMMA PeriodLossNext ==
    ASSUME PeriodInv, PeriodInv', PeriodLossIsKnown, [PeriodNext]_periodVars
    PROVE  PeriodLossIsKnown'
<1>1. CASE UNCHANGED periodVars
  BY <1>1, NewsKeepLoss DEF periodVars
<1>2. CASE requestPeriodReconcile
  BY <1>2, NewsKeepLoss DEF requestPeriodReconcile
<1>3. ASSUME NEW p \in Periods, PeriodStarts(p) PROVE PeriodLossIsKnown'
  <2>1. \A q \in resetPending' : q \in resetPending \/ now % PeriodLength[q] = 0
    BY <1>3 DEF PeriodStarts
  <2>2. UNCHANGED <<now, lastTick, actualOn, count, key, dirty, lastPersist, handed, saved, ran,
                    undated, restarts>> /\ failures' \in {failures, failures + 1}
    BY <1>3 DEF PeriodStarts
  <2> QED
    BY <2>1, <2>2, NewsKeepLoss
<1>4. CASE TimeIsUp
  BY <1>4, <1>1 DEF TimeIsUp
<1> QED
  BY <1>1, <1>2, <1>3, <1>4, TimeKeepsLoss, TickKeepsLoss, StoreKeepsLoss DEF PeriodNext

LEMMA LimitNext ==
    ASSUME PeriodInv, LimitIsKept, [PeriodNext]_periodVars
    PROVE  LimitIsKept'
<1>1. CASE UNCHANGED <<actualOn, count>>
  BY <1>1 DEF LimitIsKept
<1>2. CASE Reboot
  BY <1>2 DEF Reboot, LimitIsKept
<1>3. ASSUME NEW desired \in BOOLEAN, NEW full \in BOOLEAN, tickDevices(desired, full)
      PROVE  LimitIsKept'
  <2>1. actualOn' = (desired /\ ~maxUptimeReached) /\ count' = AfterTick
    BY <1>3 DEF tickDevices
  <2>2. Day \in Counters /\ MaxUptimeDay \in Nat /\ delta \in {0, 1} /\ count[Day] \in Nat
    BY PeriodConstants, DeltaIs DEF PeriodInv, LiveIsTrue, Counters
  <2>3. count'[Day] = AfterResets[Day] + delta
    BY <2>1, <2>2 DEF AfterTick
  <2>4. AfterResets[Day] \in Nat
    BY <2>2 DEF AfterResets
  <2> QED
    <3>1. actualOn' => ~(AfterResets[Day] >= MaxUptimeDay)
      BY <2>1 DEF maxUptimeReached
    <3>2. ~(AfterResets[Day] >= MaxUptimeDay) => count'[Day] <= MaxUptimeDay
      BY <2>2, <2>3, <2>4
    <3> QED
      BY <3>1, <3>2 DEF LimitIsKept
<1>4. TimePasses \/ requestPeriodReconcile \/ WriteBack \/ (\E p \in Periods : PeriodStarts(p))
          => UNCHANGED <<actualOn, count>>
  BY DEF TimePasses, requestPeriodReconcile, WriteBack, memory, PeriodStarts
<1>5. TimeIsUp \/ UNCHANGED periodVars => UNCHANGED <<actualOn, count>>
  BY DEF TimeIsUp, periodVars
<1> QED
  BY <1>1, <1>2, <1>3, <1>4, <1>5 DEF PeriodNext

LEMMA PeriodLossInit == PeriodInit => PeriodLossIsKnown /\ LimitIsKept
<1> SUFFICES ASSUME PeriodInit PROVE PeriodLossIsKnown /\ LimitIsKept
  OBVIOUS
<1>1. /\ actualOn = FALSE /\ count = [c \in Counters |-> 0] /\ resetPending = {}
      /\ saved.count = [c \in Counters |-> 0] /\ ran = [c \in Counters |-> 0]
      /\ undated = [p \in Periods |-> 0]
  BY DEF PeriodInit, NoTime
<1>2. PeriodInv
  BY PeriodInvInit
<1>3. undated \in [Periods -> Nat]
  BY <1>1
<1>4. ASSUME NEW p \in Periods PROVE PeriodLoss(p)
  <2>1. ran[p] = 0 /\ count[p] = 0 /\ saved.count[p] = 0 /\ undated[p] = 0
    BY <1>1 DEF Counters
  <2>2. Allowed \in Nat /\ delta \in {0, 1}
    BY <1>2, AllowedIs, DeltaIs DEF PeriodInv
  <2>3. AtStake \in Nat
    BY <1>2, <2>2, PeriodConstants DEF AtStake, Unsaved, PeriodInv, PeriodRanges
  <2> QED
    BY <2>1, <2>2, <2>3, <1>1 DEF PeriodLoss
<1> QED
  BY <1>1, <1>3, <1>4 DEF PeriodLossIsKnown, LimitIsKept

LEMMA PeriodInvIsSound ==
    ASSUME PeriodInv, PeriodLossIsKnown, LimitIsKept PROVE CountersSound
<1>i. PeriodFlags /\ PeriodRanges /\ LiveIsTrue /\ SavedIsTrue /\ HandedIsTrue /\ LossIsKnown
  BY DEF PeriodInv
<1>t. /\ Total \in Counters /\ Periods \subseteq Counters /\ Total \notin Periods
      /\ lastTick \in 0..now /\ now \in 0..MaxTime /\ MaxTime \in Nat
  BY <1>i, PeriodConstants DEF PeriodRanges, Counters
<1>d. delta \in {0, 1} /\ lastTick + delta <= now /\ (lastTick = now => delta = 0)
  BY <1>i, DeltaIs
<1>1. PeriodTypeOK
  <2>1. count \in [Counters -> 0..MaxTime]
    <3>1. \A c \in Counters : count[c] \in 0..MaxTime
      BY <1>t, <1>i DEF LiveIsTrue
    <3> QED
      BY <3>1, <1>i DEF LiveIsTrue
  <2>2. \A p \in Periods : Current(p) \in 0..MaxTime
    BY <1>t, <1>i, CurrentIs
  <2>3. key \in [Periods -> 0..MaxTime]
    <3>1. \A p \in Periods : key[p] \in 0..MaxTime
      BY <2>2, <1>t, <1>i DEF LiveIsTrue
    <3> QED
      BY <3>1, <1>i DEF LiveIsTrue
  <2>4. saved \in [count : [Counters -> 0..MaxTime], key : [Periods -> 0..MaxTime]]
    <3>1. saved.count \in [Counters -> Nat] /\ saved.key \in [Periods -> Nat]
          /\ saved = [count |-> saved.count, key |-> saved.key]
      BY <1>i DEF SavedIsTrue, Images
    <3>2. \A c \in Counters : saved.count[c] \in 0..MaxTime
      BY <3>1, <1>t, <1>i DEF SavedIsTrue
    <3>3. \A p \in Periods : saved.key[p] \in 0..MaxTime
      BY <3>1, <2>2, <1>t, <1>i DEF SavedIsTrue
    <3>4. saved.count \in [Counters -> 0..MaxTime] /\ saved.key \in [Periods -> 0..MaxTime]
      BY <3>1, <3>2, <3>3
    <3> QED
      BY <3>1, <3>4
  <2>5. Len(handed) \in Nat
    BY <1>i DEF HandedIsTrue
  <2> QED
    BY <2>1, <2>3, <2>4, <2>5, <1>t, <1>i DEF PeriodTypeOK, PeriodFlags, PeriodRanges
<1>2. LossIsBounded
  <2>1. /\ count[Total] \in Nat /\ ran[Total] \in Nat /\ Allowed \in Nat
        /\ now - lastTick \in Nat /\ delta <= now - lastTick
    BY <1>t, <1>d, <1>i, AllowedIs DEF LiveIsTrue, PeriodRanges
  <2>2. /\ count[Total] + delta <= ran[Total]
        /\ ran[Total] <= count[Total] + delta + Allowed
    BY <1>i DEF LiveIsTrue, LossIsKnown
  <2>3. count[Total] <= ran[Total]
        /\ ran[Total] - count[Total] <= Allowed + (now - lastTick)
    BY <2>1, <2>2, <1>d
  <2> QED
    BY <2>3 DEF LossIsBounded
<1>3. CountsThePeriod
  <2> SUFFICES ASSUME NEW p \in Periods
               PROVE  /\ key[p] = Current(p) /\ now = lastTick => count[p] <= ran[p] + 1
                      /\ ran[p] - count[p] <= Allowed + undated[p] + (now - lastTick)
    BY DEF CountsThePeriod
  <2>1. /\ ran[p] \in Nat /\ count[p] \in Nat /\ undated[p] \in Nat /\ Allowed \in Nat
        /\ ran[p] <= count[p] + delta + Allowed + undated[p]
    BY PeriodNumbers DEF PeriodLoss
  <2>2. key[p] = Current(p) => count[p] + delta <= ran[p] + 1
    BY <1>i DEF LiveIsTrue
  <2>3. now - lastTick \in Nat /\ delta <= now - lastTick
    BY <1>t, <1>d
  <2> QED
    BY <2>1, <2>2, <2>3, <1>d
<1>4. DayIsLimited
  <2>1. Day \in Periods /\ MaxUptimeDay \in Nat
    BY PeriodConstants
  <2>2. /\ ran[Day] \in Nat /\ count[Day] \in Nat /\ undated[Day] \in Nat /\ Allowed \in Nat
        /\ ran[Day] <= count[Day] + delta + Allowed + undated[Day]
    BY <2>1, PeriodNumbers DEF PeriodLoss
  <2> QED
    BY <2>1, <2>2, <1>d DEF DayIsLimited, LimitIsKept
<1> QED
  BY <1>1, <1>2, <1>3, <1>4 DEF CountersSound

(* What a device has run is counted in the period in which it ran, and     *)
(* limits the day, but for the interval and the tick that a restart or a   *)
(* failed write may cost and for what ran before the device knew that the  *)
(* period had begun: for every length of the periods and of the interval.  *)
THEOREM CountersCorrect == PeriodSpec => []CountersSound
<1> DEFINE Inv == PeriodInv /\ PeriodLossIsKnown /\ LimitIsKept
<1>1. PeriodInit => Inv
  BY PeriodInvInit, PeriodLossInit
<1>2. Inv /\ [PeriodNext]_periodVars => Inv'
  BY PeriodInvNext, PeriodLossNext, LimitNext
<1>3. Inv => CountersSound
  BY PeriodInvIsSound
<1> QED
  BY <1>1, <1>2, <1>3, PTL DEF PeriodSpec

-----------------------------------------------------------------------------
(* The schedule.                                                           *)
-----------------------------------------------------------------------------
(* The types.                                                              *)

Minutes == {NoMinute} \cup 0 .. MaxMinute
Values  == AllDefs \cup {Free}

(* A text, and the table with its reserved slot.                           *)
Texts == {t \in [UserSlots -> Values] : \A s \in UserSlots : t[s] \in UserDefs[s] \cup {Free}}

Tables ==
    {t \in [Slots -> Values \cup {SystemDay}] :
        /\ t[DayStartSlot] = SystemDay
        /\ \A s \in UserSlots : t[s] \in UserDefs[s] \cup {Free}}

Befores == [slot : Values, active : BOOLEAN, lastTrigger : Minutes, mask : SUBSET Slots,
            initialized : BOOLEAN]

(* An edit concerns slots that may hold what it sets; only one that sets a *)
(* slot can put it back.                                                   *)
Edits ==
    {j \in [at : {"Serialising", "Writing", "Restoring"}, job : {"Set", "Clear"},
            edited : SUBSET Slots, next : Values, before : Befores \cup {Nil}, text : Texts,
            left : SUBSET UserSlots] :
        /\ \A s \in j.edited \cap UserSlots : j.next \in UserDefs[s] \cup {Free}
        /\ j.job = "Set" =>
              /\ j.before \in Befores
              /\ \E s \in UserSlots : j.edited = {s} /\ j.before.slot \in UserDefs[s] \cup {Free}
        /\ j.at = "Restoring" => j.job = "Set"
        /\ j.at = "Writing" => j.left = {}}

SchedulerFlags ==
    /\ isSynced \in BOOLEAN /\ passing \in BOOLEAN /\ schedInitialized \in BOOLEAN
    /\ schedNeedsReload \in BOOLEAN /\ loading \in BOOLEAN /\ posted \in BOOLEAN
    /\ excused \in BOOLEAN /\ passed \in BOOLEAN /\ settled \in BOOLEAN

SchedulerRanges ==
    /\ minute \in 0 .. MaxMinute
    /\ slots \in Tables /\ scheduleBlob \in Texts /\ savedBlob \in Texts /\ accepted \in Texts
    /\ active \subseteq Slots /\ activeMask \subseteq Slots
    /\ lastTrigger \in [Slots -> Minutes] /\ fresh \in [Slots -> {0, 1}]
    /\ edit \in [Editors -> Edits \cup {NoEdit}]

(* What was triggered in this minute is not triggered again.               *)
DueNow == {s \in Enabled : isTriggerNow(slots[s])}

TriggersOnce ==
    \A s \in Slots : schedInitialized /\ fresh[s] # 0 => lastTrigger[s] = minute \/ s \notin DueNow

(* The text in RAM is ahead of flash while an editor writes it.            *)
OneWrites ==
    /\ \A e \in Editors : edit[e].at = "Writing" =>
          /\ scheduleBlob = edit[e].text
          /\ \A f \in Editors : edit[f].at = "Writing" => f = e
    /\ (\A e \in Editors : edit[e].at # "Writing") => scheduleBlob = savedBlob

(* Until two edits overlap, an editor at work is alone.                    *)
OneEdits ==
    \A e \in Editors : edit[e] # NoEdit /\ ~excused =>
        /\ \A f \in Editors : edit[f] # NoEdit => f = e
        /\ ~posted /\ ~schedNeedsReload /\ ~loading

(* What may stand where a definition was accepted: a slot of one date may  *)
(* have been given up.                                                     *)
Standing(a) == {a} \cup (IF a \in Dated THEN {Free} ELSE {})

(* What an editor will have promised.                                      *)
Promised(e, s) == IF s \in edit[e].edited THEN edit[e].next ELSE accepted[s]

TextsKept ==
    ~excused =>
    /\ \A s \in UserSlots : savedBlob[s] \in Standing(accepted[s])
    /\ (\A e \in Editors : edit[e] = NoEdit) =>
          \A s \in UserSlots : slots[s] \in Standing(accepted[s])

EditsKept ==
    ~excused =>
    \A e \in Editors, s \in UserSlots : edit[e] # NoEdit =>
        /\ edit[e].at # "Restoring" =>
              /\ slots[s] \in Standing(Promised(e, s))
              /\ s \notin edit[e].left => edit[e].text[s] \in Standing(Promised(e, s))
        /\ s \notin edit[e].edited => slots[s] \in Standing(accepted[s])
        /\ s \in edit[e].edited /\ edit[e].job = "Set" =>
              edit[e].before.slot \in Standing(accepted[s])

SchedulerInv ==
    /\ SchedulerFlags /\ SchedulerRanges
    /\ MaskIsTrue /\ TriggersOnce
    /\ OneWrites /\ OneEdits /\ TextsKept /\ EditsKept
-----------------------------------------------------------------------------
LEMMA SchedulerConstants ==
    /\ DayStartSlot \notin UserSlots /\ UserSlots \subseteq Slots /\ DayStartSlot \in Slots
    /\ \A s \in Slots : s \in UserSlots \/ s = DayStartSlot
    /\ \A s \in UserSlots : UserDefs[s] \subseteq AllDefs
    /\ DayMinutes \in Nat \ {0} /\ DaysOfWeek \in Nat \ {0} /\ MaxMinute \in Nat
    /\ \A d \in AllDefs :
          /\ d.enabled \in BOOLEAN /\ d.hasEnd \in BOOLEAN /\ d.oneShot \in BOOLEAN
          /\ d.start \in Nat /\ d.end \in Nat
          /\ d.oneShot /\ d.hasEnd => d.start < d.end
          /\ ~d.oneShot => d.start \in 0 .. DayMinutes - 1 /\ d.end \in 0 .. DayMinutes - 1
<1>1. /\ DayStartSlot \notin UserSlots /\ UserSlots \subseteq Slots /\ DayStartSlot \in Slots
      /\ \A s \in Slots : s \in UserSlots \/ s = DayStartSlot
  BY SchedulerAssumption DEF Slots
<1>2. \A s \in UserSlots : UserDefs[s] \subseteq AllDefs
  BY DEF AllDefs
<1>3. DayMinutes \in Nat \ {0} /\ DaysOfWeek \in Nat \ {0} /\ MaxMinute \in Nat
  BY SchedulerAssumption
<1>4. ASSUME NEW d \in AllDefs
      PROVE  /\ d.enabled \in BOOLEAN /\ d.hasEnd \in BOOLEAN /\ d.oneShot \in BOOLEAN
             /\ d.start \in Nat /\ d.end \in Nat
             /\ d.oneShot /\ d.hasEnd => d.start < d.end
             /\ ~d.oneShot => d.start \in 0 .. DayMinutes - 1 /\ d.end \in 0 .. DayMinutes - 1
  <2>1. /\ {d.enabled, d.hasEnd, d.replay, d.oneShot} \subseteq BOOLEAN
        /\ {d.start, d.end} \subseteq Nat
        /\ IF d.oneShot THEN d.hasEnd => d.start < d.end
                        ELSE {d.start, d.end} \subseteq 0 .. DayMinutes - 1
    BY <1>4, SchedulerAssumption
  <2> QED
    BY <2>1
<1> QED
  BY <1>1, <1>2, <1>3, <1>4

LEMMA SystemDayIs == SystemDay.enabled /\ ~SystemDay.hasEnd /\ ~SystemDay.oneShot
BY DEF SystemDay

(* A window that covers the minute is active; one that is active covers    *)
(* the minute, unless it runs over midnight.                               *)
LEMMA WindowLemma ==
    ASSUME NEW d \in AllDefs, minute \in Nat, d.hasEnd
    PROVE  /\ Covers(d, minute) => isActiveNow(d)
           /\ isActiveNow(d) /\ WithinADay(d) => Covers(d, minute)
<1>1. CASE d.oneShot
  BY <1>1, SchedulerConstants DEF Covers, isActiveNow
<1>2. CASE ~d.oneShot
  <2> DEFINE D == DayMinutes
             W == DaysOfWeek
             q == minute \div D
             r == minute % D
             a == d.start
             b == d.end
             n == (b - a) % D
  <2>1. /\ D \in Nat \ {0} /\ W \in Nat \ {0} /\ a \in 0..(D - 1) /\ b \in 0..(D - 1)
    BY <1>2, SchedulerConstants
  <2>2. q \in Nat /\ r \in 0..(D - 1) /\ minute = D * q + r
    <3>1. minute \in Int
      OBVIOUS
    <3>2. q \in Nat
      BY <2>1, QuotientIsNat
    <3>3. r \in 0..(D - 1)
      BY <2>1, <3>1, RemainderInRange
    <3>4. minute = D * q + r
      BY <2>1, <3>1, Division
    <3> QED
      BY <3>2, <3>3, <3>4
  <2>3. n = IF a <= b THEN b - a ELSE (b - a) + D
    <3>1. CASE a <= b
      <4>1. b - a \in 0..(D - 1) /\ D * 0 = 0
        BY <2>1, <3>1
      <4> QED
        BY <2>1, <3>1, <4>1, RemainderIsUnique
    <3>2. CASE a > b
      <4>1. (b - a) + D \in 0..(D - 1) /\ b - a \in Int
        BY <2>1, <3>2
      <4> DEFINE p == (b - a) \div D
      <4>2. b - a = D * p + n
        BY <2>1, <4>1, Division
      <4>6. n \in 0..(D - 1)
        BY <2>1, <4>1, RemainderInRange
      <4>7. p \in Int
        BY <2>1, <4>1
      <4> HIDE DEF p, n
      <4>3. p \in Int /\ b - a = D * p + n /\ n \in 0..(D - 1)
        BY <4>2, <4>6, <4>7
      <4>4. p = -1
        <5>1. D * p < 0 /\ D * p > - D - D
          BY <2>1, <3>2, <4>3
        <5>2. p < 0
          BY <2>1, <4>3, <5>1, ProductSign
        <5>3. D * (p + 2) = D * p + D + D
          BY <2>1, <4>3
        <5>4. p + 2 > 0
          BY <2>1, <4>3, <5>1, <5>3, ProductSign
        <5> QED
          BY <4>3, <5>2, <5>4
      <4>5. D * p = - D
        BY <2>1, <4>4
      <4> QED
        BY <2>1, <3>2, <4>3, <4>5
    <3> QED
      BY <2>1, <3>1, <3>2
  <2>4. /\ WeekDay = q % W /\ MinuteOfDay = r
        /\ DayBefore = ((q % W) + W - 1) % W
    BY DEF WeekDay, MinuteOfDay, DayBefore
  <2>5. /\ (q + W) % W = WeekDay
        /\ ((q - 1) + W) % W = DayBefore
    <3>1. (q - 1) + W = q + (W - 1)
      BY <2>1, <2>2
    <3> QED
      BY <2>1, <2>2, <2>4, <3>1, DaysAround
  <2>6. Covers(d, minute) <=> \E day \in -1 .. q :
          /\ (day + W) % W \in d.days
          /\ day * D + a <= minute /\ minute < (day * D + a) + n
    BY <1>2 DEF Covers
  <2>7. isActiveNow(d) <=>
          /\ a # b
          /\ IF a < b
             THEN WeekDay \in d.days /\ r \in a .. b - 1
             ELSE \/ r >= a /\ WeekDay \in d.days
                  \/ r < a /\ DayBefore \in d.days
    <3>1. isActiveNow(d) = isRecurringActiveNow(d)
      BY <1>2 DEF isActiveNow
    <3>2. isRecurringActiveNow(d) <=>
            /\ a # b
            /\ IF a < b
               THEN WeekDay \in d.days /\ MinuteOfDay \in a .. b - 1
               ELSE \/ MinuteOfDay >= a /\ WeekDay \in d.days
                    \/ MinuteOfDay < a /\ DayBefore \in d.days
      BY DEF isRecurringActiveNow
    <3> QED
      BY <2>4, <3>1, <3>2
  <2>8. minute \in Nat
    OBVIOUS
  <2> HIDE DEF D, W, q, r, a, b, n
  <2>9. ASSUME Covers(d, minute) PROVE isActiveNow(d)
    <3>1. PICK day \in -1 .. q : /\ (day + W) % W \in d.days
                                /\ day * D + a <= minute /\ minute < (day * D + a) + n
      BY <2>6, <2>9
    <3>2. day \in Int /\ day * D = D * day
      BY <2>1, <2>2, <3>1
    <3>3. a # b
      BY <2>1, <2>3, <2>8, <3>1, <3>2
    <3>4. CASE a < b
      <4>1. D * q < D * (day + 1)
        <5>1. D * (day + 1) = D * day + D
          BY <2>1, <3>2, ProductGrows
        <5>2. D * q + r < D * day + b /\ D * day \in Int /\ D * q \in Int
          BY <2>1, <2>2, <2>3, <3>1, <3>2, <3>4
        <5> QED
          BY <2>1, <2>2, <5>1, <5>2
      <4>2. q < day + 1
        BY <2>1, <2>2, <3>2, <4>1, ProductOrder
      <4>3. day = q
        BY <2>2, <3>1, <3>2, <4>2
      <4> QED
        BY <2>1, <2>2, <2>3, <2>5, <2>7, <3>1, <3>2, <3>4, <4>3
    <3>5. CASE a > b
      <4>1. D * q < D * (day + 2)
        <5>1. D * (day + 2) = D * day + D + D
          BY <2>1, <3>2
        <5>2. D * q + r < D * day + b + D /\ D * day \in Int /\ D * q \in Int
          BY <2>1, <2>2, <2>3, <3>1, <3>2, <3>5
        <5> QED
          BY <2>1, <2>2, <5>1, <5>2
      <4>2. q < day + 2
        BY <2>1, <2>2, <3>2, <4>1, ProductOrder
      <4>3. day = q \/ day = q - 1
        BY <2>2, <3>1, <3>2, <4>2
      <4>4. CASE day = q
        <5>1. r >= a
          BY <2>1, <2>2, <3>1, <3>2, <4>4
        <5>2. WeekDay \in d.days
          BY <2>5, <3>1, <4>4
        <5>3. ~(a < b)
          BY <2>1, <3>5
        <5> QED
          BY <2>7, <3>3, <5>1, <5>2, <5>3
      <4>5. CASE day = q - 1
        <5>1. D * day = D * q - D
          BY <2>1, <2>2, <4>5
        <5>2. r < b
          BY <2>1, <2>2, <2>3, <3>1, <3>2, <3>5, <5>1
        <5> QED
          BY <2>1, <2>2, <2>5, <2>7, <3>1, <3>3, <3>5, <4>5, <5>2
      <4> QED
        BY <4>3, <4>4, <4>5
    <3> QED
      BY <2>1, <3>3, <3>4, <3>5
  <2>10. ASSUME isActiveNow(d), WithinADay(d) PROVE Covers(d, minute)
    <3>1. a <= b
      BY <1>2, <2>10 DEF WithinADay, a, b
    <3>2. a < b /\ WeekDay \in d.days /\ r \in a .. b - 1
      BY <2>1, <2>7, <2>10, <3>1
    <3>3. q \in -1 .. q /\ q * D = D * q
      BY <2>1, <2>2
    <3>4. (q + W) % W \in d.days
      BY <2>5, <3>2
    <3>5. q * D + a <= minute /\ minute < (q * D + a) + n
      BY <2>1, <2>2, <2>3, <3>2, <3>3
    <3> QED
      BY <2>6, <3>3, <3>4, <3>5
  <2> QED
    BY <2>9, <2>10
<1> QED
  BY <1>1, <1>2
-----------------------------------------------------------------------------
(* What the types say of one edit and of one slot.                         *)
LEMMA EditIs ==
    ASSUME SchedulerRanges, NEW e \in Editors
    PROVE  /\ edit[e] = NoEdit \/ edit[e] \in Edits
           /\ edit[e].at \in {"Serialising", "Writing", "Restoring"} => edit[e] \in Edits
           /\ edit[e] \in Edits =>
                 edit[e] # NoEdit /\ edit[e].at \in {"Serialising", "Writing", "Restoring"}
<1>1. edit[e] \in Edits \cup {NoEdit}
  BY DEF SchedulerRanges
<1>2. NoEdit.at = "Idle"
  BY DEF NoEdit
<1>3. \A j \in Edits : j.at \in {"Serialising", "Writing", "Restoring"}
  BY DEF Edits
<1> QED
  BY <1>1, <1>2, <1>3

LEMMA EditHas ==
    ASSUME NEW j \in Edits
    PROVE  /\ j.job \in {"Set", "Clear"} /\ j.edited \subseteq Slots /\ j.next \in Values
           /\ j.before \in Befores \cup {Nil} /\ j.text \in Texts /\ j.left \subseteq UserSlots
           /\ \A s \in j.edited \cap UserSlots : j.next \in UserDefs[s] \cup {Free}
           /\ j.job = "Set" =>
                 /\ j.before \in Befores
                 /\ \E s \in UserSlots : j.edited = {s} /\ j.before.slot \in UserDefs[s] \cup {Free}
           /\ j.at = "Restoring" => j.job = "Set"
           /\ j.at = "Writing" => j.left = {}
           /\ DOMAIN j = {"at", "job", "edited", "next", "before", "text", "left"}
BY DEF Edits

LEMMA SlotIs ==
    ASSUME SchedulerRanges
    PROVE  /\ \A s \in Slots : slots[s] # Free => slots[s] \in AllDefs \/ slots[s] = SystemDay
           /\ \A s \in UserSlots : slots[s] \in UserDefs[s] \cup {Free}
           /\ slots[DayStartSlot] = SystemDay
           /\ slots = [s \in Slots |-> slots[s]]
<1>1. slots \in Tables
  BY DEF SchedulerRanges
<1> QED
  BY <1>1, SchedulerConstants DEF Tables

LEMMA TableIs ==
    ASSUME NEW t \in Texts
    PROVE  /\ WithSystem(t) \in Tables
           /\ \A s \in UserSlots : WithSystem(t)[s] = t[s]
<1>1. \A s \in UserSlots : WithSystem(t)[s] = t[s]
  BY SchedulerConstants DEF WithSystem
<1>2. WithSystem(t)[DayStartSlot] = SystemDay
  BY SchedulerConstants DEF WithSystem
<1>3. WithSystem(t) = [s \in Slots |-> WithSystem(t)[s]]
  BY DEF WithSystem
<1>4. \A s \in UserSlots : t[s] \in UserDefs[s] \cup {Free} /\ t[s] \in Values
  BY DEF Texts
<1>5. \A s \in Slots : WithSystem(t)[s] \in Values \cup {SystemDay}
  BY <1>1, <1>2, <1>4, SchedulerConstants
<1>6. WithSystem(t) \in [Slots -> Values \cup {SystemDay}]
  BY <1>3, <1>5
<1> HIDE DEF WithSystem
<1> QED
  BY <1>1, <1>2, <1>4, <1>6 DEF Tables, WithSystem

(* A slot given up still stands for what was promised.                     *)
LEMMA GivenUp ==
    ASSUME NEW a, NEW d \in Standing(a), d \in AllDefs, d.oneShot
    PROVE  Free \in Standing(a)
BY DEF Standing, Dated
-----------------------------------------------------------------------------
(* Where nothing that they mention changes, the parts of the invariant     *)
(* stay.                                                                   *)
LEMMA MaskStays ==
    ASSUME MaskIsTrue,
           settled' = FALSE \/ UNCHANGED <<settled, slots, minute, activeMask>>
    PROVE  MaskIsTrue'
<1>1. CASE settled' = FALSE
  BY <1>1 DEF MaskIsTrue
<1>2. CASE UNCHANGED <<settled, slots, minute, activeMask>>
  BY <1>2 DEF MaskIsTrue, Enabled
<1> QED
  BY <1>1, <1>2

LEMMA TriggersStay ==
    ASSUME TriggersOnce,
           \/ schedInitialized' = FALSE
           \/ fresh' = [s \in Slots |-> 0]
           \/ UNCHANGED <<schedInitialized, fresh, lastTrigger, slots, minute>>
    PROVE  TriggersOnce'
<1>1. CASE schedInitialized' = FALSE
  BY <1>1 DEF TriggersOnce
<1>2. CASE fresh' = [s \in Slots |-> 0]
  BY <1>2 DEF TriggersOnce
<1>3. CASE UNCHANGED <<schedInitialized, fresh, lastTrigger, slots, minute>>
  BY <1>3 DEF TriggersOnce, DueNow, Enabled, isTriggerNow, WeekDay, MinuteOfDay
<1> QED
  BY <1>1, <1>2, <1>3

LEMMA StoreStays ==
    ASSUME OneWrites, OneEdits, TextsKept, EditsKept,
           UNCHANGED <<edit, scheduleBlob, savedBlob, slots, accepted, excused, posted,
                       schedNeedsReload, loading>>
    PROVE  OneWrites' /\ OneEdits' /\ TextsKept' /\ EditsKept'
<1>1. OneWrites'
  BY DEF OneWrites
<1>2. OneEdits'
  BY DEF OneEdits
<1>3. TextsKept'
  BY DEF TextsKept
<1>4. EditsKept'
  BY DEF EditsKept, Promised
<1> QED
  BY <1>1, <1>2, <1>3, <1>4

(* An editor that was alone ends; what now stands is what was promised.    *)
LEMMA EditorEnds ==
    ASSUME NEW e \in Editors, SchedulerRanges, edit[e] # NoEdit, OneEdits,
           edit' = [edit EXCEPT ![e] = NoEdit], excused' = excused,
           ~excused => \A s \in UserSlots : /\ savedBlob'[s] \in Standing(accepted'[s])
                                            /\ slots'[s] \in Standing(accepted'[s])
    PROVE  OneEdits' /\ TextsKept' /\ EditsKept'
<1>1. ~excused => \A f \in Editors : edit'[f] = NoEdit
  BY DEF OneEdits, SchedulerRanges
<1>2. OneEdits'
  BY <1>1 DEF OneEdits
<1>3. TextsKept'
  BY DEF TextsKept
<1>4. EditsKept'
  BY <1>1 DEF EditsKept
<1> QED
  BY <1>2, <1>3, <1>4
-----------------------------------------------------------------------------
(* tickScheduler_: the mask tells what the windows cover.                  *)
LEMMA PassKeepsMask ==
    ASSUME SchedulerRanges, tickScheduler
    PROVE  MaskIsTrue'
<1> DEFINE covering == {s \in Enabled : slots[s].hasEnd /\ Covers(slots[s], minute)}
<1>1. /\ minute' = minute /\ activeMask' = {s \in Enabled : isActiveNow(slots[s])}
      /\ slots' = [s \in Slots |-> IF slots[s] # Free /\ IsOver(slots[s]) THEN Free ELSE slots[s]]
  BY DEF tickScheduler
<1>2. minute \in Nat
  BY SchedulerConstants DEF SchedulerRanges
<1>3. ASSUME NEW s \in Slots, slots'[s] # Free
      PROVE  slots'[s] = slots[s] /\ slots[s] # Free
  BY <1>1, <1>3
<1>4. ASSUME NEW s \in Enabled, slots[s].hasEnd
      PROVE  slots[s] \in AllDefs
  BY <1>4, SlotIs, SystemDayIs DEF Enabled
<1>5. ASSUME NEW s \in Slots, s \in Enabled', slots'[s].hasEnd, Covers(slots'[s], minute')
      PROVE  s \in activeMask'
  <2>1. slots'[s] = slots[s] /\ s \in Enabled
    BY <1>3, <1>5 DEF Enabled
  <2>2. slots[s] \in AllDefs /\ slots[s].hasEnd /\ Covers(slots[s], minute)
    BY <1>1, <1>4, <1>5, <2>1
  <2> QED
    BY <1>1, <1>2, <2>1, <2>2, WindowLemma
<1>6. ASSUME NEW s \in activeMask'
      PROVE  /\ s \in Enabled' /\ slots'[s].hasEnd
             /\ Covers(slots'[s], minute') \/ ~WithinADay(slots'[s])
  <2>1. s \in Enabled /\ isActiveNow(slots[s]) /\ s \in Slots /\ slots[s] # Free
    BY <1>1, <1>6 DEF Enabled
  <2>2. slots[s].hasEnd
    BY <2>1 DEF isActiveNow, isRecurringActiveNow
  <2>3. slots[s] \in AllDefs
    BY <1>4, <2>1, <2>2
  <2>4. ~IsOver(slots[s])
    <3>1. CASE slots[s].oneShot
      <4>1. minute < slots[s].end
        BY <1>2, <2>1, <2>3, <3>1, SchedulerConstants DEF isActiveNow
      <4> QED
        BY <1>2, <2>2, <2>3, <4>1, SchedulerConstants DEF IsOver
    <3>2. CASE ~slots[s].oneShot
      BY <3>2 DEF IsOver
    <3> QED
      BY <3>1, <3>2
  <2>5. slots'[s] = slots[s]
    BY <1>1, <2>1, <2>4
  <2>6. Covers(slots[s], minute) \/ ~WithinADay(slots[s])
    BY <1>2, <2>1, <2>2, <2>3, WindowLemma
  <2>7. s \in Enabled'
    BY <2>1, <2>5 DEF Enabled
  <2> QED
    BY <1>1, <2>2, <2>5, <2>6, <2>7
<1>7. covering' \subseteq activeMask'
  BY <1>5 DEF Enabled
<1>8. \A s \in activeMask' \ covering' : ~WithinADay(slots'[s])
  BY <1>6
<1> QED
  BY <1>7, <1>8 DEF MaskIsTrue

LEMMA PassKeepsTriggers ==
    ASSUME SchedulerFlags, SchedulerRanges, TriggersOnce, tickScheduler
    PROVE  TriggersOnce' /\ fresh' \in [Slots -> {0, 1}] /\ lastTrigger' \in [Slots -> Minutes]
<1> DEFINE triggers == {s \in Enabled : isTriggerNow(slots[s]) /\ lastTrigger[s] # minute}
<1>1. /\ minute' = minute
      /\ lastTrigger' = [s \in Slots |-> IF s \in triggers THEN minute ELSE lastTrigger[s]]
      /\ fresh' = [s \in Slots |->
                     IF s \in triggers /\ schedInitialized /\ fresh[s] < 2
                     THEN fresh[s] + 1 ELSE fresh[s]]
      /\ slots' = [s \in Slots |-> IF slots[s] # Free /\ IsOver(slots[s]) THEN Free ELSE slots[s]]
  BY DEF tickScheduler
<1>2. minute \in Minutes
  BY DEF SchedulerRanges, Minutes
<1>3. lastTrigger' \in [Slots -> Minutes]
  <2> HIDE DEF triggers
  <2> QED
    BY <1>1, <1>2 DEF SchedulerRanges
<1>4. \A s \in triggers : schedInitialized => fresh[s] = 0
  BY DEF TriggersOnce, DueNow, SchedulerRanges, Enabled
<1>5. fresh' \in [Slots -> {0, 1}]
  <2> HIDE DEF triggers
  <2>1. fresh \in [Slots -> {0, 1}]
    BY DEF SchedulerRanges
  <2>2. \A s \in Slots : fresh'[s] \in {0, 1}
    BY <1>1, <1>4, <2>1
  <2>3. fresh' = [s \in Slots |-> fresh'[s]]
    BY <1>1
  <2> QED
    BY <2>2, <2>3
<1>6. ASSUME NEW s \in Slots, s \in DueNow'
      PROVE  lastTrigger'[s] = minute'
  <2>1. slots'[s] # Free /\ slots'[s] = slots[s] /\ slots[s].enabled
    BY <1>1, <1>6 DEF DueNow, Enabled
  <2>2. isTriggerNow(slots[s])
    BY <1>1, <1>6, <2>1 DEF DueNow, isTriggerNow, WeekDay, MinuteOfDay
  <2>3. s \in Enabled
    BY <2>1 DEF Enabled
  <2>4. s \in triggers \/ lastTrigger[s] = minute
    BY <2>2, <2>3
  <2> HIDE DEF triggers
  <2> QED
    BY <1>1, <2>4
<1>7. TriggersOnce'
  BY <1>6 DEF TriggersOnce
<1> QED
  BY <1>3, <1>5, <1>7

LEMMA PassKeepsStore ==
    ASSUME SchedulerRanges, OneWrites, OneEdits, TextsKept, EditsKept, tickScheduler
    PROVE  OneWrites' /\ OneEdits' /\ TextsKept' /\ EditsKept' /\ slots' \in Tables
<1>1. /\ UNCHANGED <<edit, scheduleBlob, savedBlob, accepted, excused, posted, schedNeedsReload,
                     loading>>
      /\ slots' = [s \in Slots |-> IF slots[s] # Free /\ IsOver(slots[s]) THEN Free ELSE slots[s]]
  BY DEF tickScheduler, promise
<1>2. ASSUME NEW s \in UserSlots
      PROVE  \A a : slots[s] \in Standing(a) => slots'[s] \in Standing(a)
  <2>1. slots[s] \in UserDefs[s] \cup {Free} /\ s \in Slots
    BY SlotIs, SchedulerConstants
  <2>2. slots'[s] = slots[s] \/ (slots'[s] = Free /\ slots[s] # Free /\ slots[s].oneShot)
    BY <1>1, <2>1 DEF IsOver
  <2>3. slots[s] # Free => slots[s] \in AllDefs
    BY <2>1, SchedulerConstants
  <2> QED
    BY <2>2, <2>3, GivenUp
<1>3. slots' \in Tables
  <2>1. ~IsOver(SystemDay)
    BY SystemDayIs DEF IsOver
  <2>2. slots'[DayStartSlot] = SystemDay
    BY <1>1, <2>1, SlotIs, SchedulerConstants
  <2>3. \A s \in UserSlots : slots'[s] \in UserDefs[s] \cup {Free}
    BY <1>1, SlotIs, SchedulerConstants
  <2>4. \A s \in Slots : slots'[s] \in Values \cup {SystemDay}
    BY <2>2, <2>3, SchedulerConstants DEF Values
  <2>5. slots' = [s \in Slots |-> slots'[s]]
    BY <1>1
  <2>6. slots' \in [Slots -> Values \cup {SystemDay}]
    BY <2>4, <2>5
  <2> QED
    BY <2>2, <2>3, <2>6 DEF Tables
<1>4. OneWrites' /\ OneEdits'
  BY <1>1 DEF OneWrites, OneEdits
<1>5. TextsKept'
  BY <1>1, <1>2 DEF TextsKept
<1>6. EditsKept'
  <2> SUFFICES ASSUME ~excused, NEW e \in Editors, NEW s \in UserSlots, edit[e] # NoEdit
               PROVE  /\ edit[e].at # "Restoring" =>
                            /\ slots'[s] \in Standing(Promised(e, s))
                            /\ s \notin edit[e].left =>
                                  edit[e].text[s] \in Standing(Promised(e, s))
                      /\ s \notin edit[e].edited => slots'[s] \in Standing(accepted[s])
                      /\ s \in edit[e].edited /\ edit[e].job = "Set" =>
                            edit[e].before.slot \in Standing(accepted[s])
    BY <1>1 DEF EditsKept, Promised
  <2> QED
    BY <1>2 DEF EditsKept
<1> QED
  BY <1>3, <1>4, <1>5, <1>6

LEMMA PassKeeps ==
    ASSUME SchedulerInv, tickScheduler
    PROVE  SchedulerInv'
<1>1. SchedulerFlags'
  BY DEF tickScheduler, promise, SchedulerInv, SchedulerFlags
<1>2. activeMask' \subseteq Slots /\ active' \subseteq Slots
  BY DEF tickScheduler, Enabled
<1>3. /\ UNCHANGED <<minute, scheduleBlob, savedBlob, accepted, edit>>
  BY DEF tickScheduler, promise
<1>4. /\ SchedulerFlags /\ SchedulerRanges /\ TriggersOnce
      /\ OneWrites /\ OneEdits /\ TextsKept /\ EditsKept
  BY DEF SchedulerInv
<1>5. MaskIsTrue'
  BY <1>4, PassKeepsMask
<1>6. TriggersOnce' /\ fresh' \in [Slots -> {0, 1}] /\ lastTrigger' \in [Slots -> Minutes]
  BY <1>4, PassKeepsTriggers
<1>7. OneWrites' /\ OneEdits' /\ TextsKept' /\ EditsKept' /\ slots' \in Tables
  BY <1>4, PassKeepsStore
<1>8. SchedulerRanges'
  BY <1>2, <1>3, <1>4, <1>6, <1>7 DEF SchedulerRanges
<1> QED
  BY <1>1, <1>5, <1>6, <1>7, <1>8 DEF SchedulerInv
-----------------------------------------------------------------------------
(* An edit starts.                                                         *)
LEMMA BeginKeeps ==
    ASSUME SchedulerInv, NEW e \in Editors, NEW edited \in SUBSET Slots, NEW next \in Values,
           NEW job \in {"Set", "Clear"}, NEW before \in Befores \cup {Nil},
           \A s \in edited \cap UserSlots : next \in UserDefs[s] \cup {Free},
           job = "Set" => /\ before \in Befores
                          /\ \E s \in UserSlots : edited = {s} /\ before.slot = slots[s],
           Begin(e, edited, next, job, before), schedInitialized' \in BOOLEAN,
           \/ schedInitialized' = FALSE
           \/ schedInitialized' = schedInitialized /\ DayStartSlot \notin edited
    PROVE  SchedulerInv'
<1> DEFINE new == [at |-> "Serialising", job |-> job, edited |-> edited, next |-> next,
                   before |-> before, text |-> NoSlots, left |-> UserSlots]
<1>1. /\ edit[e] = NoEdit /\ ~loading
      /\ slots' = [s \in Slots |-> IF s \in edited \cap UserSlots THEN next ELSE slots[s]]
      /\ active' = active \ edited /\ activeMask' = activeMask \ edited
      /\ lastTrigger' = [s \in Slots |-> IF s \in edited THEN NoMinute ELSE lastTrigger[s]]
      /\ fresh' = [s \in Slots |-> IF s \in edited \cap UserSlots THEN 0 ELSE fresh[s]]
      /\ edit' = [edit EXCEPT ![e] = new]
      /\ excused' = (excused \/ ~AtRest)
      /\ settled' = FALSE
      /\ UNCHANGED <<minute, isSynced, passing, schedNeedsReload, loading, scheduleBlob, savedBlob,
                     posted, accepted, passed>>
  BY DEF Begin, clocks, store
<1>2. /\ SchedulerFlags /\ SchedulerRanges /\ MaskIsTrue /\ TriggersOnce
      /\ OneWrites /\ OneEdits /\ TextsKept /\ EditsKept
  BY DEF SchedulerInv
<1>3. SchedulerFlags'
  BY <1>1, <1>2 DEF SchedulerFlags
<1>4. new \in Edits
  <2>1. NoSlots \in Texts
    BY DEF NoSlots, Texts, Values
  <2>2. job = "Set" => \E s \in UserSlots : edited = {s} /\ before.slot \in UserDefs[s] \cup {Free}
    BY <1>2, SlotIs
  <2> HIDE DEF NoSlots, Texts, Values, Befores, Nil
  <2> QED
    BY <2>1, <2>2 DEF Edits
<1> HIDE DEF new
<1>5. /\ edit'[e] = new
      /\ \A f \in Editors : f # e => edit'[f] = edit[f]
  BY <1>1, <1>2 DEF SchedulerRanges
<1>6. /\ slots'[DayStartSlot] = SystemDay
      /\ \A s \in UserSlots : slots'[s] = IF s \in edited THEN next ELSE slots[s]
  BY <1>1, <1>2, SlotIs, SchedulerConstants
<1>7. slots' \in Tables
  <2>1. \A s \in UserSlots : slots'[s] \in UserDefs[s] \cup {Free}
    BY <1>2, <1>6, SlotIs
  <2>2. \A s \in Slots : slots'[s] \in Values \cup {SystemDay}
    BY <2>1, <1>6, SchedulerConstants DEF Values
  <2>3. slots' = [s \in Slots |-> slots'[s]]
    BY <1>1
  <2>4. slots' \in [Slots -> Values \cup {SystemDay}]
    BY <2>2, <2>3
  <2> QED
    BY <2>1, <2>4, <1>6 DEF Tables
<1>8. SchedulerRanges'
  <2>1. lastTrigger' \in [Slots -> Minutes]
    BY <1>1, <1>2 DEF SchedulerRanges, Minutes
  <2>2. fresh' \in [Slots -> {0, 1}]
    BY <1>1, <1>2 DEF SchedulerRanges
  <2>3. edit' \in [Editors -> Edits \cup {NoEdit}]
    BY <1>1, <1>2, <1>4 DEF SchedulerRanges
  <2> QED
    BY <1>1, <1>2, <1>7, <2>1, <2>2, <2>3 DEF SchedulerRanges
<1>9. MaskIsTrue'
  BY <1>1, <1>2, MaskStays
<1>10. TriggersOnce'
  <2>1. CASE schedInitialized' = FALSE
    BY <1>2, <2>1, TriggersStay
  <2>2. CASE schedInitialized' = schedInitialized /\ DayStartSlot \notin edited
    <3>1. ASSUME NEW s \in Slots, schedInitialized', fresh'[s] # 0, s \in DueNow'
          PROVE  lastTrigger'[s] = minute'
      <4>1. s \notin edited
        BY <1>1, <2>2, <3>1, SchedulerConstants
      <4>2. slots'[s] = slots[s] /\ lastTrigger'[s] = lastTrigger[s] /\ fresh'[s] = fresh[s]
        BY <1>1, <4>1
      <4>3. s \in DueNow
        BY <1>1, <3>1, <4>2 DEF DueNow, Enabled, isTriggerNow, WeekDay, MinuteOfDay
      <4> QED
        BY <1>1, <1>2, <2>2, <3>1, <4>2, <4>3 DEF TriggersOnce
    <3> QED
      BY <3>1 DEF TriggersOnce
  <2> QED
    BY <2>1, <2>2
<1>11. new.at = "Serialising" /\ new # NoEdit /\ edit[e].at = "Idle"
  BY <1>1 DEF new, NoEdit
<1>12. OneWrites'
  BY <1>1, <1>2, <1>5, <1>11 DEF OneWrites
<1>13. ~excused' => ~excused /\ AtRest
  BY <1>1
<1>14. OneEdits'
  BY <1>1, <1>5, <1>13 DEF OneEdits, AtRest
<1>15. TextsKept'
  BY <1>1, <1>2, <1>5, <1>11, <1>13 DEF TextsKept
<1>16. ASSUME ~excused', NEW s \in UserSlots
       PROVE  /\ slots'[s] \in Standing(IF s \in edited THEN next ELSE accepted[s])
              /\ s \notin edited => slots'[s] \in Standing(accepted[s])
              /\ s \in edited /\ job = "Set" => before.slot \in Standing(accepted[s])
  <2>1. slots[s] \in Standing(accepted[s])
    BY <1>2, <1>13, <1>16 DEF TextsKept, AtRest
  <2>2. s \in edited => slots'[s] = next /\ next \in Standing(next)
    BY <1>6 DEF Standing
  <2>3. s \notin edited => slots'[s] = slots[s]
    BY <1>6
  <2> QED
    BY <2>1, <2>2, <2>3
<1>17. EditsKept'
  <2> SUFFICES ASSUME ~excused', NEW f \in Editors, NEW s \in UserSlots, edit'[f] # NoEdit
               PROVE  /\ edit'[f].at # "Restoring" =>
                            /\ slots'[s] \in Standing(IF s \in edit'[f].edited THEN edit'[f].next
                                                                              ELSE accepted'[s])
                            /\ s \notin edit'[f].left =>
                                  edit'[f].text[s] \in
                                    Standing(IF s \in edit'[f].edited THEN edit'[f].next
                                                                      ELSE accepted'[s])
                      /\ s \notin edit'[f].edited => slots'[s] \in Standing(accepted'[s])
                      /\ s \in edit'[f].edited /\ edit'[f].job = "Set" =>
                            edit'[f].before.slot \in Standing(accepted'[s])
    BY DEF EditsKept, Promised
  <2>1. f = e
    BY <1>5, <1>13 DEF AtRest
  <2>2. /\ edit'[f].edited = edited /\ edit'[f].next = next /\ edit'[f].job = job
        /\ edit'[f].before = before /\ edit'[f].left = UserSlots
    BY <1>5, <2>1 DEF new
  <2> QED
    BY <1>1, <1>16, <2>2
<1> QED
  BY <1>3, <1>8, <1>9, <1>10, <1>12, <1>14, <1>15, <1>17 DEF SchedulerInv

LEMMA EditKeeps ==
    ASSUME SchedulerInv, NEW e \in Editors,
           \/ \E s \in UserSlots : \E d \in UserDefs[s] : setSlot(e, s, d)
           \/ \E s \in UserSlots : clearSlot(e, s)
           \/ clearAllSlots(e)
    PROVE  SchedulerInv'
<1>1. SchedulerRanges /\ SchedulerFlags
  BY DEF SchedulerInv
<1>2. ASSUME NEW s \in UserSlots, NEW d \in UserDefs[s], setSlot(e, s, d)
      PROVE  SchedulerInv'
  <2> DEFINE was == [slot |-> slots[s], active |-> s \in active, lastTrigger |-> lastTrigger[s],
                     mask |-> activeMask, initialized |-> schedInitialized]
  <2>1. Begin(e, {s}, d, "Set", was) /\ schedInitialized' = FALSE
    BY <1>2 DEF setSlot
  <2>2. was \in Befores /\ was.slot = slots[s]
    <3>1. slots[s] \in Values
      BY <1>1, SlotIs, SchedulerConstants DEF Values
    <3>2. lastTrigger[s] \in Minutes
      BY <1>1, SchedulerConstants DEF SchedulerRanges
    <3>3. activeMask \in SUBSET Slots /\ schedInitialized \in BOOLEAN
      BY <1>1 DEF SchedulerRanges, SchedulerFlags
    <3> QED
      BY <3>1, <3>2, <3>3 DEF Befores
  <2>3. {s} \in SUBSET Slots /\ d \in Values
    BY SchedulerConstants DEF Values
  <2> HIDE DEF was
  <2> QED
    BY <2>1, <2>2, <2>3, BeginKeeps
<1>3. ASSUME NEW s \in UserSlots, clearSlot(e, s)
      PROVE  SchedulerInv'
  <2>1. Begin(e, {s}, Free, "Clear", Nil) /\ schedInitialized' = schedInitialized
    BY <1>3 DEF clearSlot
  <2>2. {s} \in SUBSET Slots /\ Free \in Values /\ DayStartSlot \notin {s}
    BY SchedulerConstants DEF Values
  <2> QED
    BY <1>1, <2>1, <2>2, BeginKeeps DEF SchedulerFlags
<1>4. ASSUME clearAllSlots(e)
      PROVE  SchedulerInv'
  <2>1. Begin(e, Slots, Free, "Clear", Nil) /\ schedInitialized' = FALSE
    BY <1>4 DEF clearAllSlots
  <2>2. Slots \in SUBSET Slots /\ Free \in Values
    BY DEF Values
  <2> QED
    BY <2>1, <2>2, BeginKeeps
<1> QED
  BY <1>2, <1>3, <1>4
-----------------------------------------------------------------------------
(* The steps of an edit that leave the table alone.                        *)
LEMMA SameTable ==
    ASSUME SchedulerInv,
           UNCHANGED <<clocks, table, schedNeedsReload, loading, passed, settled, fresh>>
    PROVE  /\ MaskIsTrue' /\ TriggersOnce'
           /\ posted' \in BOOLEAN /\ excused' \in BOOLEAN => SchedulerFlags'
           /\ /\ scheduleBlob' \in Texts /\ savedBlob' \in Texts /\ accepted' \in Texts
              /\ edit' \in [Editors -> Edits \cup {NoEdit}]
              => SchedulerRanges'
<1>1. SchedulerFlags /\ SchedulerRanges /\ MaskIsTrue /\ TriggersOnce
  BY DEF SchedulerInv
<1>2. MaskIsTrue'
  BY <1>1, MaskStays DEF clocks, table
<1>3. TriggersOnce'
  BY <1>1, TriggersStay DEF clocks, table
<1>4. posted' \in BOOLEAN /\ excused' \in BOOLEAN => SchedulerFlags'
  BY <1>1 DEF SchedulerFlags, clocks, table
<1>5. /\ scheduleBlob' \in Texts /\ savedBlob' \in Texts /\ accepted' \in Texts
      /\ edit' \in [Editors -> Edits \cup {NoEdit}]
      => SchedulerRanges'
  BY <1>1 DEF SchedulerRanges, clocks, table
<1> QED
  BY <1>2, <1>3, <1>4, <1>5

LEMMA SerializeKeeps ==
    ASSUME SchedulerInv, NEW e \in Editors, serializeSlot(e)
    PROVE  SchedulerInv'
<1>1. PICK r \in edit[e].left :
         edit' = [edit EXCEPT ![e].text[r] = slots[r], ![e].left = @ \ {r}]
  BY DEF serializeSlot
<1>2. /\ edit[e].at = "Serialising"
      /\ UNCHANGED <<clocks, table, schedNeedsReload, loading, passed, settled, fresh>>
      /\ UNCHANGED <<scheduleBlob, savedBlob, posted, accepted, excused>>
  BY DEF serializeSlot, store, promise
<1>3. /\ SchedulerFlags /\ SchedulerRanges
      /\ OneWrites /\ OneEdits /\ TextsKept /\ EditsKept
  BY DEF SchedulerInv
<1>4. slots' = slots
  BY <1>2 DEF table
<1>5. edit[e] \in Edits /\ edit[e] # NoEdit
  BY <1>2, <1>3, EditIs
<1> DEFINE j == edit[e]
           k == edit'[e]
<1>6. r \in UserSlots
  BY <1>5, EditHas
<1>7. /\ \A f \in Editors : f # e => edit'[f] = edit[f]
      /\ k = [j EXCEPT !.text[r] = slots[r], !.left = @ \ {r}]
      /\ edit' = [edit EXCEPT ![e] = k]
  BY <1>1, <1>3 DEF SchedulerRanges
<1>8. k = [j EXCEPT !.text = [j.text EXCEPT ![r] = slots[r]], !.left = j.left \ {r}]
  BY <1>7
<1>9. j \in Edits
  BY <1>5
<1> HIDE DEF j, k
<1>10. /\ k.at = j.at /\ k.job = j.job /\ k.edited = j.edited /\ k.next = j.next
       /\ k.before = j.before /\ k.left = j.left \ {r}
       /\ k.text = [j.text EXCEPT ![r] = slots[r]]
  BY <1>8, <1>9, EditHas
<1>11. [j.text EXCEPT ![r] = slots[r]] \in Texts
  <2>1. j.text \in Texts /\ slots[r] \in UserDefs[r] \cup {Free} /\ slots[r] \in Values
    BY <1>3, <1>6, <1>9, EditHas, SlotIs, SchedulerConstants DEF Values
  <2> HIDE DEF Values
  <2> QED
    BY <1>6, <2>1 DEF Texts
<1>12. k \in Edits
  <2>1. j.left \ {r} \subseteq UserSlots
    BY <1>9, EditHas
  <2>2. k \in [at : {"Serialising", "Writing", "Restoring"}, job : {"Set", "Clear"},
               edited : SUBSET Slots, next : Values, before : Befores \cup {Nil}, text : Texts,
               left : SUBSET UserSlots]
    BY <1>8, <1>9, <1>11, <2>1 DEF Edits
  <2> HIDE DEF Texts, Values, Befores, Nil
  <2>3. /\ \A s \in k.edited \cap UserSlots : k.next \in UserDefs[s] \cup {Free}
        /\ k.job = "Set" =>
              /\ k.before \in Befores
              /\ \E s \in UserSlots : k.edited = {s} /\ k.before.slot \in UserDefs[s] \cup {Free}
        /\ k.at = "Restoring" => k.job = "Set"
        /\ k.at = "Writing" => k.left = {}
    BY <1>9, <1>10, EditHas
  <2> QED
    BY <2>2, <2>3 DEF Edits
<1>13. SchedulerRanges' /\ SchedulerFlags' /\ MaskIsTrue' /\ TriggersOnce'
  <2>1. edit' \in [Editors -> Edits \cup {NoEdit}]
    BY <1>3, <1>7, <1>12 DEF SchedulerRanges
  <2> QED
    BY <1>2, <1>3, <2>1, SameTable DEF SchedulerFlags, SchedulerRanges
<1>14. j.at = "Serialising" /\ j # NoEdit /\ k # NoEdit /\ k = edit'[e] /\ j = edit[e]
  <2>1. j.at = "Serialising" /\ j # NoEdit /\ k = edit'[e] /\ j = edit[e]
    BY <1>2, <1>5 DEF j, k
  <2>2. NoEdit.at = "Idle"
    BY DEF NoEdit
  <2> QED
    BY <1>10, <2>1, <2>2
<1>15. OneWrites'
  BY <1>2, <1>3, <1>7, <1>10, <1>14 DEF OneWrites
<1>16. OneEdits'
  BY <1>2, <1>3, <1>7, <1>14 DEF OneEdits
<1>17. TextsKept'
  BY <1>2, <1>3, <1>4, <1>7, <1>14 DEF TextsKept
<1>18. EditsKept'
  <2> SUFFICES ASSUME ~excused, NEW f \in Editors, NEW s \in UserSlots, edit'[f] # NoEdit
               PROVE  /\ edit'[f].at # "Restoring" =>
                            /\ slots[s] \in Standing(IF s \in edit'[f].edited THEN edit'[f].next
                                                                              ELSE accepted[s])
                            /\ s \notin edit'[f].left =>
                                  edit'[f].text[s] \in
                                    Standing(IF s \in edit'[f].edited THEN edit'[f].next
                                                                      ELSE accepted[s])
                      /\ s \notin edit'[f].edited => slots[s] \in Standing(accepted[s])
                      /\ s \in edit'[f].edited /\ edit'[f].job = "Set" =>
                            edit'[f].before.slot \in Standing(accepted[s])
    BY <1>2, <1>4 DEF EditsKept, Promised
  <2>1. f = e
    BY <1>3, <1>7, <1>14 DEF OneEdits
  <2>2. /\ slots[s] \in Standing(IF s \in j.edited THEN j.next ELSE accepted[s])
        /\ s \notin j.left =>
              j.text[s] \in Standing(IF s \in j.edited THEN j.next ELSE accepted[s])
        /\ s \notin j.edited => slots[s] \in Standing(accepted[s])
        /\ s \in j.edited /\ j.job = "Set" => j.before.slot \in Standing(accepted[s])
    BY <1>3, <1>14 DEF EditsKept, Promised
  <2>3. DOMAIN j.text = UserSlots
    BY <1>9, EditHas DEF Texts
  <2>4. k.text[s] = IF s = r THEN slots[s] ELSE j.text[s]
    BY <1>6, <1>10, <2>3
  <2>5. s \notin k.left =>
          k.text[s] \in Standing(IF s \in j.edited THEN j.next ELSE accepted[s])
    BY <1>10, <2>2, <2>4
  <2> QED
    BY <1>10, <1>14, <2>1, <2>2, <2>5
<1> QED
  BY <1>13, <1>15, <1>16, <1>17, <1>18 DEF SchedulerInv

(* What an editor answers is a text, and what it had promised.             *)
LEMMA AnswerIs ==
    ASSUME SchedulerRanges, NEW e \in Editors, edit[e] \in Edits, Answered(e)
    PROVE  /\ accepted' \in Texts
           /\ \A s \in UserSlots : accepted'[s] = Promised(e, s)
<1>1. accepted' = [s \in UserSlots |-> IF s \in edit[e].edited THEN edit[e].next ELSE accepted[s]]
  BY DEF Answered
<1>2. \A s \in UserSlots : accepted'[s] = Promised(e, s)
  BY <1>1 DEF Promised
<1>3. \A s \in UserSlots : accepted[s] \in UserDefs[s] \cup {Free}
  BY DEF SchedulerRanges, Texts
<1>4. \A s \in UserSlots : s \in edit[e].edited => edit[e].next \in UserDefs[s] \cup {Free}
  BY EditHas
<1>5. \A s \in UserSlots : accepted'[s] \in UserDefs[s] \cup {Free}
  BY <1>1, <1>3, <1>4
<1>6. \A s \in UserSlots : accepted'[s] \in Values
  BY <1>5, SchedulerConstants DEF Values
<1>7. accepted' = [s \in UserSlots |-> accepted'[s]]
  BY <1>1
<1>8. accepted' \in [UserSlots -> Values]
  BY <1>6, <1>7
<1> QED
  BY <1>2, <1>5, <1>8 DEF Texts
LEMMA EditMoves ==
    ASSUME NEW j \in Edits, NEW x \in {"Writing", "Restoring"},
           x = "Restoring" => j.job = "Set", x = "Writing" => j.left = {}
    PROVE  LET k == [j EXCEPT !.at = x]
           IN  /\ k \in Edits /\ k.at = x
               /\ k.job = j.job /\ k.edited = j.edited /\ k.next = j.next /\ k.before = j.before
               /\ k.left = j.left /\ k.text = j.text
<1> DEFINE k == [j EXCEPT !.at = x]
<1>1. /\ k.at = x
      /\ k.job = j.job /\ k.edited = j.edited /\ k.next = j.next /\ k.before = j.before
      /\ k.left = j.left /\ k.text = j.text
  BY EditHas
<1>2. k \in [at : {"Serialising", "Writing", "Restoring"}, job : {"Set", "Clear"},
             edited : SUBSET Slots, next : Values, before : Befores \cup {Nil}, text : Texts,
             left : SUBSET UserSlots]
  BY DEF Edits
<1> HIDE DEF k
<1>3. /\ \A s \in k.edited \cap UserSlots : k.next \in UserDefs[s] \cup {Free}
      /\ k.job = "Set" =>
            /\ k.before \in Befores
            /\ \E s \in UserSlots : k.edited = {s} /\ k.before.slot \in UserDefs[s] \cup {Free}
      /\ k.at = "Restoring" => k.job = "Set"
      /\ k.at = "Writing" => k.left = {}
  BY <1>1, EditHas
<1>4. k \in Edits
  BY <1>2, <1>3 DEF Edits
<1> QED
  BY <1>1, <1>4 DEF k

(* ConfigStore::set, its two ends and setSlot_'s way back.                 *)
LEMMA StoreKeeps ==
    ASSUME SchedulerInv, NEW e \in Editors, storeText(e)
    PROVE  SchedulerInv'
<1>1. /\ edit[e].at = "Serialising" /\ edit[e].left = {} /\ Writing = {}
      /\ UNCHANGED <<clocks, table, schedNeedsReload, loading, passed, settled, fresh>>
      /\ UNCHANGED <<savedBlob, posted, excused>>
  BY DEF storeText
<1>2. /\ SchedulerFlags /\ SchedulerRanges
      /\ OneWrites /\ OneEdits /\ TextsKept /\ EditsKept
  BY DEF SchedulerInv
<1>3. slots' = slots
  BY <1>1 DEF table
<1>4. edit[e] \in Edits /\ edit[e] # NoEdit
  BY <1>1, <1>2, EditIs
<1>5. scheduleBlob = savedBlob /\ \A f \in Editors : edit[f].at # "Writing"
  BY <1>1, <1>2 DEF OneWrites, Writing
<1>6. CASE edit[e].text = scheduleBlob
  <2>1. edit' = [edit EXCEPT ![e] = NoEdit] /\ Answered(e) /\ scheduleBlob' = scheduleBlob
    BY <1>6 DEF storeText
  <2>2. accepted' \in Texts /\ \A s \in UserSlots : accepted'[s] = Promised(e, s)
    BY <1>2, <1>4, <2>1, AnswerIs
  <2>3. edit' \in [Editors -> Edits \cup {NoEdit}]
    BY <1>2, <2>1 DEF SchedulerRanges
  <2>4. SchedulerFlags' /\ SchedulerRanges' /\ MaskIsTrue' /\ TriggersOnce'
    BY <1>1, <1>2, <2>1, <2>2, <2>3, SameTable DEF SchedulerFlags, SchedulerRanges
  <2>5. NoEdit.at # "Writing"
    BY DEF NoEdit
  <2>6. \A f \in Editors : edit'[f].at # "Writing"
    BY <1>2, <1>5, <2>1, <2>5 DEF SchedulerRanges
  <2>7. OneWrites'
    BY <1>1, <1>5, <2>1, <2>6 DEF OneWrites
  <2>8. ~excused => \A s \in UserSlots : /\ savedBlob'[s] \in Standing(accepted'[s])
                                         /\ slots'[s] \in Standing(accepted'[s])
    BY <1>1, <1>2, <1>3, <1>4, <1>5, <1>6, <2>2 DEF EditsKept
  <2>9. OneEdits' /\ TextsKept' /\ EditsKept'
    BY <1>1, <1>2, <1>4, <2>1, <2>8, EditorEnds
  <2> QED
    BY <2>4, <2>7, <2>9 DEF SchedulerInv
<1>7. CASE edit[e].text # scheduleBlob
  <2> DEFINE k == [edit[e] EXCEPT !.at = "Writing"]
  <2>1. edit' = [edit EXCEPT ![e] = k] /\ scheduleBlob' = edit[e].text /\ accepted' = accepted
    BY <1>7 DEF storeText
  <2>2. /\ k \in Edits /\ k.at = "Writing"
        /\ k.job = edit[e].job /\ k.edited = edit[e].edited /\ k.next = edit[e].next
        /\ k.before = edit[e].before /\ k.left = edit[e].left /\ k.text = edit[e].text
    BY <1>1, <1>4, EditMoves
  <2> HIDE DEF k
  <2>3. /\ edit' \in [Editors -> Edits \cup {NoEdit}]
        /\ edit'[e] = k /\ \A f \in Editors : f # e => edit'[f] = edit[f]
    BY <1>2, <2>1, <2>2 DEF SchedulerRanges
  <2>4. edit[e].text \in Texts
    BY <1>4, EditHas
  <2>5. SchedulerFlags' /\ SchedulerRanges' /\ MaskIsTrue' /\ TriggersOnce'
    BY <1>1, <1>2, <2>1, <2>3, <2>4, SameTable DEF SchedulerFlags, SchedulerRanges
  <2>6. k # NoEdit
    BY <2>2 DEF NoEdit
  <2>7. OneWrites'
    BY <1>5, <2>1, <2>2, <2>3 DEF OneWrites
  <2>8. OneEdits'
    BY <1>1, <1>2, <1>4, <2>3 DEF OneEdits
  <2>9. TextsKept'
    BY <1>1, <1>2, <1>3, <2>1, <2>3, <2>6 DEF TextsKept
  <2>10. EditsKept'
    <3> SUFFICES ASSUME ~excused, NEW f \in Editors, NEW s \in UserSlots, edit'[f] # NoEdit
                 PROVE  /\ edit'[f].at # "Restoring" =>
                              /\ slots[s] \in Standing(IF s \in edit'[f].edited THEN edit'[f].next
                                                                                ELSE accepted[s])
                              /\ s \notin edit'[f].left =>
                                    edit'[f].text[s] \in
                                      Standing(IF s \in edit'[f].edited THEN edit'[f].next
                                                                        ELSE accepted[s])
                        /\ s \notin edit'[f].edited => slots[s] \in Standing(accepted[s])
                        /\ s \in edit'[f].edited /\ edit'[f].job = "Set" =>
                              edit'[f].before.slot \in Standing(accepted[s])
      BY <1>1, <1>3, <2>1 DEF EditsKept, Promised
    <3>1. f = e
      BY <1>2, <1>4, <2>3 DEF OneEdits
    <3> QED
      BY <1>1, <1>2, <1>4, <2>2, <2>3, <3>1 DEF EditsKept, Promised
  <2> QED
    BY <2>5, <2>7, <2>8, <2>9, <2>10 DEF SchedulerInv
<1> QED
  BY <1>6, <1>7

LEMMA StoredKeeps ==
    ASSUME SchedulerInv, NEW e \in Editors, Stored(e)
    PROVE  SchedulerInv'
<1>1. /\ edit[e].at = "Writing" /\ savedBlob' = scheduleBlob /\ posted' \in {TRUE, posted}
      /\ edit' = [edit EXCEPT ![e] = NoEdit] /\ Answered(e)
      /\ UNCHANGED <<clocks, table, schedNeedsReload, loading, passed, settled, fresh>>
      /\ UNCHANGED <<scheduleBlob, excused>>
  BY DEF Stored
<1>2. /\ SchedulerFlags /\ SchedulerRanges
      /\ OneWrites /\ OneEdits /\ TextsKept /\ EditsKept
  BY DEF SchedulerInv
<1>3. slots' = slots
  BY <1>1 DEF table
<1>4. edit[e] \in Edits /\ edit[e] # NoEdit
  BY <1>1, <1>2, EditIs
<1>5. /\ scheduleBlob = edit[e].text
      /\ \A f \in Editors : edit[f].at = "Writing" => f = e
  BY <1>1, <1>2 DEF OneWrites
<1>6. accepted' \in Texts /\ \A s \in UserSlots : accepted'[s] = Promised(e, s)
  BY <1>1, <1>2, <1>4, AnswerIs
<1>7. edit' \in [Editors -> Edits \cup {NoEdit}]
  BY <1>1, <1>2 DEF SchedulerRanges
<1>8. SchedulerFlags' /\ SchedulerRanges' /\ MaskIsTrue' /\ TriggersOnce'
  <2>1. posted' \in BOOLEAN /\ excused' \in BOOLEAN
    BY <1>1, <1>2 DEF SchedulerFlags
  <2> QED
    BY <1>1, <1>2, <1>6, <1>7, <2>1, SameTable DEF SchedulerRanges
<1>9. NoEdit.at # "Writing"
  BY DEF NoEdit
<1>10. \A f \in Editors : edit'[f].at # "Writing"
  BY <1>1, <1>2, <1>5, <1>9 DEF SchedulerRanges
<1>11. OneWrites'
  BY <1>1, <1>10 DEF OneWrites
<1>12. ~excused => \A s \in UserSlots : /\ savedBlob'[s] \in Standing(accepted'[s])
                                        /\ slots'[s] \in Standing(accepted'[s])
  <2>1. edit[e].left = {}
    BY <1>1, <1>4, EditHas
  <2> QED
    BY <1>1, <1>2, <1>3, <1>4, <1>5, <1>6, <2>1 DEF EditsKept
<1>13. OneEdits' /\ TextsKept' /\ EditsKept'
  BY <1>1, <1>2, <1>4, <1>12, EditorEnds
<1> QED
  BY <1>8, <1>11, <1>13 DEF SchedulerInv

LEMMA RefusedKeeps ==
    ASSUME SchedulerInv, NEW e \in Editors, Refused(e)
    PROVE  SchedulerInv'
<1>1. /\ edit[e].at = "Writing" /\ scheduleBlob' = savedBlob
      /\ UNCHANGED <<clocks, table, schedNeedsReload, loading, passed, settled, fresh>>
      /\ UNCHANGED <<savedBlob, posted, accepted>>
  BY DEF Refused
<1>2. /\ SchedulerFlags /\ SchedulerRanges
      /\ OneWrites /\ OneEdits /\ TextsKept /\ EditsKept
  BY DEF SchedulerInv
<1>3. slots' = slots
  BY <1>1 DEF table
<1>4. edit[e] \in Edits /\ edit[e] # NoEdit
  BY <1>1, <1>2, EditIs
<1>5. \A f \in Editors : edit[f].at = "Writing" => f = e
  BY <1>1, <1>2 DEF OneWrites
<1>6. savedBlob \in Texts /\ accepted \in Texts
  BY <1>2 DEF SchedulerRanges
<1>7. CASE edit[e].job = "Set"
  <2> DEFINE k == [edit[e] EXCEPT !.at = "Restoring"]
  <2>1. edit' = [edit EXCEPT ![e] = k] /\ excused' = excused
    BY <1>7 DEF Refused
  <2>2. /\ k \in Edits /\ k.at = "Restoring"
        /\ k.job = edit[e].job /\ k.edited = edit[e].edited /\ k.next = edit[e].next
        /\ k.before = edit[e].before /\ k.left = edit[e].left /\ k.text = edit[e].text
    BY <1>4, <1>7, EditMoves
  <2> HIDE DEF k
  <2>3. /\ edit' \in [Editors -> Edits \cup {NoEdit}]
        /\ edit'[e] = k /\ \A f \in Editors : f # e => edit'[f] = edit[f]
    BY <1>2, <2>1, <2>2 DEF SchedulerRanges
  <2>4. SchedulerFlags' /\ SchedulerRanges' /\ MaskIsTrue' /\ TriggersOnce'
    BY <1>1, <1>2, <1>6, <2>1, <2>3, SameTable DEF SchedulerFlags
  <2>5. k # NoEdit
    BY <2>2 DEF NoEdit
  <2>6. \A f \in Editors : edit'[f].at # "Writing"
    BY <1>5, <2>2, <2>3
  <2>7. OneWrites'
    BY <1>1, <2>6 DEF OneWrites
  <2>8. OneEdits'
    BY <1>1, <1>2, <1>4, <2>1, <2>3 DEF OneEdits
  <2>9. TextsKept'
    BY <1>1, <1>2, <1>3, <2>1, <2>3, <2>5 DEF TextsKept
  <2>10. EditsKept'
    <3> SUFFICES ASSUME ~excused, NEW f \in Editors, NEW s \in UserSlots, edit'[f] # NoEdit
                 PROVE  /\ edit'[f].at = "Restoring"
                        /\ s \notin edit'[f].edited => slots[s] \in Standing(accepted[s])
                        /\ s \in edit'[f].edited /\ edit'[f].job = "Set" =>
                              edit'[f].before.slot \in Standing(accepted[s])
      BY <1>1, <1>3, <2>1 DEF EditsKept
    <3>1. f = e
      BY <1>2, <1>4, <2>3 DEF OneEdits
    <3> QED
      BY <1>1, <1>2, <1>4, <2>2, <2>3, <3>1 DEF EditsKept
  <2> QED
    BY <2>4, <2>7, <2>8, <2>9, <2>10 DEF SchedulerInv
<1>8. CASE edit[e].job # "Set"
  <2>1. edit' = [edit EXCEPT ![e] = NoEdit] /\ excused' = TRUE
    BY <1>8 DEF Refused
  <2>2. edit' \in [Editors -> Edits \cup {NoEdit}]
    BY <1>2, <2>1 DEF SchedulerRanges
  <2>3. SchedulerFlags' /\ SchedulerRanges' /\ MaskIsTrue' /\ TriggersOnce'
    BY <1>1, <1>2, <1>6, <2>1, <2>2, SameTable DEF SchedulerFlags
  <2>4. NoEdit.at # "Writing"
    BY DEF NoEdit
  <2>5. \A f \in Editors : edit'[f].at # "Writing"
    BY <1>2, <1>5, <2>1, <2>4 DEF SchedulerRanges
  <2>6. OneWrites'
    BY <1>1, <2>5 DEF OneWrites
  <2>7. OneEdits' /\ TextsKept' /\ EditsKept'
    BY <2>1 DEF OneEdits, TextsKept, EditsKept
  <2> QED
    BY <2>3, <2>6, <2>7 DEF SchedulerInv
<1> QED
  BY <1>7, <1>8

LEMMA RestoreKeeps ==
    ASSUME SchedulerInv, NEW e \in Editors, Restore(e)
    PROVE  SchedulerInv'
<1> DEFINE before == edit[e].before
<1>1. PICK r \in edit[e].edited :
        /\ slots' = [slots EXCEPT ![r] = before.slot]
        /\ active' = IF before.active THEN active \cup {r} ELSE active \ {r}
        /\ lastTrigger' = [lastTrigger EXCEPT ![r] = before.lastTrigger]
        /\ fresh' = [u \in Slots |-> 0]
        /\ activeMask' = before.mask /\ schedInitialized' = before.initialized
  BY DEF Restore
<1>2. /\ edit[e].at = "Restoring" /\ ~loading /\ edit' = [edit EXCEPT ![e] = NoEdit]
      /\ settled' = FALSE
      /\ UNCHANGED <<minute, isSynced, passing, schedNeedsReload, loading, scheduleBlob, savedBlob,
                     posted, accepted, excused, passed>>
  BY DEF Restore, clocks, store, promise
<1>3. /\ SchedulerFlags /\ SchedulerRanges /\ MaskIsTrue /\ TriggersOnce
      /\ OneWrites /\ OneEdits /\ TextsKept /\ EditsKept
  BY DEF SchedulerInv
<1>4. edit[e] \in Edits /\ edit[e] # NoEdit
  BY <1>2, <1>3, EditIs
<1>5. /\ edit[e].job = "Set" /\ r \in UserSlots /\ edit[e].edited = {r}
      /\ before \in Befores /\ before.slot \in UserDefs[r] \cup {Free}
  BY <1>1, <1>2, <1>4, EditHas
<1> HIDE DEF before
<1>6. /\ before.slot \in Values /\ before.active \in BOOLEAN /\ before.lastTrigger \in Minutes
      /\ before.mask \subseteq Slots /\ before.initialized \in BOOLEAN
  BY <1>5 DEF Befores
<1>7. /\ \A s \in Slots : slots'[s] = IF s = r THEN before.slot ELSE slots[s]
      /\ slots' \in Tables
  <2>1. slots \in [Slots -> Values \cup {SystemDay}] /\ r \in Slots /\ r # DayStartSlot
    BY <1>3, <1>5, SchedulerConstants DEF SchedulerRanges, Tables
  <2>2. \A s \in Slots : slots'[s] = IF s = r THEN before.slot ELSE slots[s]
    BY <1>1, <2>1
  <2>3. slots' \in [Slots -> Values \cup {SystemDay}]
    BY <1>1, <1>6, <2>1
  <2>4. slots'[DayStartSlot] = SystemDay
    BY <1>3, <2>1, <2>2, SlotIs, SchedulerConstants
  <2>5. \A s \in UserSlots : slots'[s] \in UserDefs[s] \cup {Free}
    BY <1>3, <1>5, <2>2, SlotIs, SchedulerConstants
  <2> QED
    BY <2>2, <2>3, <2>4, <2>5 DEF Tables
<1>8. SchedulerFlags'
  BY <1>1, <1>2, <1>3, <1>6 DEF SchedulerFlags
<1>9. SchedulerRanges'
  <2>1. active' \subseteq Slots /\ activeMask' \subseteq Slots
    BY <1>1, <1>3, <1>5, <1>6, SchedulerConstants DEF SchedulerRanges
  <2>2. lastTrigger' \in [Slots -> Minutes] /\ fresh' \in [Slots -> {0, 1}]
    BY <1>1, <1>3, <1>6 DEF SchedulerRanges
  <2>3. edit' \in [Editors -> Edits \cup {NoEdit}]
    BY <1>2, <1>3 DEF SchedulerRanges
  <2> QED
    BY <1>2, <1>3, <1>7, <2>1, <2>2, <2>3 DEF SchedulerRanges
<1>10. MaskIsTrue'
  BY <1>2, <1>3, MaskStays
<1>11. TriggersOnce'
  BY <1>1, <1>3, TriggersStay
<1>12. OneWrites'
  <2>1. NoEdit.at # "Writing"
    BY DEF NoEdit
  <2>2. \A f \in Editors : edit'[f] = IF f = e THEN NoEdit ELSE edit[f]
    BY <1>2, <1>3 DEF SchedulerRanges
  <2>3. \A f \in Editors : edit'[f].at = "Writing" => f # e /\ edit'[f] = edit[f]
    BY <2>1, <2>2
  <2>4. (\A f \in Editors : edit'[f].at # "Writing") => \A f \in Editors : edit[f].at # "Writing"
    BY <1>2, <2>2
  <2> QED
    BY <1>2, <1>3, <2>3, <2>4 DEF OneWrites
<1>13. ~excused => \A s \in UserSlots : /\ savedBlob'[s] \in Standing(accepted'[s])
                                        /\ slots'[s] \in Standing(accepted'[s])
  <2> SUFFICES ASSUME ~excused, NEW s \in UserSlots
               PROVE  slots'[s] \in Standing(accepted[s])
    BY <1>2, <1>3 DEF TextsKept
  <2>1. CASE s = r
    <3>1. before.slot \in Standing(accepted[s])
      BY <1>3, <1>4, <1>5, <2>1 DEF EditsKept, before
    <3> QED
      BY <1>7, <2>1, <3>1, SchedulerConstants
  <2>2. CASE s # r
    <3>1. slots[s] \in Standing(accepted[s])
      BY <1>3, <1>4, <1>5, <2>2 DEF EditsKept
    <3> QED
      BY <1>7, <2>2, <3>1, SchedulerConstants
  <2> QED
    BY <2>1, <2>2
<1>14. OneEdits' /\ TextsKept' /\ EditsKept'
  BY <1>2, <1>3, <1>4, <1>13, EditorEnds
<1> QED
  BY <1>8, <1>9, <1>10, <1>11, <1>12, <1>14 DEF SchedulerInv
-----------------------------------------------------------------------------
(* The event, the reload and the clock.                                    *)
LEMMA ChangedKeeps ==
    ASSUME SchedulerInv, ConfigChanged
    PROVE  SchedulerInv'
<1>1. /\ posted /\ posted' = FALSE /\ schedNeedsReload' = TRUE
      /\ UNCHANGED <<minute, isSynced, passing, slots, active, lastTrigger, activeMask,
                     schedInitialized, loading, scheduleBlob, savedBlob, edit, accepted, excused,
                     passed, settled, fresh>>
  BY DEF ConfigChanged, clocks, table, promise
<1>2. /\ SchedulerFlags /\ SchedulerRanges /\ MaskIsTrue /\ TriggersOnce
      /\ OneWrites /\ OneEdits /\ TextsKept /\ EditsKept
  BY DEF SchedulerInv
<1>3. SchedulerFlags' /\ SchedulerRanges'
  BY <1>1, <1>2 DEF SchedulerFlags, SchedulerRanges
<1>4. MaskIsTrue' /\ TriggersOnce'
  BY <1>1, <1>2, MaskStays, TriggersStay
<1>5. OneWrites' /\ OneEdits'
  BY <1>1, <1>2 DEF OneWrites, OneEdits
<1>6. TextsKept' /\ EditsKept'
  BY <1>1, <1>2 DEF TextsKept, EditsKept, Promised
<1> QED
  BY <1>3, <1>4, <1>5, <1>6 DEF SchedulerInv

LEMMA LoadKeeps ==
    ASSUME SchedulerInv, LoadBegins \/ LoadEnds
    PROVE  SchedulerInv'
<1>1. /\ SchedulerFlags /\ SchedulerRanges /\ MaskIsTrue /\ TriggersOnce
      /\ OneWrites /\ OneEdits /\ TextsKept /\ EditsKept
  BY DEF SchedulerInv
<1>2. ASSUME LoadBegins
      PROVE  SchedulerInv'
  <2>1. /\ schedNeedsReload /\ loading' = TRUE /\ slots' = WithSystem(scheduleBlob)
        /\ active' = {} /\ activeMask' = {} /\ schedInitialized' = FALSE /\ settled' = FALSE
        /\ lastTrigger' = [s \in Slots |-> NoMinute]
        /\ UNCHANGED <<minute, isSynced, passing, schedNeedsReload, scheduleBlob, savedBlob,
                       posted, edit, accepted, excused, passed, fresh>>
    BY <1>2 DEF LoadBegins, clocks, store, promise
  <2>2. slots' \in Tables /\ \A s \in UserSlots : slots'[s] = scheduleBlob[s]
    BY <1>1, <2>1, TableIs DEF SchedulerRanges
  <2>3. SchedulerFlags'
    BY <1>1, <2>1 DEF SchedulerFlags
  <2>4. SchedulerRanges'
    BY <1>1, <2>1, <2>2 DEF SchedulerRanges, Minutes
  <2>5. MaskIsTrue' /\ TriggersOnce'
    BY <1>1, <2>1, MaskStays, TriggersStay
  <2>6. ~excused => \A e \in Editors : edit[e] = NoEdit
    BY <1>1, <2>1 DEF OneEdits
  <2>7. OneWrites' /\ OneEdits' /\ EditsKept'
    BY <1>1, <2>1, <2>6 DEF OneWrites, OneEdits, EditsKept
  <2>8. ~excused => scheduleBlob = savedBlob
    BY <1>1, <2>6 DEF OneWrites, NoEdit
  <2>9. TextsKept'
    BY <1>1, <2>1, <2>2, <2>8 DEF TextsKept
  <2> QED
    BY <2>3, <2>4, <2>5, <2>7, <2>9 DEF SchedulerInv
<1>3. ASSUME LoadEnds
      PROVE  SchedulerInv'
  <2>1. /\ loading' = FALSE /\ schedNeedsReload' = FALSE
        /\ UNCHANGED <<minute, isSynced, passing, slots, active, lastTrigger, activeMask,
                       schedInitialized, scheduleBlob, savedBlob, posted, edit, accepted, excused,
                       passed, settled, fresh>>
    BY <1>3 DEF LoadEnds, clocks, table, store, promise
  <2>2. SchedulerFlags' /\ SchedulerRanges'
    BY <1>1, <2>1 DEF SchedulerFlags, SchedulerRanges
  <2>3. MaskIsTrue' /\ TriggersOnce'
    BY <1>1, <2>1, MaskStays, TriggersStay
  <2>4. OneWrites' /\ OneEdits'
    BY <1>1, <2>1 DEF OneWrites, OneEdits
  <2>5. TextsKept' /\ EditsKept'
    BY <1>1, <2>1 DEF TextsKept, EditsKept, Promised
  <2> QED
    BY <2>2, <2>3, <2>4, <2>5 DEF SchedulerInv
<1> QED
  BY <1>2, <1>3

LEMMA ClockKeeps ==
    ASSUME SchedulerInv,
           \/ MinutePasses
           \/ \E m \in {minute - 1, minute + 2} \cap (0 .. MaxMinute) : ClockCorrected(m)
           \/ ClockKnown
           \/ ClockUnknown
    PROVE  SchedulerInv'
<1>1. /\ SchedulerFlags /\ SchedulerRanges /\ MaskIsTrue /\ TriggersOnce
      /\ OneWrites /\ OneEdits /\ TextsKept /\ EditsKept
  BY DEF SchedulerInv
<1>2. /\ UNCHANGED <<slots, schedNeedsReload, loading, scheduleBlob, savedBlob, posted, edit,
                     accepted, excused>>
      /\ settled' = FALSE
  BY DEF MinutePasses, ClockCorrected, ClockKnown, ClockUnknown, table, store, promise
<1>3. OneWrites' /\ OneEdits' /\ TextsKept' /\ EditsKept'
  BY <1>1, <1>2, StoreStays
<1>4. MaskIsTrue'
  BY <1>1, <1>2, MaskStays
<1>5. minute \in 0 .. MaxMinute /\ MaxMinute \in Nat
  BY <1>1, SchedulerConstants DEF SchedulerRanges
<1>6. CASE \/ MinutePasses
           \/ \E m \in {minute - 1, minute + 2} \cap (0 .. MaxMinute) : ClockCorrected(m)
  <2>1. /\ minute' \in 0 .. MaxMinute /\ passed' = FALSE /\ fresh' = [s \in Slots |-> 0]
        /\ UNCHANGED <<isSynced, passing, active, lastTrigger, activeMask, schedInitialized>>
    BY <1>5, <1>6 DEF MinutePasses, ClockCorrected, table
  <2>2. SchedulerFlags' /\ SchedulerRanges'
    BY <1>1, <1>2, <2>1 DEF SchedulerFlags, SchedulerRanges
  <2>3. TriggersOnce'
    BY <1>1, <2>1, TriggersStay
  <2> QED
    BY <1>3, <1>4, <2>2, <2>3 DEF SchedulerInv
<1>7. CASE ClockKnown
  <2>1. /\ isSynced' = TRUE /\ schedInitialized' = FALSE
        /\ UNCHANGED <<minute, passing, active, lastTrigger, activeMask, passed, fresh>>
    BY <1>7 DEF ClockKnown
  <2>2. SchedulerFlags' /\ SchedulerRanges'
    BY <1>1, <1>2, <2>1 DEF SchedulerFlags, SchedulerRanges
  <2>3. TriggersOnce'
    BY <1>1, <2>1, TriggersStay
  <2> QED
    BY <1>3, <1>4, <2>2, <2>3 DEF SchedulerInv
<1>8. CASE ClockUnknown
  <2>1. /\ isSynced' = FALSE /\ passing' \in BOOLEAN /\ schedInitialized' = FALSE
        /\ active' = {} /\ activeMask' = {} /\ lastTrigger' = [s \in Slots |-> NoMinute]
        /\ UNCHANGED <<minute, passed, fresh>>
    BY <1>8 DEF ClockUnknown
  <2>2. SchedulerFlags' /\ SchedulerRanges'
    BY <1>1, <1>2, <2>1 DEF SchedulerFlags, SchedulerRanges, Minutes
  <2>3. TriggersOnce'
    BY <1>1, <2>1, TriggersStay
  <2> QED
    BY <1>3, <1>4, <2>2, <2>3 DEF SchedulerInv
<1> QED
  BY <1>6, <1>7, <1>8

LEMMA SchedulerRestartKeeps ==
    ASSUME SchedulerInv, SchedulerRestart
    PROVE  SchedulerInv'
<1>1. /\ SchedulerFlags /\ SchedulerRanges /\ MaskIsTrue /\ TriggersOnce
      /\ OneWrites /\ OneEdits /\ TextsKept /\ EditsKept
  BY DEF SchedulerInv
<1>2. /\ scheduleBlob' = savedBlob /\ slots' = WithSystem(savedBlob)
      /\ active' = {} /\ activeMask' = {} /\ schedInitialized' = FALSE
      /\ lastTrigger' = [s \in Slots |-> NoMinute]
      /\ schedNeedsReload' = FALSE /\ loading' = FALSE /\ posted' = FALSE
      /\ edit' = [e \in Editors |-> NoEdit]
      /\ isSynced' = FALSE /\ passing' = FALSE
      /\ passed' = FALSE /\ settled' = FALSE /\ fresh' = [s \in Slots |-> 0]
      /\ UNCHANGED <<minute, savedBlob, accepted, excused>>
  BY DEF SchedulerRestart, promise
<1>3. slots' \in Tables /\ \A s \in UserSlots : slots'[s] = savedBlob[s]
  BY <1>1, <1>2, TableIs DEF SchedulerRanges
<1>4. SchedulerFlags'
  BY <1>1, <1>2 DEF SchedulerFlags
<1>5. SchedulerRanges'
  BY <1>1, <1>2, <1>3 DEF SchedulerRanges, Minutes
<1>6. MaskIsTrue' /\ TriggersOnce'
  BY <1>1, <1>2, MaskStays, TriggersStay
<1>7. \A e \in Editors : edit'[e] = NoEdit /\ edit'[e].at # "Writing"
  BY <1>2 DEF NoEdit
<1>8. OneWrites' /\ OneEdits' /\ EditsKept'
  BY <1>2, <1>7 DEF OneWrites, OneEdits, EditsKept
<1>9. TextsKept'
  BY <1>1, <1>2, <1>3 DEF TextsKept
<1> QED
  BY <1>4, <1>5, <1>6, <1>8, <1>9 DEF SchedulerInv

LEMMA SchedulerInitially ==
    ASSUME SchedulerInit
    PROVE  SchedulerInv
<1>1. NoSlots \in Texts /\ \A s \in UserSlots : NoSlots[s] = Free
  BY DEF NoSlots, Texts, Values
<1>2. slots \in Tables /\ \A s \in UserSlots : slots[s] = Free
  BY <1>1, TableIs DEF SchedulerInit
<1>3. SchedulerFlags
  BY DEF SchedulerInit, SchedulerFlags
<1>4. SchedulerRanges
  <2>1. 0 \in 0 .. MaxMinute
    BY SchedulerConstants
  <2> QED
    BY <1>1, <1>2, <2>1 DEF SchedulerInit, SchedulerRanges, Minutes
<1>5. MaskIsTrue /\ TriggersOnce
  BY DEF SchedulerInit, MaskIsTrue, TriggersOnce
<1>6. \A e \in Editors : edit[e] = NoEdit /\ edit[e].at # "Writing"
  BY DEF SchedulerInit, NoEdit
<1>7. OneWrites /\ OneEdits /\ EditsKept
  BY <1>6 DEF SchedulerInit, OneWrites, OneEdits, EditsKept
<1>8. TextsKept
  BY <1>1, <1>2 DEF SchedulerInit, TextsKept, Standing
<1> QED
  BY <1>3, <1>4, <1>5, <1>7, <1>8 DEF SchedulerInv

LEMMA SchedulerStep ==
    ASSUME SchedulerInv, [SchedulerNext]_schedulerVars
    PROVE  SchedulerInv'
<1>1. CASE SchedulerNext
  BY <1>1, EditKeeps, SerializeKeeps, StoreKeeps, StoredKeeps, RefusedKeeps, RestoreKeeps,
     ChangedKeeps, LoadKeeps, PassKeeps, ClockKeeps, SchedulerRestartKeeps DEF SchedulerNext
<1>2. CASE UNCHANGED schedulerVars
  <2>1. /\ SchedulerFlags /\ SchedulerRanges /\ MaskIsTrue /\ TriggersOnce
        /\ OneWrites /\ OneEdits /\ TextsKept /\ EditsKept
    BY DEF SchedulerInv
  <2>2. SchedulerFlags' /\ SchedulerRanges'
    BY <1>2, <2>1 DEF schedulerVars, SchedulerFlags, SchedulerRanges
  <2>3. MaskIsTrue' /\ TriggersOnce'
    BY <1>2, <2>1, MaskStays, TriggersStay DEF schedulerVars
  <2>4. OneWrites' /\ OneEdits' /\ TextsKept' /\ EditsKept'
    BY <1>2, <2>1, StoreStays DEF schedulerVars
  <2> QED
    BY <2>2, <2>3, <2>4 DEF SchedulerInv
<1> QED
  BY <1>1, <1>2

LEMMA SchedulerSound ==
    ASSUME SchedulerInv
    PROVE  SlotsSound
<1>1. /\ SchedulerFlags /\ SchedulerRanges /\ MaskIsTrue
      /\ OneWrites /\ TextsKept
  BY DEF SchedulerInv
<1>2. SchedulerTypeOK
  <2>1. {isSynced, passing, schedInitialized, schedNeedsReload, loading, posted, excused, passed,
         settled} \subseteq BOOLEAN
    BY <1>1 DEF SchedulerFlags
  <2>2. \A s \in UserSlots :
          {slots[s], scheduleBlob[s], savedBlob[s], accepted[s]} \subseteq UserDefs[s] \cup {Free}
    <3>1. \A t \in Texts, s \in UserSlots : t[s] \in UserDefs[s] \cup {Free}
      BY DEF Texts
    <3>2. scheduleBlob \in Texts /\ savedBlob \in Texts /\ accepted \in Texts
      BY <1>1 DEF SchedulerRanges
    <3> QED
      BY <1>1, <3>1, <3>2, SlotIs
  <2>3. minute \in 0 .. MaxMinute /\ active \subseteq Slots /\ activeMask \subseteq Slots
        /\ lastTrigger \in [Slots -> {NoMinute} \cup 0 .. MaxMinute]
    BY <1>1 DEF SchedulerRanges, Minutes
  <2> QED
    BY <1>1, <2>1, <2>2, <2>3, SlotIs DEF SchedulerTypeOK
<1>3. NotTwice
  BY <1>1 DEF SchedulerRanges, NotTwice
<1>4. AsAnswered
  <2> SUFFICES ASSUME AtRest, ~excused, NEW s \in UserSlots,
                      NEW t \in {slots, scheduleBlob, savedBlob}
               PROVE  t[s] = accepted[s] \/ {t[s], accepted[s]} \in {{d, Free} : d \in Dated}
    BY DEF AsAnswered
  <2>1. \A e \in Editors : edit[e] = NoEdit /\ edit[e].at # "Writing"
    BY DEF AtRest, NoEdit
  <2>2. scheduleBlob = savedBlob
    BY <1>1, <2>1 DEF OneWrites
  <2>3. t[s] \in Standing(accepted[s])
    BY <1>1, <2>1, <2>2 DEF TextsKept
  <2>4. t[s] = accepted[s] \/ (t[s] = Free /\ accepted[s] \in Dated)
    BY <2>3 DEF Standing
  <2>5. t[s] = Free => {t[s], accepted[s]} = {accepted[s], Free}
    OBVIOUS
  <2> QED
    BY <2>4, <2>5
<1> QED
  BY <1>1, <1>2, <1>3, <1>4 DEF SlotsSound

(* The mask says which windows cover the minute, no trigger is posted      *)
(* twice in its minute, and the table, its text and flash hold what was    *)
(* answered: for every number of slots, editors and failures, every week,  *)
(* length of the day and definition of the slots.                          *)
THEOREM SlotsCorrect == SchedulerSpec => []SlotsSound
<1>1. SchedulerSpec => []SchedulerInv
  BY SchedulerInitially, SchedulerStep, PTL DEF SchedulerSpec
<1> QED
  BY <1>1, SchedulerSound, PTL
=============================================================================
