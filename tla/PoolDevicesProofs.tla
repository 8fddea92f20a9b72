------------------------- MODULE PoolDevicesProofs -------------------------
(***************************************************************************)
(* Proofs about PoolDevices, for every number of slots and every set of    *)
(* dependencies, cyclic ones included.                                     *)
(***************************************************************************)
EXTENDS PoolDevices, TLAPS

(* Cursor arithmetic asks for N to be a number in every proof below.       *)
USE NAssumption

(* What may happen to a lease behind its owner's back: it stays as it is,  *)
(* or it ends and its record with it.                                      *)
Frame(d, e) ==
    /\ e.desired = d.desired /\ e.effective = d.effective
    /\ e.feedback = d.feedback /\ e.backoff = d.backoff
    /\ e.interlock = d.interlock /\ e.maxed = d.maxed
    /\ e.restored = d.restored

Lapse(d, e) ==
    /\ e \in Slot /\ Frame(d, e)
    /\ e.flash = d.flash \/ e.flash = Tombstone
    /\ e.lease.active => /\ d.lease.active /\ e.lease.value = d.lease.value
                         /\ e.flash = d.flash /\ e.baseline = d.baseline

(* A tombstone that is written, or that waits, leaves everything but the   *)
(* lease and its record.                                                   *)
LEMMA FlushLapses ==
    ASSUME NEW d \in Slot, NEW ok \in BOOLEAN
    PROVE  Lapse(d, Flush(d, ok))
<1>1. CASE d.lease.dirty /\ ok
  BY <1>1 DEF Flush, Lapse, Frame, Slot, Lease, Flash, NoLease, Tombstone
<1>2. CASE ~(d.lease.dirty /\ ok)
  BY <1>2 DEF Flush, Lapse, Frame
<1> QED BY <1>1, <1>2

(* A lease that is cancelled is not active, whatever flash answers.        *)
LEMMA CancelLapses ==
    ASSUME NEW d \in Slot, NEW ok \in BOOLEAN
    PROVE  Lapse(d, Cancel(d, ok)) /\ ~Cancel(d, ok).lease.active
<1>1. CASE ~d.lease.active /\ ~d.lease.dirty
  BY <1>1 DEF Cancel, Lapse, Frame
<1>2. CASE ~(~d.lease.active /\ ~d.lease.dirty)
  <2> DEFINE e == [d EXCEPT !.lease = [NoLease EXCEPT !.dirty = TRUE],
                            !.baseline = FALSE]
  <2>1. /\ e \in Slot /\ Frame(d, e) /\ e.flash = d.flash
        /\ ~e.lease.active
    BY DEF Slot, Lease, Flash, NoLease, Frame
  <2>2. Cancel(d, ok) = Flush(e, ok)
    BY <1>2 DEF Cancel
  <2> HIDE DEF e
  <2>3. Lapse(e, Flush(e, ok))
    BY <2>1, FlushLapses
  <2> QED BY <2>1, <2>2, <2>3 DEF Lapse, Frame
<1> QED BY <1>1, <1>2

(* A tick of the lease anchors it or ends it.                              *)
LEMMA ExpiringLapses ==
    ASSUME NEW d \in Slot, NEW e \in Expiring(d)
    PROVE  Lapse(d, e)
<1>1. CASE e = d
  BY <1>1 DEF Lapse, Frame
<1>2. CASE e = [d EXCEPT !.lease.anchored = TRUE] /\ d.lease.active
  <2>1. e = [d EXCEPT !.lease = [d.lease EXCEPT !.anchored = TRUE]]
    BY <1>2 DEF Slot, Lease
  <2> QED BY <1>2, <2>1 DEF Lapse, Frame, Slot, Lease
<1>3. CASE e = Cancel(d, TRUE) \/ e = Cancel(d, FALSE)
  BY <1>3, CancelLapses
<1> QED BY <1>1, <1>2, <1>3 DEF Expiring
-----------------------------------------------------------------------------
(* A slot that may not run loses its guided target: if its dependencies    *)
(* fail, asking for the target is itself the reason of the safety stop.    *)
LEMMA DiagnosedTarget ==
    ASSUME NEW d \in Slot, NEW ready \in BOOLEAN
    PROVE  /\ Diagnosed(d, ready) \in Slot
           /\ Diagnosed(d, ready).desired => d.desired /\ Safe(d, ready)
           /\ Safe(Diagnosed(d, ready), ready) = Safe(d, ready)
           /\ Diagnosed(d, ready).effective = d.effective
           /\ Diagnosed(d, ready).feedback = d.feedback
           /\ Diagnosed(d, ready).backoff = d.backoff
           /\ Diagnosed(d, ready).restored = d.restored
           /\ Diagnosed(d, ready).baseline = d.baseline
           /\ Diagnosed(d, ready).lease = d.lease
           /\ Diagnosed(d, ready).flash = d.flash
<1> DEFINE state == Interlock(d, ready)
           kept == d.desired /\ ~d.maxed /\ ~Blocked(state) /\ ~Faulty(d)
<1>1. state \in Interlocks
  BY DEF Interlock, Interlocks, Slot
<1>2. kept => d.desired /\ Safe(d, ready)
  BY DEF Interlock, Blocked, Requested, Safe
<1>3. kept \in BOOLEAN
  OBVIOUS
<1>4. Diagnosed(d, ready) = [d EXCEPT !.interlock = state, !.desired = kept]
  BY DEF Diagnosed
<1> HIDE DEF state, kept
<1> QED BY <1>1, <1>2, <1>3, <1>4 DEF Slot, Safe, Faulty

(* After the arbitration a lease that still acts was not cancelled, and a  *)
(* target comes from a lease that forces ON or from the guided target.     *)
LEMMA ArbitratedTarget ==
    ASSUME NEW i \in Slots, NEW d \in Slot, NEW safe \in BOOLEAN, TypeOK
    PROVE  LET e == Arbitrated(i, d, safe)
           IN  /\ e \in Slot
               /\ e.desired = d.desired /\ e.feedback = d.feedback
               /\ e.interlock = d.interlock /\ e.maxed = d.maxed
               /\ e.baseline = d.baseline /\ e.lease = d.lease /\ e.flash = d.flash
               /\ e.backoff => d.backoff
               /\ e.effective => safe /\ (d.desired \/ (d.lease.active /\ d.lease.value))
               /\ e.restored => d.restored
               /\ d.restored /\ ~e.restored => writes /\ Acting(i, d)
               /\ Acting(i, d) /\ d.lease.value /\ safe => e.effective
<1> DEFINE held == d.restored /\ ~(Acting(i, d) /\ writes)
           target == Resolved(i, d) /\ safe
           backoff == d.backoff /\ (target = d.effective)
<1>1. held \in BOOLEAN /\ target \in BOOLEAN /\ backoff \in BOOLEAN
  BY DEF Slot
<1>2. target => safe /\ (d.desired \/ (d.lease.active /\ d.lease.value))
  BY DEF Resolved, Forced, Slot
<1>3. Acting(i, d) /\ d.lease.value /\ safe => target
  BY DEF Resolved, Acting
<1>4. Arbitrated(i, d, safe) =
        [d EXCEPT !.restored = held, !.effective = target, !.backoff = backoff]
  BY DEF Arbitrated
<1>5. /\ held => d.restored
      /\ d.restored /\ ~held => writes /\ Acting(i, d)
      /\ backoff => d.backoff
  BY DEF TypeOK
<1> HIDE DEF held, target, backoff
<1> QED BY <1>1, <1>2, <1>3, <1>4, <1>5 DEF Slot

(* A relay that reports On was just written, or was not touched.           *)
LEMMA DrivenTarget ==
    ASSUME NEW i \in Slots, NEW d \in Slot, NEW wasOn \in BOOLEAN,
           NEW f \in Driven(i, d), NEW e \in Metered(f, wasOn)
    PROVE  /\ e \in Slot
           /\ e.desired = d.desired /\ e.effective = d.effective
           /\ e.interlock = d.interlock /\ e.restored = d.restored
           /\ e.baseline = d.baseline /\ e.lease = d.lease /\ e.flash = d.flash
           /\ i \notin Sensed /\ IsOn(e) =>
                 \/ IsOn(d) /\ (~writes \/ d.backoff) /\ e.backoff = d.backoff
                 \/ writes /\ ~e.backoff /\ d.effective
<1>1. /\ f \in Slot
      /\ f.desired = d.desired /\ f.effective = d.effective
      /\ f.interlock = d.interlock /\ f.restored = d.restored
      /\ f.baseline = d.baseline /\ f.lease = d.lease /\ f.flash = d.flash
      /\ i \notin Sensed /\ IsOn(f) =>
            \/ IsOn(d) /\ (~writes \/ d.backoff) /\ f.backoff = d.backoff
            \/ writes /\ ~f.backoff /\ d.effective
  <2>1. CASE i \in Sensed
    <3>1. PICK x \in Feedbacks : f = [d EXCEPT !.feedback = x]
      BY <2>1 DEF Driven, SensedDriven
    <3> QED BY <2>1, <3>1 DEF Slot
  <2>2. CASE i \notin Sensed
    <3>1. \/ f = d /\ (~writes \/ d.backoff)
          \/ f = [d EXCEPT !.feedback = "Failed", !.backoff = TRUE]
          \/ /\ f = [d EXCEPT !.feedback = IF d.effective THEN "On" ELSE "Off",
                              !.backoff = FALSE]
             /\ writes
      BY <2>2 DEF Driven, RelayDriven
    <3>2. CASE f = d /\ (~writes \/ d.backoff)
      BY <3>2 DEF Slot
    <3>3. CASE f = [d EXCEPT !.feedback = "Failed", !.backoff = TRUE]
      BY <3>3 DEF Slot, Feedbacks, IsOn
    <3>4. CASE /\ f = [d EXCEPT !.feedback = IF d.effective THEN "On" ELSE "Off",
                                !.backoff = FALSE]
               /\ writes
      BY <3>4 DEF Slot, Feedbacks, IsOn
    <3> QED BY <3>1, <3>2, <3>3, <3>4
  <2> QED BY <2>1, <2>2
<1>2. e = f \/ e = [f EXCEPT !.maxed = TRUE]
  BY DEF Metered
<1> QED BY <1>1, <1>2 DEF Slot, IsOn
-----------------------------------------------------------------------------
(* What a protection leaves of a slot.                                     *)
LEMMA ProtectedLapses ==
    ASSUME NEW i \in Slots, NEW d \in Slot, NEW safe \in BOOLEAN, NEW ok \in BOOLEAN
    PROVE  LET e == Protected(i, d, safe, ok)
           IN  /\ e \in Slot
               /\ e.desired => d.desired
               /\ e.effective = d.effective /\ e.feedback = d.feedback
               /\ e.backoff = d.backoff /\ e.restored = d.restored
               /\ e.flash = d.flash \/ e.flash = Tombstone
               /\ e.lease.active =>
                     /\ ~ProtectionCancels(i, d, safe)
                     /\ d.lease.active /\ e.lease.value = d.lease.value
                     /\ e.flash = d.flash /\ e.baseline = d.baseline
<1>1. CASE ProtectionCancels(i, d, safe)
  <2> DEFINE c == [d EXCEPT !.desired = d.desired /\ ~d.lease.value]
  <2>1. c \in Slot /\ (c.desired => d.desired)
    BY DEF Slot
  <2>2. /\ c.effective = d.effective /\ c.feedback = d.feedback
        /\ c.backoff = d.backoff /\ c.restored = d.restored /\ c.flash = d.flash
    BY DEF Slot
  <2>3. Protected(i, d, safe, ok) = Cancel(c, ok)
    BY <1>1 DEF Protected
  <2> HIDE DEF c
  <2>4. Lapse(c, Cancel(c, ok)) /\ ~Cancel(c, ok).lease.active
    BY <2>1, CancelLapses
  <2> QED BY <2>1, <2>2, <2>3, <2>4 DEF Lapse, Frame
<1>2. CASE ~ProtectionCancels(i, d, safe)
  BY <1>2 DEF Protected
<1> QED BY <1>1, <1>2

(* One visit of the tick, told by what the next invariants need of it: old *)
(* is the slot before the visit, d the slot after it.                      *)
Visited(i, old, d) ==
    LET safe == Safe(old, dependenciesSatisfied(i))
    IN  /\ d \in Slot
        /\ d.effective => safe /\ (old.desired \/ (old.lease.active /\ old.lease.value))
        /\ d.desired => old.desired /\ safe
        /\ i \notin Sensed /\ IsOn(d) =>
              \/ IsOn(old) /\ (~writes \/ old.backoff)
              \/ writes /\ ~d.backoff /\ d.effective
        /\ d.flash = old.flash \/ d.flash = Tombstone
        /\ d.lease.active =>
              /\ old.lease.active /\ d.lease.value = old.lease.value
              /\ d.flash = old.flash /\ d.baseline = old.baseline
              /\ ~d.restored => ~old.restored \/ (writes /\ policy[i].ready)
              /\ d.lease.value /\ ~safe /\ writes /\ policy[i].ready => d.restored
              /\ /\ Forced(d) /\ d.lease.value /\ ~d.restored
                 /\ writes /\ policy[i].ready
                 => d.effective
        /\ asked' = [asked EXCEPT ![i] =
              asked[i] /\ (safe \/ (d.restored /\ d.lease.active /\ d.lease.value))]

LEMMA TickVisits ==
    ASSUME TypeOK, NEW i \in Slots, TickSlot(i)
    PROVE  \E d : Visited(i, dev[i], d) /\ dev' = [dev EXCEPT ![i] = d]
<1> DEFINE old == dev[i]
           ready == dependenciesSatisfied(i)
           d0 == Diagnosed(old, ready)
           safe == Safe(d0, ready)
           P(d, ok) == Protected(i, d, safe, ok)
           F(d, ok, retry) == Flush(P(d, ok), retry)
           A(d, ok, retry) == Arbitrated(i, F(d, ok, retry), safe)
<1>0. old \in Slot /\ ready \in BOOLEAN
  BY DEF TypeOK, dependenciesSatisfied
<1>1. PICK okStop \in BOOLEAN, okRetry \in BOOLEAN, d1 \in Expiring(d0) :
        /\ \E d3 \in Driven(i, A(d1, okStop, okRetry)) :
           \E d4 \in Metered(d3, IsOn(old)) : dev' = [dev EXCEPT ![i] = d4]
        /\ LET d2 == A(d1, okStop, okRetry)
           IN  asked' = [asked EXCEPT ![i] =
                 asked[i] /\ (safe \/ (d2.restored /\ d2.lease.active /\ d2.lease.value))]
  BY DEF TickSlot
<1>2. PICK d3 \in Driven(i, A(d1, okStop, okRetry)) :
        \E d4 \in Metered(d3, IsOn(old)) : dev' = [dev EXCEPT ![i] = d4]
  BY <1>1
<1>3. PICK d4 \in Metered(d3, IsOn(old)) : dev' = [dev EXCEPT ![i] = d4]
  BY <1>2
<1> DEFINE p == P(d1, okStop)
           g == Flush(p, okRetry)
           d2 == Arbitrated(i, g, safe)
<1>4. /\ d0 \in Slot /\ safe = Safe(old, ready)
      /\ d0.desired => old.desired /\ safe
      /\ d0.effective = old.effective /\ d0.feedback = old.feedback
      /\ d0.backoff = old.backoff /\ d0.restored = old.restored
      /\ d0.baseline = old.baseline /\ d0.lease = old.lease /\ d0.flash = old.flash
  BY <1>0, DiagnosedTarget, SMTT(30)
<1>5. safe \in BOOLEAN
  BY <1>0, <1>4 DEF Safe, Slot
<1> HIDE DEF d0, safe
<1>6. Lapse(d0, d1)
  BY <1>4, ExpiringLapses
<1>7. /\ p \in Slot
      /\ p.desired => d1.desired
      /\ p.effective = d1.effective /\ p.feedback = d1.feedback
      /\ p.backoff = d1.backoff /\ p.restored = d1.restored
      /\ p.flash = d1.flash \/ p.flash = Tombstone
      /\ p.lease.active =>
            /\ ~ProtectionCancels(i, d1, safe)
            /\ d1.lease.active /\ p.lease.value = d1.lease.value
            /\ p.flash = d1.flash /\ p.baseline = d1.baseline
  BY <1>5, <1>6, ProtectedLapses DEF Lapse
<1> HIDE DEF p, P
<1>8. Lapse(p, g)
  BY <1>7, FlushLapses
<1> HIDE DEF g
<1>9. /\ d2 \in Slot
      /\ d2.desired = g.desired /\ d2.feedback = g.feedback
      /\ d2.baseline = g.baseline /\ d2.lease = g.lease /\ d2.flash = g.flash
      /\ d2.backoff => g.backoff
      /\ d2.effective => safe /\ (g.desired \/ (g.lease.active /\ g.lease.value))
      /\ d2.restored => g.restored
      /\ g.restored /\ ~d2.restored => writes /\ Acting(i, g)
      /\ Acting(i, g) /\ g.lease.value /\ safe => d2.effective
  BY <1>5, <1>8, ArbitratedTarget DEF Lapse
<1>10. d3 \in Driven(i, d2)
  BY <1>2 DEF d2, g, p, P
<1> HIDE DEF d2
<1>11. /\ d4 \in Slot
       /\ d4.desired = d2.desired /\ d4.effective = d2.effective
       /\ d4.restored = d2.restored /\ d4.baseline = d2.baseline
       /\ d4.lease = d2.lease /\ d4.flash = d2.flash
       /\ i \notin Sensed /\ IsOn(d4) =>
             \/ IsOn(d2) /\ (~writes \/ d2.backoff) /\ d4.backoff = d2.backoff
             \/ writes /\ ~d4.backoff /\ d2.effective
  <2>1. IsOn(old) \in BOOLEAN
    BY DEF IsOn
  <2> HIDE DEF old
  <2> QED BY <2>1, <1>3, <1>9, <1>10, DrivenTarget
<1>12. asked' = [asked EXCEPT ![i] =
         asked[i] /\ (safe \/ (d4.restored /\ d4.lease.active /\ d4.lease.value))]
  BY <1>1, <1>11 DEF d2, g, p, P
<1>13. d4.lease.active =>
         /\ old.lease.active /\ d4.lease.value = old.lease.value
         /\ d4.flash = old.flash /\ d4.baseline = old.baseline
         /\ ~ProtectionCancels(i, d1, safe)
         /\ d1.lease.active /\ d1.lease.value = d4.lease.value
  BY <1>4, <1>6, <1>7, <1>8, <1>9, <1>11 DEF Lapse
<1>14. /\ d4.desired => old.desired /\ safe
       /\ d4.effective => safe /\ (old.desired \/ (old.lease.active /\ old.lease.value))
       /\ d4.flash = old.flash \/ d4.flash = Tombstone
  BY <1>4, <1>6, <1>7, <1>8, <1>9, <1>11 DEF Lapse, Frame
<1>15. i \notin Sensed /\ IsOn(d4) =>
         \/ IsOn(old) /\ (~writes \/ old.backoff)
         \/ writes /\ ~d4.backoff /\ d4.effective
  BY <1>4, <1>6, <1>7, <1>8, <1>9, <1>11 DEF Lapse, Frame, IsOn
<1>16. ASSUME d4.lease.active, ~d4.restored
       PROVE  ~old.restored \/ (writes /\ policy[i].ready)
  BY <1>4, <1>6, <1>7, <1>8, <1>9, <1>11, <1>16 DEF Lapse, Frame, Acting
<1>17. d1.restored = old.restored /\ g.restored = old.restored
  BY <1>4, <1>6, <1>7, <1>8 DEF Lapse, Frame
<1>18. ASSUME d4.lease.active, d4.lease.value, writes, policy[i].ready, ~d4.restored
       PROVE  safe /\ overrideDependenciesSatisfied(i)
  <2>1. ~ProtectionCancels(i, d1, safe) /\ d1.lease.active /\ d1.lease.value
    BY <1>13, <1>18
  <2>2. (safe /\ overrideDependenciesSatisfied(i)) \/ Waiting(d1, overrideDependenciesSatisfied(i))
    BY <2>1, <1>18 DEF ProtectionCancels
  <2>3. CASE Waiting(d1, overrideDependenciesSatisfied(i))
    <3>1. g.restored /\ ~overrideDependenciesSatisfied(i)
      BY <2>3, <1>17 DEF Waiting
    <3>2. Acting(i, g) /\ g.lease.value
      BY <3>1, <1>9, <1>11, <1>18
    <3> QED BY <3>1, <3>2 DEF Acting
  <2> QED BY <2>2, <2>3
<1>19. ASSUME Forced(d4), d4.lease.value, writes, policy[i].ready, ~d4.restored
       PROVE  d4.effective
  <2>1. safe /\ overrideDependenciesSatisfied(i)
    BY <1>18, <1>19 DEF Forced
  <2>2. Acting(i, g) /\ g.lease.value
    BY <2>1, <1>9, <1>11, <1>19 DEF Acting, Forced
  <2> QED BY <2>1, <2>2, <1>9, <1>11
<1>20. Visited(i, old, d4)
  BY <1>4, <1>11, <1>12, <1>13, <1>14, <1>15, <1>16, <1>18, <1>19 DEF Visited
<1> QED BY <1>3, <1>20
-----------------------------------------------------------------------------
(* The inductive invariant.  A relay reports On only after a write, so the *)
(* writes are enabled and no back-off is running; only a relay has leases; *)
(* a lease that is not waiting was granted or applied, so the writes are   *)
(* enabled and the policies published; a target was asked for.             *)
RelayWritten ==
    \A i \in Slots \ Sensed : IsOn(dev[i]) => writes /\ ~dev[i].backoff

SensedUnleased ==
    \A i \in Sensed : ~dev[i].flash.active

AppliedUnderPolicy ==
    \A i \in Slots : dev[i].lease.active /\ ~dev[i].restored => writes /\ policy[i].ready

TargetAsked ==
    \A i \in Slots : dev[i].desired \/ (dev[i].lease.active /\ dev[i].lease.value)
                      => asked[i]

IInv ==
    /\ TypeOK
    /\ RelayWritten
    /\ SensedUnleased
    /\ AppliedUnderPolicy
    /\ TargetAsked
    /\ BaselineDurable
    /\ InterlockHolds
    /\ NoAutoRestart

LEMMA InitIInv == Init => IInv
<1> SUFFICES ASSUME Init PROVE IInv
  OBVIOUS
<1>1. TypeOK
  <2>1. NewSlot \in Slot
    BY DEF NewSlot, Slot, Feedbacks, Interlocks, Lease, Flash, NoLease, Tombstone
  <2>2. \A i \in Slots : Unstarted(i) \in Policy
    BY DEF Unstarted, Policy
  <2>3. dev \in [Slots -> Slot] /\ policy \in [Slots -> Policy]
    BY <2>1, <2>2 DEF Init
  <2>4. cursor \in 0..N
    BY DEF Init
  <2>5. writes \in BOOLEAN /\ trusted \in BOOLEAN /\ asked \in [Slots -> BOOLEAN]
    BY DEF Init
  <2> QED BY <2>3, <2>4, <2>5 DEF TypeOK
<1>2. \A i \in Slots : dev[i] = NewSlot
  BY DEF Init
<1>3. /\ NewSlot.feedback = "Unknown" /\ ~NewSlot.flash.active /\ ~NewSlot.lease.active
      /\ ~NewSlot.desired /\ ~NewSlot.effective
  BY DEF NewSlot, NoLease, Tombstone
<1>4. RelayWritten /\ SensedUnleased /\ AppliedUnderPolicy
  BY <1>2, <1>3, SensedAssumption
     DEF RelayWritten, SensedUnleased, AppliedUnderPolicy, IsOn
<1>5. TargetAsked /\ BaselineDurable
  BY <1>2, <1>3 DEF TargetAsked, BaselineDurable
<1>6. \A i \in Slots : ~Running(i)
  BY <1>2, <1>3 DEF Running, IsOn
<1> QED BY <1>1, <1>4, <1>5, <1>6 DEF IInv, InterlockHolds, NoAutoRestart

(* The dependencies of a slot are reached from it: none is on no cycle.    *)
LEMMA SelfDependency ==
    ASSUME NEW i \in Slots, i \in Deps[i]
    PROVE  OnCycle(i)
BY DepsAssumption DEF OnCycle, Reachable

(* A visit of one slot keeps every part of the invariant.                  *)
LEMMA TickIInv ==
    ASSUME IInv, NEW i \in Slots, TickSlot(i)
    PROVE  IInv'
<1>1. PICK d : Visited(i, dev[i], d) /\ dev' = [dev EXCEPT ![i] = d]
  BY TickVisits DEF IInv
<1> DEFINE safe == Safe(dev[i], dependenciesSatisfied(i))
<1>2. /\ cursor = i /\ cursor' = i + 1
      /\ policy' = policy /\ writes' = writes /\ trusted' = trusted
  BY DEF TickSlot
<1>3. /\ d \in Slot
      /\ d.effective => safe /\ (dev[i].desired \/ (dev[i].lease.active /\ dev[i].lease.value))
      /\ d.desired => dev[i].desired /\ safe
      /\ i \notin Sensed /\ IsOn(d) =>
            \/ IsOn(dev[i]) /\ (~writes \/ dev[i].backoff)
            \/ writes /\ ~d.backoff /\ d.effective
      /\ d.flash = dev[i].flash \/ d.flash = Tombstone
      /\ d.lease.active =>
            /\ dev[i].lease.active /\ d.lease.value = dev[i].lease.value
            /\ d.flash = dev[i].flash /\ d.baseline = dev[i].baseline
            /\ ~d.restored => ~dev[i].restored \/ (writes /\ policy[i].ready)
            /\ d.lease.value /\ ~safe /\ writes /\ policy[i].ready => d.restored
      /\ asked' = [asked EXCEPT ![i] =
            asked[i] /\ (safe \/ (d.restored /\ d.lease.active /\ d.lease.value))]
  BY <1>1 DEF Visited
<1>4. /\ i \in 0..(N - 1) /\ i \in Nat /\ Slots \subseteq Nat
      /\ dev'[i] = d
      /\ \A j \in Slots : j # i => dev'[j] = dev[j] /\ asked'[j] = asked[j]
  BY <1>1, <1>3 DEF IInv, TypeOK, Slots
<1>5. TypeOK'
  <2>1. asked' \in [Slots -> BOOLEAN]
    BY <1>3 DEF IInv, TypeOK
  <2>2. cursor' \in 0..N
    BY <1>2, <1>4
  <2>3. dev' \in [Slots -> Slot]
    BY <1>1, <1>3 DEF IInv, TypeOK
  <2> QED BY <2>1, <2>2, <2>3, <1>2 DEF IInv, TypeOK
<1>6. safe \in BOOLEAN
  BY <1>4 DEF Safe, Faulty, dependenciesSatisfied, IInv, TypeOK, Slot
<1>7. safe => dependenciesSatisfied(i)
  BY DEF Safe
<1>8. asked'[i] = (asked[i] /\ (safe \/ (d.restored /\ d.lease.active /\ d.lease.value)))
  BY <1>3 DEF IInv, TypeOK
<1> HIDE DEF safe
<1>9. RelayWritten'
  BY <1>2, <1>3, <1>4 DEF IInv, RelayWritten, IsOn
<1>10. SensedUnleased'
  BY <1>3, <1>4, SensedAssumption DEF IInv, SensedUnleased, Tombstone
<1>11. AppliedUnderPolicy'
  BY <1>2, <1>3, <1>4 DEF IInv, AppliedUnderPolicy
<1>12. TargetAsked'
  <2>1. ASSUME d.desired PROVE asked'[i]
    BY <2>1, <1>3, <1>8 DEF IInv, TargetAsked
  <2>2. ASSUME d.lease.active, d.lease.value PROVE asked'[i]
    <3>1. asked[i]
      BY <2>2, <1>3 DEF IInv, TargetAsked
    <3>2. safe \/ d.restored
      BY <2>2, <1>3 DEF IInv, AppliedUnderPolicy
    <3> QED BY <3>1, <3>2, <2>2, <1>8
  <2> QED BY <2>1, <2>2, <1>4 DEF IInv, TargetAsked
<1>13. BaselineDurable'
  BY <1>3, <1>4 DEF IInv, BaselineDurable
<1>14. ASSUME Running(i)'
       PROVE  safe /\ d.effective
  BY <1>14, <1>3, <1>4 DEF Running, IInv, RelayWritten, IsOn
<1>15. InterlockHolds'
  <2> SUFFICES ASSUME NEW j \in Slots, j < cursor', Running(j)'
               PROVE  /\ ~OnCycle(j)
                      /\ \A q \in Deps[j] : q < j \/ cursor' <= q => IsOn(dev'[q])
    BY DEF InterlockHolds, OnCycle, Reachable, Closed, IsOn
  <2>1. CASE j = i
    <3>1. ~OnCycle(i) /\ \A q \in Deps[i] : IsOn(dev[q])
      BY <2>1, <1>7, <1>14 DEF dependenciesSatisfied
    <3>2. i \notin Deps[i] /\ Deps[i] \subseteq Slots
      BY <3>1, SelfDependency, DepsAssumption
    <3> QED BY <2>1, <3>1, <3>2, <1>4
  <2>2. CASE j # i
    <3>1. j < i /\ j \in Nat
      BY <2>2, <1>2, <1>4
    <3>2. Running(j)
      BY <2>2, <1>4 DEF Running, IsOn
    <3>3. Deps[j] \subseteq Slots
      BY DepsAssumption
    <3>4. ~OnCycle(j) /\ \A q \in Deps[j] : q < j \/ i <= q => IsOn(dev[q])
      BY <3>1, <3>2, <1>2 DEF IInv, InterlockHolds
    <3>5. \A q \in Deps[j] : q < j \/ i + 1 <= q => q # i /\ (q < j \/ i <= q)
      <4> SUFFICES ASSUME NEW q \in Deps[j], q < j \/ i + 1 <= q
                   PROVE  q # i /\ (q < j \/ i <= q)
        OBVIOUS
      <4>1. q \in Nat /\ j \in Nat /\ i \in Nat /\ j < i
        BY <3>1, <3>3, <1>4
      <4> QED BY <4>1
    <3>6. \A q \in Deps[j] : q # i => dev'[q] = dev[q]
      BY <3>3, <1>4
    <3>7. \A q \in Deps[j] : q < j \/ cursor' <= q => IsOn(dev'[q])
      <4> SUFFICES ASSUME NEW q \in Deps[j], q < j \/ i + 1 <= q
                   PROVE  IsOn(dev'[q])
        BY <1>2
      <4>1. q # i /\ (q < j \/ i <= q)
        BY <3>5
      <4>2. IsOn(dev[q])
        BY <3>4, <4>1
      <4> QED BY <3>6, <4>1, <4>2
    <3> QED BY <2>2, <3>4, <3>7
  <2> QED BY <2>1, <2>2
<1>16. NoAutoRestart'
  <2> SUFFICES ASSUME NEW j \in Slots, j < cursor', Running(j)'
               PROVE  asked'[j]
    BY DEF NoAutoRestart
  <2>1. CASE j = i
    <3>1. asked[i]
      BY <1>3, <1>14, <2>1 DEF IInv, TargetAsked
    <3> QED BY <3>1, <2>1, <1>8, <1>14
  <2>2. CASE j # i
    <3>1. j < cursor
      BY <2>2, <1>2, <1>4
    <3>2. Running(j)
      BY <2>2, <1>4 DEF Running, IsOn
    <3> QED BY <3>1, <3>2, <2>2, <1>4 DEF IInv, NoAutoRestart
  <2> QED BY <2>1, <2>2
<1> QED BY <1>5, <1>9, <1>10, <1>11, <1>12, <1>13, <1>15, <1>16 DEF IInv

(* A command writes one slot and starts a tick: no slot has been visited.  *)
LEMMA CommandIInv ==
    ASSUME IInv, NEW i \in Slots, NEW d \in Slot, Commanded(i, d),
           asked' \in [Slots -> BOOLEAN],
           \A j \in Slots : j # i => asked'[j] = asked[j],
           d.feedback = dev[i].feedback, d.backoff = dev[i].backoff,
           i \in Sensed => d.flash = dev[i].flash \/ d.flash = Tombstone,
           d.lease.active /\ ~d.restored => writes /\ policy[i].ready,
           d.desired \/ (d.lease.active /\ d.lease.value) => asked'[i],
           d.lease.active => d.flash = [active |-> TRUE, value |-> d.lease.value,
                                        baseline |-> d.baseline]
    PROVE  IInv'
<1>1. /\ cursor' = 0 /\ dev' = [dev EXCEPT ![i] = d]
      /\ policy' = policy /\ writes' = writes /\ trusted' = trusted
  BY DEF Commanded
<1>2. dev'[i] = d /\ \A j \in Slots : j # i => dev'[j] = dev[j]
  BY <1>1 DEF IInv, TypeOK
<1>3. TypeOK'
  <2>1. dev' \in [Slots -> Slot]
    BY <1>1 DEF IInv, TypeOK
  <2>2. cursor' \in 0..N
    BY <1>1
  <2> QED BY <2>1, <2>2, <1>1 DEF IInv, TypeOK
<1>4. RelayWritten'
  BY <1>1, <1>2 DEF IInv, RelayWritten, IsOn
<1>5. SensedUnleased'
  BY <1>2, SensedAssumption DEF IInv, SensedUnleased, Tombstone
<1>6. AppliedUnderPolicy'
  BY <1>1, <1>2 DEF IInv, AppliedUnderPolicy
<1>7. TargetAsked'
  BY <1>2 DEF IInv, TargetAsked
<1>8. BaselineDurable'
  BY <1>2 DEF IInv, BaselineDurable
<1>9. \A j \in Slots : ~(j < cursor')
  BY <1>1 DEF Slots
<1>10. InterlockHolds' /\ NoAutoRestart'
  BY <1>9 DEF InterlockHolds, NoAutoRestart
<1> QED BY <1>3, <1>4, <1>5, <1>6, <1>7, <1>8, <1>10 DEF IInv

(* Steps that write every slot, or none, and visit none.                   *)
LEMMA RebootIInv ==
    ASSUME IInv, Reboot
    PROVE  IInv'
<1>1. PICK maxed \in [Slots -> BOOLEAN] :
        dev' = [i \in Slots |-> Restarted(dev[i], maxed[i])]
  BY DEF Reboot
<1>2. /\ policy' = [i \in Slots |-> Unstarted(i)] /\ cursor' = N
      /\ writes' = FALSE /\ trusted' = FALSE
      /\ asked' = [i \in Slots |->
           dev[i].flash.active /\ (dev[i].flash.value \/ dev[i].flash.baseline)]
  BY DEF Reboot
<1>3. ASSUME NEW i \in Slots
      PROVE  /\ dev'[i] \in Slot
             /\ dev'[i].feedback = "Unknown" /\ dev'[i].flash = dev[i].flash
             /\ dev'[i].effective = (dev[i].flash.active /\ dev[i].flash.baseline)
             /\ dev'[i].desired = (dev[i].flash.active /\ dev[i].flash.baseline)
             /\ dev'[i].lease.active = dev[i].flash.active
             /\ dev'[i].lease.value = dev[i].flash.value
             /\ dev'[i].restored = dev[i].flash.active
             /\ dev'[i].baseline = dev[i].flash.baseline
             /\ dev[i].flash \in Flash
  <2>1. dev[i] \in Slot /\ maxed[i] \in BOOLEAN
    BY <1>3 DEF IInv, TypeOK
  <2>2. dev'[i] = Restarted(dev[i], maxed[i])
    BY <1>1, <1>3
  <2> QED BY <2>1, <2>2 DEF Restarted, Slot, Lease, Flash, Feedbacks, Interlocks
<1>4. TypeOK'
  <2>1. dev' \in [Slots -> Slot]
    BY <1>1, <1>3
  <2>2. policy' \in [Slots -> Policy]
    BY <1>2 DEF Unstarted, Policy
  <2>3. cursor' \in 0..N
    BY <1>2
  <2>4. asked' \in [Slots -> BOOLEAN]
    BY <1>2
  <2> QED BY <2>1, <2>2, <2>3, <2>4, <1>2 DEF TypeOK
<1>5. RelayWritten' /\ SensedUnleased'
  BY <1>3, SensedAssumption DEF IInv, RelayWritten, SensedUnleased, IsOn
<1>6. AppliedUnderPolicy'
  BY <1>3 DEF AppliedUnderPolicy
<1>7. TargetAsked'
  BY <1>2, <1>3 DEF TargetAsked
<1>8. BaselineDurable'
  BY <1>3 DEF BaselineDurable, Flash
<1>9. \A i \in Slots : ~Running(i)'
  BY <1>3 DEF Running, IsOn, IInv, SensedUnleased
<1>10. InterlockHolds' /\ NoAutoRestart'
  BY <1>9 DEF InterlockHolds, NoAutoRestart
<1> QED BY <1>4, <1>5, <1>6, <1>7, <1>8, <1>10 DEF IInv

(* A slot as the invariant sees it: but for its diagnostic and its meter.  *)
Same(d, e) ==
    /\ e.desired = d.desired /\ e.effective = d.effective
    /\ e.feedback = d.feedback /\ e.backoff = d.backoff
    /\ e.restored = d.restored /\ e.baseline = d.baseline
    /\ e.lease = d.lease /\ e.flash = d.flash

(* A step that leaves the slots alone, visits none and takes no permission *)
(* back keeps the invariant.                                               *)
LEMMA QuietIInv ==
    ASSUME IInv,
           dev' \in [Slots -> Slot], \A j \in Slots : Same(dev[j], dev'[j]),
           policy' \in [Slots -> Policy],
           \A j \in Slots : policy[j].ready => policy'[j].ready,
           writes' \in BOOLEAN, writes => writes', trusted' \in BOOLEAN,
           cursor' = cursor \/ cursor' = 0, asked' = asked
    PROVE  IInv'
<1>1. TypeOK'
  <2>1. cursor' \in 0..N
    BY DEF IInv, TypeOK
  <2>2. asked' \in [Slots -> BOOLEAN]
    BY DEF IInv, TypeOK
  <2> QED BY <2>1, <2>2 DEF TypeOK
<1>2. RelayWritten'
  BY DEF IInv, RelayWritten, IsOn, Same
<1>3. SensedUnleased'
  BY SensedAssumption DEF IInv, SensedUnleased, Same
<1>4. AppliedUnderPolicy'
  BY DEF IInv, AppliedUnderPolicy, Same
<1>5. TargetAsked' /\ BaselineDurable'
  <2>1. TargetAsked'
    BY DEF IInv, TargetAsked, Same
  <2>2. BaselineDurable'
    BY DEF IInv, BaselineDurable, Same
  <2> QED BY <2>1, <2>2
<1>6. /\ \A j \in Slots : dev'[j].feedback = dev[j].feedback
      /\ \A j \in Slots : dev'[j].effective = dev[j].effective
      /\ \A j \in Slots : Deps[j] \subseteq Slots
  BY DepsAssumption DEF Same
<1>7. CASE cursor' = 0
  <2>1. \A j \in Slots : ~(j < cursor')
    BY <1>7 DEF Slots
  <2>2. InterlockHolds' /\ NoAutoRestart'
    BY <2>1 DEF InterlockHolds, NoAutoRestart
  <2> QED BY <1>1, <1>2, <1>3, <1>4, <1>5, <2>2 DEF IInv
<1>8. CASE cursor' = cursor
  <2>1. InterlockHolds'
    BY <1>6, <1>8 DEF IInv, InterlockHolds, Running, IsOn, OnCycle, Reachable, Closed
  <2>2. NoAutoRestart'
    BY <1>6, <1>8 DEF IInv, NoAutoRestart, Running, IsOn
  <2> QED BY <1>1, <1>2, <1>3, <1>4, <1>5, <2>1, <2>2 DEF IInv
<1> QED BY <1>7, <1>8

LEMMA NextIInv ==
    ASSUME IInv, [Next]_vars
    PROVE  IInv'
<1>1. ASSUME NEW i \in Slots, TickSlot(i) PROVE IInv'
  BY <1>1, TickIInv
<1>2. ASSUME NEW i \in Slots, RejectStart(i) PROVE IInv'
  <2> DEFINE d == [dev[i] EXCEPT !.interlock = "StartRejected"]
  <2>1. d \in Slot /\ Same(dev[i], d)
    BY DEF IInv, TypeOK, Slot, Interlocks, Same
  <2>2. Commanded(i, d) /\ asked' = asked
    BY <1>2 DEF RejectStart
  <2> HIDE DEF d
  <2>3. /\ asked' \in [Slots -> BOOLEAN]
        /\ d.lease.active /\ ~d.restored => writes /\ policy[i].ready
        /\ d.desired \/ (d.lease.active /\ d.lease.value) => asked'[i]
        /\ d.lease.active => d.flash = [active |-> TRUE, value |-> d.lease.value,
                                       baseline |-> d.baseline]
    BY <2>1, <2>2 DEF IInv, TypeOK, Same, AppliedUnderPolicy, TargetAsked, BaselineDurable
  <2> QED BY <2>1, <2>2, <2>3, CommandIInv DEF Same
<1>3. ASSUME NEW i \in Slots, NEW on \in BOOLEAN, NEW manual \in BOOLEAN, NEW ok \in BOOLEAN,
             SetTarget(i, on, manual, ok)
      PROVE  IInv'
  <2> DEFINE c == IF manual THEN Cancel(dev[i], ok) ELSE dev[i]
             accepted == ~(manual /\ c.lease.dirty)
             d == IF accepted THEN [c EXCEPT !.interlock = "Ready", !.desired = on] ELSE c
  <2>1. Lapse(dev[i], c)
    BY CancelLapses DEF IInv, TypeOK, Lapse, Frame
  <2>2. /\ Commanded(i, d)
        /\ asked' = [asked EXCEPT ![i] = asked[i] \/ (on /\ accepted)]
    BY <1>3 DEF SetTarget
  <2>3. accepted \in BOOLEAN
    OBVIOUS
  <2> HIDE DEF c, accepted
  <2>4. /\ d \in Slot
        /\ d.desired => dev[i].desired \/ (on /\ accepted)
        /\ d.feedback = c.feedback /\ d.backoff = c.backoff /\ d.restored = c.restored
        /\ d.lease = c.lease /\ d.flash = c.flash /\ d.baseline = c.baseline
    BY <2>1 DEF Lapse, Frame, Slot, Interlocks
  <2> HIDE DEF d
  <2>5. /\ asked' \in [Slots -> BOOLEAN]
        /\ \A j \in Slots : j # i => asked'[j] = asked[j]
        /\ asked'[i] = (asked[i] \/ (on /\ accepted))
    BY <2>2, <2>3 DEF IInv, TypeOK
  <2>6. /\ d.lease.active /\ ~d.restored => writes /\ policy[i].ready
        /\ d.lease.active => d.flash = [active |-> TRUE, value |-> d.lease.value,
                                       baseline |-> d.baseline]
    BY <2>1, <2>4 DEF IInv, Lapse, Frame, AppliedUnderPolicy, BaselineDurable
  <2>7. d.desired \/ (d.lease.active /\ d.lease.value) => asked'[i]
    BY <2>1, <2>4, <2>5 DEF IInv, Lapse, TargetAsked
  <2> QED BY <2>1, <2>2, <2>4, <2>5, <2>6, <2>7, CommandIInv DEF Lapse, Frame
<1>4. ASSUME NEW i \in Slots, NEW value \in BOOLEAN, Override(i, value) PROVE IInv'
  <2> DEFINE d == [Granted(dev[i], value) EXCEPT !.interlock = "Ready"]
  <2>1. dev[i] \in Slot
    BY DEF IInv, TypeOK
  <2>2. /\ d \in Slot /\ d.desired = dev[i].desired
        /\ d.feedback = dev[i].feedback /\ d.backoff = dev[i].backoff
        /\ d.lease.active /\ d.lease.value = value
        /\ d.flash = [active |-> TRUE, value |-> value, baseline |-> d.baseline]
    <3> DEFINE g == Granted(dev[i], value)
    <3>1. /\ [active |-> TRUE, value |-> value, anchored |-> TRUE, dirty |-> FALSE] \in Lease
          /\ [active |-> TRUE, value |-> value, baseline |-> dev[i].desired] \in Flash
          /\ dev[i].desired \in BOOLEAN
      BY <2>1 DEF Slot, Lease, Flash
    <3>2. g \in Slot
      BY <2>1, <3>1 DEF Granted, Slot
    <3>3. /\ g.desired = dev[i].desired /\ g.feedback = dev[i].feedback
          /\ g.backoff = dev[i].backoff /\ g.baseline = dev[i].desired
          /\ g.lease = [active |-> TRUE, value |-> value, anchored |-> TRUE, dirty |-> FALSE]
          /\ g.flash = [active |-> TRUE, value |-> value, baseline |-> dev[i].desired]
      BY <2>1 DEF Granted, Slot
    <3> HIDE DEF g
    <3>4. /\ d \in Slot /\ d.desired = g.desired /\ d.feedback = g.feedback
          /\ d.backoff = g.backoff /\ d.baseline = g.baseline /\ d.lease = g.lease
          /\ d.flash = g.flash
      <4>1. d = [g EXCEPT !.interlock = "Ready"] /\ "Ready" \in Interlocks
        BY DEF g, Interlocks
      <4> HIDE DEF d
      <4> QED BY <3>2, <4>1 DEF Slot
    <3> HIDE DEF d
    <3> QED BY <3>3, <3>4
  <2>3. /\ Commanded(i, d) /\ writes /\ policy[i].ready /\ i \notin Sensed
        /\ asked' = [asked EXCEPT ![i] = asked[i] \/ value]
    BY <1>4, OverridableAssumption DEF Override, OverrideAllowed
  <2> HIDE DEF d
  <2>4. /\ asked' \in [Slots -> BOOLEAN]
        /\ \A j \in Slots : j # i => asked'[j] = asked[j]
        /\ asked'[i] = (asked[i] \/ value)
    BY <2>3 DEF IInv, TypeOK
  <2>5. d.desired \/ (d.lease.active /\ d.lease.value) => asked'[i]
    BY <2>2, <2>4 DEF IInv, TargetAsked
  <2> QED BY <2>2, <2>3, <2>4, <2>5, CommandIInv
<1>5. ASSUME NEW i \in Slots, NEW value \in BOOLEAN, OverrideNotSaved(i, value) PROVE IInv'
  <2>1. /\ dev' = [dev EXCEPT ![i] = StartFailed(dev[i])]
        /\ UNCHANGED <<policy, writes, trusted, cursor, asked>>
    BY <1>5 DEF OverrideNotSaved
  <2>2. \A j \in Slots : dev'[j] \in Slot /\ Same(dev[j], dev'[j])
    BY <2>1 DEF IInv, TypeOK, Slot, StartFailed, Interlocks, Same
  <2>3. dev' \in [Slots -> Slot]
    BY <2>1, <2>2 DEF IInv, TypeOK
  <2> QED BY <2>1, <2>2, <2>3, QuietIInv DEF IInv, TypeOK
<1>6. ASSUME NEW i \in Slots, NEW ok \in BOOLEAN, Release(i, ok) PROVE IInv'
  <2> DEFINE d == Cancel(dev[i], ok)
  <2>1. Lapse(dev[i], d)
    BY CancelLapses DEF IInv, TypeOK
  <2>2. Commanded(i, d) /\ asked' = asked
    BY <1>6 DEF Release
  <2> HIDE DEF d
  <2>3. /\ asked' \in [Slots -> BOOLEAN]
        /\ d.lease.active /\ ~d.restored => writes /\ policy[i].ready
        /\ d.desired \/ (d.lease.active /\ d.lease.value) => asked'[i]
        /\ d.lease.active => d.flash = [active |-> TRUE, value |-> d.lease.value,
                                       baseline |-> d.baseline]
    BY <2>1, <2>2 DEF IInv, TypeOK, Lapse, Frame, AppliedUnderPolicy, TargetAsked, BaselineDurable
  <2> QED BY <2>1, <2>2, <2>3, CommandIInv DEF Lapse, Frame
<1>7. ASSUME NewDay PROVE IInv'
  <2>1. /\ dev' = [i \in Slots |-> [dev[i] EXCEPT !.maxed = FALSE]]
        /\ UNCHANGED <<policy, writes, trusted, cursor, asked>>
    BY <1>7 DEF NewDay
  <2>2. \A j \in Slots : dev'[j] \in Slot /\ Same(dev[j], dev'[j])
    <3>1. \A d \in Slot : LET e == [d EXCEPT !.maxed = FALSE]
                          IN  e \in Slot /\ Same(d, e)
      BY DEF Slot, Same
    <3>2. \A j \in Slots : dev[j] \in Slot /\ dev'[j] = [dev[j] EXCEPT !.maxed = FALSE]
      BY <2>1 DEF IInv, TypeOK
    <3> QED BY <3>1, <3>2
  <2>3. dev' \in [Slots -> Slot]
    BY <2>1, <2>2
  <2> QED BY <2>1, <2>2, <2>3, QuietIInv DEF IInv, TypeOK
<1>8. ASSUME SetPolicies PROVE IInv'
  <2>1. PICK p \in [Roles -> [ready : {TRUE}, allowOn : BOOLEAN, allowOff : BOOLEAN]] :
          /\ policy' = [i \in Slots |-> IF i \in Roles THEN p[i] ELSE policy[i]]
          /\ UNCHANGED <<dev, writes, trusted, cursor, asked>>
    BY <1>8 DEF SetPolicies
  <2>2. \A j \in Slots : policy'[j] \in Policy /\ (policy[j].ready => policy'[j].ready)
    BY <2>1 DEF IInv, TypeOK, Policy
  <2>3. policy' \in [Slots -> Policy]
    BY <2>1, <2>2
  <2> QED BY <2>1, <2>2, <2>3, QuietIInv DEF IInv, TypeOK, Same
<1>9. ASSUME Loop \/ EnableWrites \/ UNCHANGED vars PROVE IInv'
  <2>1. /\ UNCHANGED <<dev, policy, trusted, asked>>
        /\ writes' = writes \/ writes' = TRUE
        /\ cursor' = cursor \/ cursor' = 0
    BY <1>9 DEF Loop, EnableWrites, vars
  <2>2. writes \in BOOLEAN /\ trusted' \in BOOLEAN
    BY <2>1 DEF IInv, TypeOK
  <2>3. CASE writes' = writes
    BY <2>1, <2>2, <2>3, QuietIInv DEF IInv, TypeOK, Same
  <2>4. CASE writes' = TRUE
    <3>1. writes' \in BOOLEAN /\ (writes => writes')
      BY <2>4
    <3> QED BY <2>1, <2>2, <3>1, QuietIInv DEF IInv, TypeOK, Same
  <2> QED BY <2>1, <2>3, <2>4
<1>10. ASSUME NEW t \in BOOLEAN, SetTime(t) PROVE IInv'
  <2>1. UNCHANGED <<dev, policy, writes, cursor, asked>> /\ trusted' \in BOOLEAN
    BY <1>10 DEF SetTime
  <2> QED BY <2>1, QuietIInv DEF IInv, TypeOK, Same
<1> QED BY <1>1, <1>2, <1>3, <1>4, <1>5, <1>6, <1>7, <1>8, <1>9, <1>10, RebootIInv DEF Next

LEMMA Invariance == Spec => []IInv
<1>1. Init => IInv
  BY InitIInv
<1>2. IInv /\ [Next]_vars => IInv'
  BY NextIInv
<1> QED BY <1>1, <1>2, PTL DEF Spec
-----------------------------------------------------------------------------
(* Theorems *)

(* Every state of every behaviour is well typed.                           *)
THEOREM TypeCorrect == Spec => []TypeOK
<1>1. IInv => TypeOK
  BY DEF IInv
<1> QED BY <1>1, Invariance, PTL

(* No slot runs whose dependencies were not seen running at its last visit,*)
(* for any graph of dependencies over any number of slots.                 *)
THEOREM InterlockCorrect == Spec => []InterlockHolds
<1>1. IInv => InterlockHolds
  BY DEF IInv
<1> QED BY <1>1, Invariance, PTL

(* What a protection stopped, only a new command restarts.                 *)
THEOREM NoRestartCorrect == Spec => []NoAutoRestart
<1>1. IInv => NoAutoRestart
  BY DEF IInv
<1> QED BY <1>1, Invariance, PTL

(* A lease in force is on flash with the target it returns to.             *)
THEOREM BaselineCorrect == Spec => []BaselineDurable
<1>1. IInv => BaselineDurable
  BY DEF IInv
<1> QED BY <1>1, Invariance, PTL

(* A protection never pauses an applied forcing: only a visit moves the    *)
(* cursor by one, but for a restart, which leaves no lease anchored.       *)
THEOREM NeverPausedCorrect == Spec => NeverPaused
<1>1. ASSUME IInv, [Next]_vars, NEW i \in Slots, Ticks(i), writes, policy[i].ready,
             ~dev'[i].restored, Forced(dev'[i]), dev'[i].lease.value
      PROVE  dev'[i].effective
  <2>1. cursor = i /\ cursor' = i + 1 /\ i \in Nat /\ i < N
    BY <1>1 DEF Ticks, Slots
  <2>2. CASE TickSlot(i)
    <3>1. PICK d : Visited(i, dev[i], d) /\ dev' = [dev EXCEPT ![i] = d]
      BY <1>1, <2>2, TickVisits DEF IInv
    <3>2. dev'[i] = d
      BY <1>1, <3>1 DEF IInv, TypeOK
    <3>3. d.effective
      BY <1>1, <3>1, <3>2 DEF Visited, Forced
    <3> QED BY <3>2, <3>3
  <2>3. CASE Reboot
    <3>1. PICK maxed \in [Slots -> BOOLEAN] :
            dev' = [j \in Slots |-> Restarted(dev[j], maxed[j])]
      BY <2>3 DEF Reboot
    <3>2. ~dev'[i].lease.anchored
      BY <1>1, <3>1 DEF Restarted
    <3> QED BY <1>1, <3>2 DEF Forced
  <2>4. ASSUME NEW j \in Slots, TickSlot(j) PROVE j = i
    BY <2>1, <2>4 DEF TickSlot
  <2>5. ~Idle /\ cursor' # cursor /\ cursor' # 0
    BY <2>1 DEF Idle
  <2> QED BY <1>1, <2>2, <2>3, <2>4, <2>5
          DEF Next, RejectStart, SetTarget, Override, OverrideNotSaved, Release, Loop,
              EnableWrites, SetPolicies, NewDay, SetTime, vars
<1>2. IInv /\ [Next]_vars =>
        [\A i \in Slots :
           Ticks(i) /\ writes /\ policy[i].ready /\ ~dev'[i].restored
             /\ Forced(dev'[i]) /\ dev'[i].lease.value
           => dev'[i].effective]_vars
  BY <1>1
<1> QED BY <1>2, Invariance, PTL DEF Spec, NeverPaused

(* A forcing is on flash with the target it returns to, and is ended by a  *)
(* protection or not disturbed at all.                                     *)
THEOREM ForcingsCorrect == Spec => ForcingsWhole
BY BaselineCorrect, NeverPausedCorrect, PTL DEF ForcingsWhole
=============================================================================
