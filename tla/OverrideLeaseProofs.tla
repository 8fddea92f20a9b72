------------------------- MODULE OverrideLeaseProofs -------------------------
(***************************************************************************)
(* Theorems about OverrideLease for every set of targets, every length of  *)
(* lease, every setting of the clock and every bound.                      *)
(***************************************************************************)
EXTENDS OverrideLease, TLAPS

(* Flush, Cancel, Start and Restore return holders.                        *)
LEMMA FlushType ==
  ASSUME NEW h \in Holder, NEW ok \in BOOLEAN
  PROVE  Flush(h, ok) \in Holder
  BY DEF Flush, Holder, Ram, Record, Tombstone, Reasons

LEMMA CancelType ==
  ASSUME NEW h \in Holder, NEW why \in Reasons, NEW ok \in BOOLEAN
  PROVE  Cancel(h, why, ok) \in Holder
<1> DEFINE stopped == [h EXCEPT !.ram = [h.ram EXCEPT !.active = FALSE,
                             !.anchored = FALSE, !.dirty = TRUE, !.reason = why]]
<1>1. stopped \in Holder
  BY DEF Holder, Ram
<1>2. Flush(stopped, ok) \in Holder
  BY <1>1, FlushType
<1> QED
  BY <1>2 DEF Cancel

LEMMA StartType ==
  ASSUME NEW h \in Holder, NEW t \in Targets, NEW v \in BOOLEAN, NEW s \in Nat,
         NEW utc \in Nat, NEW mono \in Nat, NEW ok \in BOOLEAN
  PROVE  Start(h, t, v, s, utc, mono, ok) \in Holder
<1>1. s * MsPerSec \in Nat
  BY MsPerSecAssumption
<1>2. Granted(t, v, s, utc, mono) \in Ram
  BY <1>1 DEF Granted, Ram, Reasons
<1>3. Encoded(Granted(t, v, s, utc, mono)) \in Record
  BY <1>2 DEF Encoded, Ram, Record
<1> QED
  BY <1>2, <1>3 DEF Start, Holder

LEMMA RestoreType ==
  ASSUME NEW r \in Record
  PROVE  Restore(r) \in Ram
  BY DEF Restore, Fresh, Record, Ram, Reasons

LEMMA DivisionInNat ==
  ASSUME NEW a \in Nat, NEW b \in Nat \ {0}
  PROVE  a \div b \in Nat
  OBVIOUS

LEMMA ProductMonotonic ==
  ASSUME NEW a \in Int, NEW b \in Int, NEW c \in Nat, a <= b
  PROVE  a * c <= b * c
  OBVIOUS
-----------------------------------------------------------------------------
(* What RAM and flash say of each other; every operation keeps it.         *)
Consistent(h) ==
    /\ h.ram.active => h.flash = Encoded(h.ram)
    /\ ~h.ram.active /\ ~h.ram.dirty => ~h.flash.active
    /\ ~(h.ram.active /\ h.ram.dirty)
    /\ WellFormed(h.flash)

(* No operation but a grant makes a record live or changes its length.     *)
LengthKept(h, g) ==
    g.flash.active => /\ h.flash.active
                      /\ g.flash.end - g.flash.start = h.flash.end - h.flash.start

(* A UTC the callers may pass: unknown, or a date.                         *)
Date(utc) == utc \in Nat /\ (utc = 0 \/ utc > MaxDurationSec)

LEMMA FlushKeeps ==
  ASSUME NEW h \in Holder, NEW ok \in BOOLEAN,
         ~h.ram.active, WellFormed(h.flash), ~h.ram.dirty => ~h.flash.active
  PROVE  Consistent(Flush(h, ok)) /\ LengthKept(h, Flush(h, ok)) /\ ~Flush(h, ok).ram.active
  BY DEF Flush, Consistent, LengthKept, Holder, Ram, Record, Tombstone, WellFormed

LEMMA CancelKeeps ==
  ASSUME NEW h \in Holder, NEW why \in Reasons, NEW ok \in BOOLEAN, Consistent(h)
  PROVE  LET g == Cancel(h, why, ok)
         IN  Consistent(g) /\ LengthKept(h, g) /\ ~g.ram.active
<1> DEFINE stopped == [h EXCEPT !.ram = [h.ram EXCEPT !.active = FALSE,
                             !.anchored = FALSE, !.dirty = TRUE, !.reason = why]]
<1>1. CASE ~h.ram.active /\ ~h.ram.dirty
  BY <1>1 DEF Cancel, LengthKept, Consistent
<1>2. CASE h.ram.active \/ h.ram.dirty
  <2>1. /\ stopped \in Holder
        /\ ~stopped.ram.active
        /\ stopped.ram.dirty
        /\ stopped.flash = h.flash
    BY DEF Holder, Ram
  <2>2. WellFormed(stopped.flash)
    BY <2>1 DEF Consistent
  <2>3. Consistent(Flush(stopped, ok)) /\ LengthKept(stopped, Flush(stopped, ok))
           /\ ~Flush(stopped, ok).ram.active
    BY <2>1, <2>2, FlushKeeps
  <2>4. LengthKept(h, Flush(stopped, ok))
    BY <2>1, <2>3 DEF LengthKept
  <2>5. Cancel(h, why, ok) = Flush(stopped, ok)
    BY <1>2 DEF Cancel, Holder, Ram
  <2> QED
    BY <2>3, <2>4, <2>5
<1> QED
  BY <1>1, <1>2

(* A grant that took effect, spelled out.                                  *)
LEMMA StartKeeps ==
  ASSUME NEW h \in Holder, NEW t \in Targets, NEW v \in BOOLEAN, NEW s \in Nat,
         NEW utc \in Nat, NEW mono \in Nat, NEW ok \in BOOLEAN, Consistent(h)
  PROVE  LET g == Start(h, t, v, s, utc, mono, ok)
         IN  /\ Consistent(g)
             /\ StartAllowed(utc, s) /\ ok =>
                   /\ g.ram.deadline = mono + s * MsPerSec
                   /\ g.flash.end - g.flash.start = s
             /\ ~(StartAllowed(utc, s) /\ ok) => g = h
<1> DEFINE l == Granted(t, v, s, utc, mono)
<1>0. /\ l.active /\ ~l.dirty
      /\ l.start = utc /\ l.end = utc + s
      /\ l.deadline = mono + s * MsPerSec
  BY DEF Granted
<1>1. CASE StartAllowed(utc, s) /\ ok
  <2>1. utc # 0 /\ s \in 1..MaxDurationSec
    BY <1>1 DEF StartAllowed
  <2>2. Start(h, t, v, s, utc, mono, ok) = [ram |-> l, flash |-> Encoded(l)]
    BY <1>1 DEF Start
  <2>3. /\ Encoded(l).active /\ Encoded(l).start = utc /\ Encoded(l).end = utc + s
    BY <1>0 DEF Encoded
  <2>4. WellFormed(Encoded(l)) /\ Encoded(l).end - Encoded(l).start = s
    BY <2>1, <2>3, MaxDurationAssumption DEF WellFormed
  <2>5. Consistent([ram |-> l, flash |-> Encoded(l)])
    <3> HIDE DEF l
    <3> QED
      BY <1>0, <2>4 DEF Consistent
  <2> DEFINE g == Start(h, t, v, s, utc, mono, ok)
  <2>6. g.ram = l /\ g.flash = Encoded(l)
    BY <2>2
  <2>7. g.ram.deadline = mono + s * MsPerSec /\ g.flash.end - g.flash.start = s
    BY <1>0, <2>4, <2>6
  <2> QED
    BY <1>1, <2>2, <2>5, <2>7
<1>2. CASE ~(StartAllowed(utc, s) /\ ok)
  BY <1>2 DEF Start
<1> QED
  BY <1>1, <1>2

(* A tick either stops the lease, or leaves it alone, or anchors it, or    *)
(* moves its record.                                                       *)
LEMMA TickCases ==
  ASSUME NEW h \in Holder, NEW utc \in Nat, NEW mono \in Nat,
         NEW okMove \in BOOLEAN, NEW okStop \in BOOLEAN
  PROVE  LET g == Tick(h, utc, mono, okMove, okStop)
             end == CorrectedEnd(h.ram, utc, mono)
         IN  \/ /\ g = h
                /\ h.ram.active /\ utc # 0 =>
                      /\ h.ram.anchored /\ mono < h.ram.deadline
                      /\ ~Drifted(h.ram, utc, mono)
             \/ \E why \in Reasons : g = Cancel(h, why, okStop)
             \/ /\ h.ram.active /\ ~h.ram.anchored
                /\ utc # 0 /\ h.ram.start <= utc /\ utc < h.ram.end
                /\ g = [h EXCEPT !.ram = Anchored(h.ram, utc, mono)]
             \/ /\ h.ram.active /\ h.ram.anchored /\ mono < h.ram.deadline
                /\ utc # 0
                /\ end >= h.ram.end - h.ram.start
                /\ g = [ram |-> Shifted(h.ram, end), flash |-> Encoded(Shifted(h.ram, end))]
  BY DEF Tick, ClockBehind, Expired, Reasons, Holder, Ram

LEMMA AnchoredType ==
  ASSUME NEW l \in Ram, NEW utc \in Nat, NEW mono \in Nat, utc < l.end
  PROVE  Anchored(l, utc, mono) \in Ram
<1>1. (l.end - utc) \in Nat
  BY DEF Ram
<1>2. (l.end - utc) * MsPerSec \in Nat
  BY <1>1, MsPerSecAssumption
<1> DEFINE d == (l.end - utc) * MsPerSec
<1>3. mono + d \in Nat
  BY <1>2
<1> HIDE DEF d
<1> QED
  BY <1>3 DEF Anchored, Ram, d

LEMMA CorrectedEndInt ==
  ASSUME NEW l \in Ram, NEW utc \in Nat, NEW mono \in Nat, mono < l.deadline
  PROVE  CorrectedEnd(l, utc, mono) \in Nat
<1>1. l.deadline - mono + MsPerSec - 1 \in Nat
  BY MsPerSecAssumption DEF Ram
<1>2. RemainingSec(l, mono) \in Nat
  BY <1>1, MsPerSecAssumption, DivisionInNat DEF RemainingSec
<1> QED
  BY <1>2 DEF CorrectedEnd

LEMMA TickKeeps ==
  ASSUME NEW h \in Holder, NEW utc \in Nat, NEW mono \in Nat,
         NEW okMove \in BOOLEAN, NEW okStop \in BOOLEAN,
         Consistent(h), Date(utc)
  PROVE  LET g == Tick(h, utc, mono, okMove, okStop)
         IN  g \in Holder /\ Consistent(g) /\ LengthKept(h, g)
<1> DEFINE g == Tick(h, utc, mono, okMove, okStop)
           end == CorrectedEnd(h.ram, utc, mono)
           moved == Shifted(h.ram, end)
<1>1. CASE g = h
  BY <1>1 DEF LengthKept
<1>2. ASSUME NEW why \in Reasons, g = Cancel(h, why, okStop)
      PROVE  g \in Holder /\ Consistent(g) /\ LengthKept(h, g)
  BY <1>2, CancelType, CancelKeeps
<1>3. CASE /\ h.ram.active /\ ~h.ram.anchored
           /\ utc # 0 /\ h.ram.start <= utc /\ utc < h.ram.end
           /\ g = [h EXCEPT !.ram = Anchored(h.ram, utc, mono)]
  <2>1. h.ram \in Ram /\ h.flash \in Record
    BY DEF Holder
  <2>2. Anchored(h.ram, utc, mono) \in Ram
    BY <1>3, <2>1, AnchoredType
  <2>3. g \in Holder /\ g.ram = Anchored(h.ram, utc, mono) /\ g.flash = h.flash
    BY <1>3, <2>1, <2>2 DEF Holder
  <2>4. /\ g.ram.active /\ ~g.ram.dirty
        /\ Encoded(g.ram) = Encoded(h.ram)
    BY <1>3, <2>1, <2>3 DEF Anchored, Encoded, Ram, Consistent
  <2>5. Consistent(g) /\ LengthKept(h, g)
    <3> HIDE DEF g
    <3> QED
      BY <1>3, <2>3, <2>4 DEF Consistent, LengthKept
  <2> QED
    BY <2>3, <2>5
<1>4. CASE /\ h.ram.active /\ h.ram.anchored /\ mono < h.ram.deadline
           /\ utc # 0
           /\ end >= h.ram.end - h.ram.start
           /\ g = [ram |-> moved, flash |-> Encoded(moved)]
  <2>1. h.ram \in Ram /\ h.flash \in Record
    BY DEF Holder
  <2>2. end \in Nat
    BY <1>4, <2>1, CorrectedEndInt
  <2>3. h.flash = Encoded(h.ram) /\ WellFormed(h.flash) /\ ~h.ram.dirty
    BY <1>4 DEF Consistent
  <2>4. /\ h.ram.end > h.ram.start
        /\ h.ram.end - h.ram.start <= MaxDurationSec
        /\ h.ram.start \in Nat /\ h.ram.end \in Nat
    BY <1>4, <2>1, <2>3 DEF WellFormed, Encoded, Ram
  <2>5. end >= utc
    <3>1. h.ram.deadline - mono + MsPerSec - 1 \in Nat
      BY <1>4, <2>1, MsPerSecAssumption DEF Ram
    <3>2. RemainingSec(h.ram, mono) \in Nat
      BY <3>1, MsPerSecAssumption, DivisionInNat DEF RemainingSec
    <3> QED
      BY <3>2 DEF CorrectedEnd
  <2>6. end - (h.ram.end - h.ram.start) \in Nat \ {0}
    BY <1>4, <2>2, <2>4, <2>5, MaxDurationAssumption DEF Date
  <2>7. /\ moved.start = end - (h.ram.end - h.ram.start) /\ moved.end = end
        /\ moved.active /\ ~moved.dirty /\ moved \in Ram
    <3> HIDE DEF end
    <3> QED
      BY <1>4, <2>1, <2>2, <2>3, <2>6 DEF Shifted, Ram
  <2>8. Encoded(moved) \in Record
    <3> HIDE DEF end, moved
    <3> QED
      BY <2>7 DEF Encoded, Ram, Record
  <2>9. /\ Encoded(moved).active
        /\ Encoded(moved).start = end - (h.ram.end - h.ram.start)
        /\ Encoded(moved).end = end
    <3> HIDE DEF end, moved
    <3> QED
      BY <2>7 DEF Encoded
  <2>10. WellFormed(Encoded(moved))
    <3> HIDE DEF end, moved
    <3> QED
      BY <2>2, <2>4, <2>6, <2>9, MaxDurationAssumption DEF WellFormed
  <2>11. g \in Holder
    BY <1>4, <2>7, <2>8 DEF Holder
  <2>12. Consistent(g)
    <3> HIDE DEF moved
    <3> QED
      BY <1>4, <2>7, <2>10 DEF Consistent
  <2>13. h.flash.active /\ h.flash.end - h.flash.start = h.ram.end - h.ram.start
    BY <2>3 DEF Encoded
  <2>14. LengthKept(h, g)
    <3> HIDE DEF end, moved
    <3> QED
      BY <1>4, <2>2, <2>4, <2>9, <2>13 DEF LengthKept
  <2> QED
    BY <2>11, <2>12, <2>14
<1> QED
  BY <1>1, <1>2, <1>3, <1>4, TickCases
-----------------------------------------------------------------------------
(* The inductive invariant.  A record on flash keeps the length that was   *)
(* granted (LengthGranted), which a restored lease needs when it anchors.  *)
LengthGranted ==
    holder.flash.active => (holder.flash.end - holder.flash.start) * MsPerSec = granted

IInv ==
    /\ TypeOK
    /\ Consistent(holder)
    /\ LengthGranted
    /\ NeverMoreThanGranted

LEMMA UtcIsDate ==
  ASSUME TypeOK
  PROVE  Utc \in Nat /\ Date(Utc) /\ Mono \in Nat
<1>1. offset \in Nat /\ offset > MaxDurationSec
  BY OffsetsAssumption DEF TypeOK
<1>2. real \div MsPerSec \in Nat
  BY DivisionInNat, MsPerSecAssumption DEF TypeOK
<1>3. Utc \in Nat /\ Date(Utc)
  BY <1>1, <1>2, MaxDurationAssumption DEF Utc, Date
<1> QED
  BY <1>3 DEF Mono, TypeOK

LEMMA InitInvariant == Init => IInv
<1> SUFFICES ASSUME Init PROVE IInv
  OBVIOUS
<1>1. PICK t \in Targets : holder = [ram |-> Fresh(t), flash |-> Tombstone(t)]
  BY DEF Init
<1>2. holder \in Holder /\ Consistent(holder)
  BY <1>1 DEF Fresh, Tombstone, Holder, Ram, Record, Reasons, Consistent, WellFormed
<1>3. ~holder.flash.active /\ ~Forced
  BY <1>1 DEF Fresh, Tombstone, Forced, Mode
<1>4. offset \in Nat
  BY OffsetsAssumption DEF Init
<1> QED
  <2>1. TypeOK
    <3>1. trusted \in BOOLEAN /\ misread \in BOOLEAN
      BY DEF Init
    <3>2. real \in Nat /\ bootAt \in 0..real /\ grantedAt \in 0..real
             /\ granted \in Nat /\ reboots \in 0..MaxReboots
      BY MaxRebootsAssumption DEF Init
    <3> QED
      BY <1>2, <3>1, <3>2 DEF Init, TypeOK
  <2> QED
    BY <1>2, <1>3, <2>1 DEF IInv, LengthGranted, NeverMoreThanGranted

(* An operation that is not a grant, and leaves the clocks and the history *)
(* of the grant alone, keeps the part of the invariant about the holder.   *)
LEMMA OperationKeepsLength ==
  ASSUME LengthGranted, holder \in Holder, holder' \in Holder,
         LengthKept(holder, holder'), granted' = granted
  PROVE  LengthGranted'
  BY DEF LengthGranted, LengthKept

LEMMA NextInvariant == IInv /\ [Next]_vars => IInv'
<1> SUFFICES ASSUME IInv, [Next]_vars PROVE IInv'
  OBVIOUS
<1> USE DEF IInv
<1>0. /\ holder \in Holder /\ Consistent(holder)
      /\ Utc \in Nat /\ Date(Utc) /\ Mono \in Nat
      /\ holder.ram \in Ram /\ holder.flash \in Record
      /\ real \in Nat /\ bootAt \in 0..real /\ granted \in Nat
  BY UtcIsDate DEF TypeOK, Holder
<1>1. ASSUME NEW t \in Targets, NEW v \in BOOLEAN, NEW s \in Durations, NEW ok \in BOOLEAN,
             Grant(t, v, s, ok)
      PROVE  IInv'
  <2>1. s \in Nat
    BY DurationsAssumption
  <2>2. holder' = Start(holder, t, v, s, Utc, Mono, ok)
    BY <1>1 DEF Grant
  <2>3. holder' \in Holder /\ Consistent(holder')
    BY <1>0, <2>1, <2>2, StartType, StartKeeps
  <2>4. CASE StartAllowed(Utc, s) /\ ok
    <3>1. /\ holder'.ram.deadline = Mono + s * MsPerSec
          /\ holder'.flash.end - holder'.flash.start = s
      <4>1. LET g == holder'
            IN  /\ g.ram = Granted(t, v, s, Utc, Mono)
                /\ g.flash = Encoded(Granted(t, v, s, Utc, Mono))
        BY <2>2, <2>4 DEF Start
      <4>2. Granted(t, v, s, Utc, Mono).deadline = Mono + s * MsPerSec
        BY DEF Granted
      <4>3. /\ Encoded(Granted(t, v, s, Utc, Mono)).end = Utc + s
            /\ Encoded(Granted(t, v, s, Utc, Mono)).start = Utc
        BY DEF Granted, Encoded
      <4>4. (Utc + s) - Utc = s
        BY <1>0, <2>1
      <4> QED
        BY <4>1, <4>2, <4>3, <4>4
    <3>2. granted' = s * MsPerSec /\ Mono' = Mono
      BY <1>1, <2>4 DEF Grant, Mono, clockVars
    <3>3. s * MsPerSec \in Nat
      BY <2>1, MsPerSecAssumption
    <3>4. TypeOK'
      <4>1. /\ UNCHANGED <<real, bootAt, trusted, offset>>
            /\ grantedAt' = real /\ reboots' = 0 /\ seen' = offset /\ misread' = FALSE
        BY <1>1, <2>4 DEF Grant, clockVars
      <4>2. granted' \in Nat
        BY <3>2, <3>3
      <4> QED
        <5>1. misread' \in BOOLEAN
          BY <4>1
        <5>2. reboots' \in 0..MaxReboots /\ grantedAt' \in 0..real'
          BY <4>1, MaxRebootsAssumption DEF TypeOK
        <5> QED
          BY <2>3, <4>1, <4>2, <5>1, <5>2 DEF TypeOK
    <3>5. LengthGranted'
      BY <3>1, <3>2 DEF LengthGranted
    <3>6. NeverMoreThanGranted'
      <4> DEFINE d == s * MsPerSec
      <4>1. d \in Nat /\ holder'.ram.deadline = Mono + d /\ granted' = d
        BY <3>1, <3>2, <3>3
      <4> HIDE DEF d
      <4> QED
        BY <1>0, <3>2, <4>1 DEF NeverMoreThanGranted
    <3> QED
      BY <2>3, <3>4, <3>5, <3>6
  <2>5. CASE ~(StartAllowed(Utc, s) /\ ok)
    <3>1. holder' = holder
      BY <1>0, <2>1, <2>2, <2>5, StartKeeps
    <3>2. UNCHANGED <<clockVars, history>>
      BY <1>1, <2>5 DEF Grant
    <3> QED
      BY <3>1, <3>2 DEF TypeOK, LengthGranted, NeverMoreThanGranted, Forced, Mono,
                        clockVars, history
  <2> QED
    BY <2>4, <2>5
<1>2. ASSUME NEW why \in StopReasons, NEW ok \in BOOLEAN, Stop(why, ok)
      PROVE  IInv'
  <2>1. why \in Reasons
    BY StopReasonsAssumption
  <2>2. holder' = Cancel(holder, why, ok) /\ UNCHANGED <<clockVars, history>>
    BY <1>2 DEF Stop
  <2>3. /\ holder' \in Holder /\ Consistent(holder') /\ LengthKept(holder, holder')
        /\ ~holder'.ram.active
    BY <1>0, <2>1, <2>2, CancelType, CancelKeeps
  <2>4. TypeOK'
    BY <2>2, <2>3 DEF TypeOK, clockVars, history
  <2>5. LengthGranted'
    BY <1>0, <2>2, <2>3, OperationKeepsLength DEF history
  <2>6. NeverMoreThanGranted'
    BY <2>3 DEF NeverMoreThanGranted, Forced, Mode
  <2> QED
    BY <2>3, <2>4, <2>5, <2>6
<1>3. ASSUME NEW okMove \in BOOLEAN, NEW okStop \in BOOLEAN, LoopTick(okMove, okStop)
      PROVE  IInv'
  <2>1. /\ holder' = Tick(holder, Utc, Mono, okMove, okStop)
        /\ UNCHANGED <<clockVars, grantedAt, granted, reboots>>
        /\ seen' \in {seen, offset}
        /\ misread' \in BOOLEAN
    BY <1>3 DEF LoopTick, TypeOK
  <2>2. holder' \in Holder /\ Consistent(holder') /\ LengthKept(holder, holder')
    BY <1>0, <2>1, TickKeeps
  <2>3. TypeOK'
    BY <2>1, <2>2 DEF TypeOK, clockVars
  <2>4. LengthGranted'
    BY <1>0, <2>1, <2>2, OperationKeepsLength
  <2>5. NeverMoreThanGranted'
    <3>1. Mono' = Mono /\ granted' = granted
      BY <2>1 DEF Mono, clockVars
    <3>2. CASE holder' = holder
      BY <3>1, <3>2 DEF NeverMoreThanGranted, Forced
    <3>3. ASSUME NEW why \in Reasons, holder' = Cancel(holder, why, okStop)
          PROVE  NeverMoreThanGranted'
      <4>1. ~holder'.ram.active
        BY <1>0, <3>3, CancelKeeps
      <4> QED
        BY <4>1 DEF NeverMoreThanGranted, Forced, Mode
    <3>4. CASE /\ holder.ram.active
               /\ holder.ram.start <= Utc /\ Utc < holder.ram.end
               /\ holder' = [holder EXCEPT !.ram = Anchored(holder.ram, Utc, Mono)]
      <4> DEFINE left == holder.ram.end - Utc
                 whole == holder.ram.end - holder.ram.start
      <4>1. left \in Nat /\ whole \in Nat /\ left <= whole
        BY <1>0, <3>4 DEF Ram
      <4>2. whole * MsPerSec = granted
        BY <1>0, <3>4 DEF LengthGranted, Consistent, Encoded
      <4>3. left * MsPerSec <= granted /\ left * MsPerSec \in Nat
        <5> HIDE DEF left, whole
        <5> QED
          BY <4>1, <4>2, ProductMonotonic, MsPerSecAssumption
      <4>4. holder'.ram.deadline = Mono + left * MsPerSec
        BY <1>0, <3>4 DEF Anchored, Holder, Ram
      <4> DEFINE d == left * MsPerSec
      <4>5. d <= granted /\ d \in Nat /\ holder'.ram.deadline = Mono + d
        BY <4>3, <4>4
      <4> HIDE DEF d
      <4> QED
        BY <1>0, <3>1, <4>5 DEF NeverMoreThanGranted
    <3>5. CASE \E end : /\ holder.ram.active /\ holder.ram.anchored
                        /\ holder' = [ram |-> Shifted(holder.ram, end),
                                      flash |-> Encoded(Shifted(holder.ram, end))]
      <4>1. holder'.ram.deadline = holder.ram.deadline
        <5>1. \A end : Shifted(holder.ram, end).deadline = holder.ram.deadline
          BY <1>0 DEF Shifted, Ram
        <5> QED
          BY <3>5, <5>1
      <4>2. Forced
        BY <1>0, <3>5 DEF Forced, Mode, Consistent
      <4> QED
        BY <3>1, <4>1, <4>2 DEF NeverMoreThanGranted
    <3> QED
      BY <1>0, <2>1, <3>2, <3>3, <3>4, <3>5, TickCases
  <2> QED
    BY <2>2, <2>3, <2>4, <2>5
<1>4. ASSUME NEW ok \in BOOLEAN, Retry(ok)
      PROVE  IInv'
  <2>1. /\ holder.ram.dirty /\ holder' = Flush(holder, ok)
        /\ UNCHANGED <<clockVars, history>>
    BY <1>4 DEF Retry
  <2>2. ~holder.ram.active /\ WellFormed(holder.flash)
    BY <1>0, <2>1 DEF Consistent
  <2>3. /\ holder' \in Holder /\ Consistent(holder') /\ LengthKept(holder, holder')
        /\ ~holder'.ram.active
    BY <1>0, <2>1, <2>2, FlushType, FlushKeeps
  <2>4. TypeOK'
    BY <2>1, <2>3 DEF TypeOK, clockVars, history
  <2>5. LengthGranted'
    BY <1>0, <2>1, <2>3, OperationKeepsLength DEF history
  <2>6. NeverMoreThanGranted'
    BY <2>3 DEF NeverMoreThanGranted, Forced, Mode
  <2> QED
    BY <2>3, <2>4, <2>5, <2>6
<1>5. CASE Reboot
  <2>1. /\ holder' = [holder EXCEPT !.ram = Restore(holder.flash)]
        /\ reboots' = reboots + 1 /\ reboots < MaxReboots
        /\ bootAt' = real /\ trusted' = FALSE
        /\ UNCHANGED <<real, offset, grantedAt, granted, seen, misread>>
    BY <1>5 DEF Reboot
  <2>2. holder'.ram = Restore(holder.flash) /\ holder'.flash = holder.flash
    BY <1>0, <2>1 DEF Holder
  <2>3. WellFormed(holder.flash)
    BY <1>0 DEF Consistent
  <2>4. holder' \in Holder
    BY <1>0, <2>1, RestoreType DEF Holder
  <2>5. Consistent(holder')
    <3> DEFINE r == holder.flash
    <3>1. Restore(r) = [target |-> r.target, active |-> r.active, value |-> r.value,
                        anchored |-> FALSE, dirty |-> FALSE,
                        start |-> r.start, end |-> r.end, deadline |-> 0, reason |-> "None"]
      BY <2>3 DEF Restore
    <3>2. r.active => r = Encoded(Restore(r))
      <4>1. r = [active |-> r.active, target |-> r.target, value |-> r.value,
                 start |-> r.start, end |-> r.end]
        BY <1>0 DEF Record
      <4>2. r.active \in BOOLEAN
        BY <1>0 DEF Record
      <4>3. Encoded(Restore(r)) = [active |-> TRUE, target |-> r.target, value |-> r.value,
                                   start |-> r.start, end |-> r.end]
        <5> HIDE DEF r
        <5> QED
          BY <3>1 DEF Encoded
      <4> HIDE DEF r
      <4> QED
        BY <4>1, <4>2, <4>3
    <3>3. Restore(r).active = r.active /\ ~Restore(r).dirty
      BY <3>1
    <3> HIDE DEF r
    <3> QED
      BY <2>2, <2>3, <3>2, <3>3 DEF Consistent, r
  <2>6. TypeOK'
    <3>1. reboots' \in 0..MaxReboots
      BY <2>1, MaxRebootsAssumption DEF TypeOK
    <3>2. /\ real' \in Nat /\ bootAt' \in 0..real'
          /\ grantedAt' \in 0..real' /\ granted' \in Nat
      BY <2>1 DEF TypeOK
    <3>3. trusted' \in BOOLEAN /\ offset' \in Offsets /\ seen' \in Offsets /\ misread' \in BOOLEAN
      BY <2>1 DEF TypeOK
    <3> QED
      BY <2>4, <3>1, <3>2, <3>3 DEF TypeOK
  <2>7. LengthGranted'
    BY <2>1, <2>2 DEF LengthGranted
  <2>8. NeverMoreThanGranted'
    BY <2>2, <2>3 DEF NeverMoreThanGranted, Forced, Mode, Restore
  <2> QED
    BY <2>5, <2>6, <2>7, <2>8
<1>6. CASE Elapse
  <2>1. real' = real + 1 /\ UNCHANGED <<holder, bootAt, trusted, offset, history>>
    BY <1>6 DEF Elapse, leaseVars
  <2>2. TypeOK' /\ Consistent(holder')
    BY <1>0, <2>1 DEF TypeOK, history
  <2>3. LengthGranted'
    BY <2>1 DEF LengthGranted, history
  <2>4. NeverMoreThanGranted'
    <3>1. Mono' = Mono + 1 /\ holder' = holder /\ granted' = granted
      BY <1>0, <2>1 DEF Mono, history
    <3> QED
      BY <1>0, <3>1 DEF NeverMoreThanGranted, Forced, Ram
  <2> QED
    BY <2>2, <2>3, <2>4
<1>7. ASSUME NEW o \in Offsets, SetClock(o)
      PROVE  IInv'
  BY <1>0, <1>7 DEF SetClock, TypeOK, LengthGranted, NeverMoreThanGranted, Forced, Mono,
                    leaseVars, history
<1>8. CASE LoseClock
  BY <1>0, <1>8 DEF LoseClock, TypeOK, LengthGranted, NeverMoreThanGranted, Forced, Mono,
                    leaseVars, history
<1>9. CASE UNCHANGED vars
  BY <1>0, <1>9 DEF vars, TypeOK, LengthGranted, NeverMoreThanGranted, Forced, Mono,
                    leaseVars, clockVars, history
<1> QED
  BY <1>1, <1>2, <1>3, <1>4, <1>5, <1>6, <1>7, <1>8, <1>9 DEF Next

LEMMA Invariance == Spec => []IInv
<1>1. Init => IInv
  BY InitInvariant
<1>2. IInv /\ [Next]_vars => IInv'
  BY NextInvariant
<1> QED
  BY <1>1, <1>2, PTL DEF Spec
-----------------------------------------------------------------------------
(* What whole seconds do to an instant: the time gone is rounded down, the *)
(* time left up.                                                           *)
LEMMA SecondsGone ==
  ASSUME NEW t \in Nat
  PROVE  /\ t \div MsPerSec \in Nat
         /\ (t \div MsPerSec) * MsPerSec <= t
         /\ t <= (t \div MsPerSec) * MsPerSec + (MsPerSec - 1)
<1> DEFINE M == MsPerSec
           q == t \div M
           r == t % M
<1>1. M \in Nat \ {0} /\ q \in Nat
  BY MsPerSecAssumption, DivisionInNat
<1>2. t = M * q + r /\ r \in 0..(M - 1)
  BY <1>1
<1> HIDE DEF M, q, r
<1>3. M * q = q * M /\ q * M \in Nat
  BY <1>1
<1>4. q \in Nat /\ q * M <= t /\ t <= q * M + (M - 1)
  BY <1>1, <1>2, <1>3
<1> QED
  BY <1>4 DEF q, M

LEMMA SecondsLeft ==
  ASSUME NEW l \in Ram, NEW mono \in Nat, mono < l.deadline
  PROVE  /\ RemainingSec(l, mono) \in Nat
         /\ RemainingSec(l, mono) * MsPerSec <= l.deadline - mono + (MsPerSec - 1)
<1> DEFINE a == l.deadline - mono + MsPerSec - 1
<1>1. a \in Nat /\ a = l.deadline - mono + (MsPerSec - 1)
  BY MsPerSecAssumption DEF Ram
<1>2. RemainingSec(l, mono) = a \div MsPerSec
  BY DEF RemainingSec
<1> HIDE DEF a
<1> QED
  BY <1>1, <1>2, SecondsGone

LEMMA ProductOfSum ==
  ASSUME NEW a \in Int, NEW b \in Int, NEW c \in Nat
  PROVE  (a + b) * c = a * c + b * c /\ a * c \in Int /\ b * c \in Int
OBVIOUS
-----------------------------------------------------------------------------
(* When the lease in force ends is known from the grant and the restarts   *)
(* since (Limit); when the record ends, by the clock it was compared with, *)
(* is known to a restart (Left), less what anchoring may add once it has   *)
(* been read back.                                                         *)
Limit == grantedAt + granted + reboots * RestartSlack

Left == (holder.flash.end - seen) * MsPerSec

EndsInTime ==
    ~misread /\ holder.flash.active =>
        /\ Left <= Limit + Tolerance * MsPerSec + (MsPerSec - 1)
        /\ holder.ram.active /\ ~holder.ram.anchored => Left + (MsPerSec - 1) <= Limit
        /\ holder.ram.active /\ holder.ram.anchored => bootAt + holder.ram.deadline <= Limit

LEMMA LimitsAreInts ==
  ASSUME TypeOK
  PROVE  /\ Limit \in Nat /\ Left \in Int /\ RestartSlack \in Nat
         /\ Tolerance * MsPerSec \in Nat /\ MsPerSec \in Nat \ {0}
         /\ RestartSlack = Tolerance * MsPerSec + (MsPerSec - 1) + (MsPerSec - 1)
<1>1. Tolerance * MsPerSec \in Nat /\ MsPerSec \in Nat \ {0}
  BY ToleranceAssumption, MsPerSecAssumption
<1> DEFINE d == Tolerance * MsPerSec
<1>2. RestartSlack = d + 2 * (MsPerSec - 1)
  BY DEF RestartSlack
<1> HIDE DEF d
<1>3. d \in Nat
  BY <1>1 DEF d
<1>4. RestartSlack \in Nat /\ RestartSlack = d + (MsPerSec - 1) + (MsPerSec - 1)
  BY <1>1, <1>2, <1>3
<1>5. reboots * RestartSlack \in Nat
  <2>1. reboots \in Nat
    BY MaxRebootsAssumption DEF TypeOK
  <2> QED
    BY <1>4, <2>1
<1>6. Limit \in Nat
  BY <1>5 DEF Limit, TypeOK
<1>7. holder.flash.end - seen \in Int
  BY OffsetsAssumption DEF TypeOK, Holder, Record
<1>8. Left \in Int
  BY <1>1, <1>7 DEF Left
<1> QED
  BY <1>1, <1>4, <1>6, <1>8 DEF d

LEMMA StopKeepsRecord ==
  ASSUME NEW h \in Holder, NEW why \in Reasons, NEW ok \in BOOLEAN
  PROVE  /\ Flush(h, ok).flash = h.flash \/ ~Flush(h, ok).flash.active
         /\ Cancel(h, why, ok).flash = h.flash \/ ~Cancel(h, why, ok).flash.active
<1>1. \A k : Flush(k, ok).flash = k.flash \/ ~Flush(k, ok).flash.active
  BY DEF Flush, Tombstone
<1> DEFINE stopped == [h EXCEPT !.ram = [h.ram EXCEPT !.active = FALSE,
                             !.anchored = FALSE, !.dirty = TRUE, !.reason = why]]
<1>2. stopped.flash = h.flash
  BY DEF Holder
<1>3. Cancel(h, why, ok) \in {h, Flush(stopped, ok)}
  BY DEF Cancel
<1> HIDE DEF stopped
<1> QED
  BY <1>1, <1>2, <1>3

LEMMA StopKeepsEnd ==
  ASSUME EndsInTime, ~holder'.ram.active,
         holder'.flash = holder.flash \/ ~holder'.flash.active,
         UNCHANGED <<grantedAt, granted, reboots, seen, misread>>
  PROVE  EndsInTime'
BY DEF EndsInTime, Left, Limit

LEMMA GrantKeepsEnd ==
  ASSUME IInv, EndsInTime, NEW t \in Targets, NEW v \in BOOLEAN, NEW s \in Durations,
         NEW ok \in BOOLEAN, Grant(t, v, s, ok)
  PROVE  EndsInTime'
<1> DEFINE new == Granted(t, v, s, Utc, Mono)
<1>1. holder' = Start(holder, t, v, s, Utc, Mono, ok) /\ Utc # 0 /\ UNCHANGED clockVars
  BY DEF Grant
<1>2. CASE StartAllowed(Utc, s) /\ ok
  <2>1. /\ grantedAt' = real /\ granted' = s * MsPerSec /\ reboots' = 0
        /\ seen' = offset /\ misread' = FALSE /\ bootAt' = bootAt
    BY <1>1, <1>2 DEF Grant, clockVars
  <2>2. holder'.ram = new /\ holder'.flash = Encoded(new)
    BY <1>1, <1>2 DEF Start
  <2>3. holder'.ram.deadline = Mono + s * MsPerSec /\ holder'.flash.end = Utc + s
        /\ holder'.ram.anchored
    BY <2>2 DEF Granted, Encoded
  <2>4. s \in Nat /\ real \in Nat /\ bootAt \in Nat /\ offset \in Nat /\ MsPerSec \in Nat
    BY DurationsAssumption, OffsetsAssumption, MsPerSecAssumption DEF IInv, TypeOK
  <2> DEFINE q == real \div MsPerSec
             d == s * MsPerSec
             p == q * MsPerSec
  <2>5. q \in Nat /\ p <= real /\ p \in Int /\ d \in Nat
    <3>1. q \in Nat /\ p <= real
      BY <2>4, SecondsGone
    <3>2. p \in Int
      BY <2>4, <3>1, ProductOfSum
    <3>3. d \in Nat
      BY <2>4
    <3> QED
      BY <3>1, <3>2, <3>3
  <2>6. Utc = offset + q
    BY <1>1 DEF Utc
  <2>7. Left' = (Utc + s - offset) * MsPerSec
    <3>1. holder'.flash.end - seen' = Utc + s - offset
      BY <2>1, <2>3, <2>4, UtcIsDate DEF IInv
    <3>2. Left' = (holder'.flash.end - seen') * MsPerSec
      BY DEF Left
    <3> QED
      BY <3>1, <3>2
  <2>8. Utc + s - offset = q + s
    <3> HIDE DEF q
    <3> QED
      BY <2>4, <2>5, <2>6
  <2>9. (q + s) * MsPerSec = p + d
    BY <2>4, <2>5, ProductOfSum
  <2>10. Left' = p + d
    BY <2>7, <2>8, <2>9
  <2>11. RestartSlack \in Nat /\ Tolerance * MsPerSec \in Nat /\ MsPerSec - 1 \in Nat
    BY LimitsAreInts, MsPerSecAssumption DEF IInv
  <2>12. Limit' = real + d
    <3>1. 0 * RestartSlack = 0
      BY <2>11
    <3>2. Limit' = real + d + 0 * RestartSlack
      BY <2>1 DEF Limit, RestartSlack
    <3> HIDE DEF d
    <3> QED
      BY <2>4, <2>5, <3>1, <3>2
  <2>13. bootAt' + holder'.ram.deadline = real + d
    <3>1. bootAt' + holder'.ram.deadline = bootAt + (Mono + d)
      BY <2>1, <2>3
    <3> HIDE DEF d
    <3> QED
      BY <2>4, <2>5, <3>1 DEF Mono
  <2> DEFINE g == Tolerance * MsPerSec
  <2>14. g \in Nat
    BY <2>11
  <2>15. Left' <= Limit' + g + (MsPerSec - 1)
    <3> HIDE DEF p, d, g
    <3> QED
      BY <2>4, <2>5, <2>10, <2>11, <2>12, <2>14
  <2>16. bootAt' + holder'.ram.deadline <= Limit'
    <3> HIDE DEF d
    <3> QED
      BY <2>4, <2>5, <2>12, <2>13
  <2> QED
    BY <2>3, <2>15, <2>16 DEF EndsInTime
<1>3. CASE ~(StartAllowed(Utc, s) /\ ok)
  <2>1. holder' = holder
    BY <1>1, <1>3 DEF Start
  <2>2. UNCHANGED history
    BY <1>3 DEF Grant
  <2> QED
    BY <1>1, <2>1, <2>2 DEF EndsInTime, Left, Limit, clockVars, history
<1> QED
  BY <1>2, <1>3

(* A tick that anchors the lease ends it where its record does.            *)
LEMMA AnchorKeepsEnd ==
  ASSUME IInv, EndsInTime, Utc # 0, bootAt' = bootAt,
         UNCHANGED <<grantedAt, granted, reboots>>,
         seen' = offset, misread' = (misread \/ offset # seen),
         holder.ram.active, ~holder.ram.anchored, Utc < holder.ram.end,
         holder' = [holder EXCEPT !.ram = Anchored(holder.ram, Utc, Mono)]
  PROVE  EndsInTime'
<1> SUFFICES ASSUME ~misread, offset = seen PROVE EndsInTime'
  BY DEF EndsInTime
<1>1. holder \in Holder /\ Consistent(holder) /\ TypeOK
  BY DEF IInv, TypeOK
<1>2. /\ holder'.flash = holder.flash
      /\ holder'.ram.anchored
      /\ holder'.ram.deadline = Mono + (holder.ram.end - Utc) * MsPerSec
  BY <1>1 DEF Holder, Anchored, Ram
<1>3. holder.flash.end = holder.ram.end /\ holder.flash.active
  BY <1>1 DEF Consistent, Encoded
<1>4. Left + (MsPerSec - 1) <= Limit
  BY <1>3 DEF EndsInTime
<1>5. Left' = Left /\ Limit' = Limit
  BY <1>2 DEF Left, Limit, RestartSlack
<1>6. /\ real \in Nat /\ bootAt \in Nat /\ offset \in Nat /\ seen \in Nat /\ holder.ram.end \in Nat
      /\ MsPerSec \in Nat \ {0} /\ Left \in Int /\ Limit \in Nat /\ Tolerance * MsPerSec \in Nat
  BY <1>1, LimitsAreInts, OffsetsAssumption DEF TypeOK, Holder, Ram
<1> DEFINE q == real \div MsPerSec
           p == q * MsPerSec
           n == holder.ram.end - Utc
           d == n * MsPerSec
           g == Tolerance * MsPerSec
<1>7. q \in Nat /\ p \in Int /\ real <= p + (MsPerSec - 1) /\ Utc = offset + q
  <2>1. q \in Nat /\ real <= p + (MsPerSec - 1)
    BY <1>6, SecondsGone
  <2>2. p \in Int
    BY <1>6, <2>1, ProductOfSum
  <2> QED
    BY <2>1, <2>2 DEF Utc
<1>8. Left = p + d /\ n \in Int /\ d \in Int
  <2>1. n \in Int /\ q + n = holder.flash.end - seen
    <3> HIDE DEF q
    <3> QED
      BY <1>3, <1>6, <1>7
  <2>2. (q + n) * MsPerSec = p + d /\ d \in Int
    <3> HIDE DEF n
    <3> QED
      BY <1>6, <1>7, <2>1, ProductOfSum
  <2>3. Left = (q + n) * MsPerSec
    BY <2>1 DEF Left
  <2> QED
    BY <2>1, <2>2, <2>3
<1>9. bootAt' + holder'.ram.deadline = real + d
  <2>1. bootAt' + holder'.ram.deadline = bootAt + (Mono + d)
    BY <1>2
  <2> HIDE DEF d
  <2> QED
    BY <1>6, <1>8, <2>1 DEF Mono
<1>10. g \in Nat
  BY <1>6
<1>11. bootAt' + holder'.ram.deadline <= Limit' /\ Left' <= Limit' + g + (MsPerSec - 1)
  <2> HIDE DEF p, d, g
  <2> QED
    BY <1>4, <1>5, <1>6, <1>7, <1>8, <1>9, <1>10
<1> QED
  BY <1>2, <1>11 DEF EndsInTime

(* A tick that finds the lease running has its record end, by the clock of *)
(* the tick, at most a tolerance after the second in which it will end.    *)
LEMMA RunningKeepsEnd ==
  ASSUME IInv, EndsInTime, Utc # 0, bootAt' = bootAt,
         UNCHANGED <<grantedAt, granted, reboots, misread>>, seen' = offset,
         holder.ram.active, holder.ram.anchored, Mono < holder.ram.deadline,
         holder'.ram.deadline = holder.ram.deadline, holder'.ram.anchored,
         holder'.flash.end \in Nat,
         holder'.flash.end <= CorrectedEnd(holder.ram, Utc, Mono) + Tolerance
  PROVE  EndsInTime'
<1> SUFFICES ASSUME ~misread PROVE EndsInTime'
  BY DEF EndsInTime
<1>1. holder \in Holder /\ Consistent(holder) /\ TypeOK /\ holder.ram \in Ram
  BY DEF IInv, TypeOK, Holder
<1>2. holder.flash.active
  BY <1>1 DEF Consistent, Encoded
<1>3. bootAt + holder.ram.deadline <= Limit
  BY <1>2 DEF EndsInTime
<1>4. Limit' = Limit
  BY DEF Limit, RestartSlack
<1>5. /\ real \in Nat /\ bootAt \in Nat /\ bootAt <= real /\ offset \in Nat
      /\ MsPerSec \in Nat \ {0} /\ Limit \in Nat /\ Tolerance * MsPerSec \in Nat
      /\ Tolerance \in Nat /\ holder.ram.deadline \in Nat
  BY <1>1, LimitsAreInts, OffsetsAssumption, ToleranceAssumption DEF TypeOK, Ram
<1> DEFINE q == real \div MsPerSec
           p == q * MsPerSec
           n == RemainingSec(holder.ram, Mono)
           d == n * MsPerSec
           g == Tolerance * MsPerSec
           f == holder'.flash.end
<1>6. Mono \in Nat /\ Mono = real - bootAt
  BY <1>5 DEF Mono
<1>7. q \in Nat /\ p <= real /\ Utc = offset + q
  BY <1>5, SecondsGone DEF Utc
<1>8. n \in Nat /\ d <= holder.ram.deadline - Mono + (MsPerSec - 1)
  BY <1>1, <1>6, SecondsLeft
<1>9. f <= Utc + n + Tolerance
  BY DEF CorrectedEnd
<1>10. p \in Int /\ d \in Int /\ (q + n) * MsPerSec = p + d
  <2> HIDE DEF q, n
  <2> QED
    BY <1>5, <1>7, <1>8, ProductOfSum
<1>11. (q + n + Tolerance) * MsPerSec = (p + d) + g
  <2> HIDE DEF q, n
  <2>1. q + n \in Int
    BY <1>7, <1>8
  <2> QED
    BY <1>5, <1>10, <2>1, ProductOfSum
<1>12. f - offset <= q + n + Tolerance /\ f - offset \in Int /\ q + n + Tolerance \in Int
  <2> HIDE DEF q, n
  <2> QED
    BY <1>5, <1>7, <1>8, <1>9
<1>13. (f - offset) * MsPerSec <= (q + n + Tolerance) * MsPerSec
  <2> HIDE DEF q, n, f
  <2> QED
    BY <1>5, <1>12, ProductMonotonic
<1>14. Left' = (f - offset) * MsPerSec /\ Left' \in Int
  <2>1. Left' = (f - offset) * MsPerSec
    BY DEF Left
  <2>2. (f - offset) * MsPerSec \in Int
    BY <1>5, <1>12, ProductOfSum
  <2> QED
    BY <2>1, <2>2
<1>15. Left' <= (p + d) + g
  BY <1>11, <1>13, <1>14
<1>16. g \in Nat
  BY <1>5
<1>17. Left' <= Limit' + g + (MsPerSec - 1)
  <2> HIDE DEF p, d, g
  <2> QED
    BY <1>3, <1>4, <1>5, <1>6, <1>7, <1>8, <1>10, <1>14, <1>15, <1>16
<1>18. bootAt' + holder'.ram.deadline <= Limit'
  BY <1>3, <1>4
<1> QED
  BY <1>17, <1>18 DEF EndsInTime

LEMMA LoopKeepsEnd ==
  ASSUME IInv, EndsInTime, NEW okMove \in BOOLEAN, NEW okStop \in BOOLEAN,
         LoopTick(okMove, okStop)
  PROVE  EndsInTime'
<1> DEFINE end == CorrectedEnd(holder.ram, Utc, Mono)
           moved == Shifted(holder.ram, end)
<1>1. /\ holder \in Holder /\ Consistent(holder) /\ holder.ram \in Ram /\ TypeOK
      /\ Utc \in Nat /\ Mono \in Nat /\ misread \in BOOLEAN
  BY UtcIsDate DEF IInv, TypeOK, Holder
<1>2. /\ holder' = Tick(holder, Utc, Mono, okMove, okStop)
      /\ UNCHANGED <<bootAt, grantedAt, granted, reboots>>
      /\ holder'.ram.active /\ Utc # 0 =>
            seen' = offset /\ misread' = (misread \/ (~holder.ram.anchored /\ offset # seen))
      /\ ~(holder'.ram.active /\ Utc # 0) => UNCHANGED <<seen, misread>>
  BY DEF LoopTick, clockVars
<1>3. ASSUME holder' = holder,
             holder.ram.active /\ Utc # 0 =>
                /\ holder.ram.anchored /\ Mono < holder.ram.deadline
                /\ ~Drifted(holder.ram, Utc, Mono)
      PROVE  EndsInTime'
  <2>1. CASE holder.ram.active /\ Utc # 0
    <3>1. holder.ram.anchored /\ Mono < holder.ram.deadline /\ ~Drifted(holder.ram, Utc, Mono)
      BY <1>3, <2>1
    <3>2. /\ holder'.flash.end \in Nat /\ holder'.flash.end = holder.ram.end
          /\ holder'.ram.deadline = holder.ram.deadline /\ holder'.ram.anchored
      BY <1>1, <1>3, <2>1, <3>1 DEF Consistent, Encoded, Ram
    <3>3. end \in Nat
      BY <1>1, <3>1, CorrectedEndInt
    <3>4. holder'.flash.end <= end + Tolerance
      <4>1. ~(holder.ram.end - end > Tolerance)
        BY <3>1 DEF Drifted
      <4> HIDE DEF end
      <4> QED
        BY <3>2, <3>3, <4>1, ToleranceAssumption
    <3>5. seen' = offset /\ misread' = misread
      BY <1>1, <1>2, <1>3, <2>1, <3>1
    <3> QED
      BY <1>2, <2>1, <3>1, <3>2, <3>4, <3>5, RunningKeepsEnd
  <2>2. CASE ~(holder.ram.active /\ Utc # 0)
    BY <1>2, <1>3, <2>2 DEF EndsInTime, Left, Limit, RestartSlack
  <2> QED
    BY <2>1, <2>2
<1>4. ASSUME NEW why \in Reasons, holder' = Cancel(holder, why, okStop)
      PROVE  EndsInTime'
  <2>1. ~holder'.ram.active
    BY <1>1, <1>4, CancelKeeps
  <2>2. holder'.flash = holder.flash \/ ~holder'.flash.active
    BY <1>1, <1>4, StopKeepsRecord
  <2> QED
    BY <1>2, <2>1, <2>2, StopKeepsEnd
<1>5. CASE /\ holder.ram.active /\ ~holder.ram.anchored
           /\ Utc # 0 /\ holder.ram.start <= Utc /\ Utc < holder.ram.end
           /\ holder' = [holder EXCEPT !.ram = Anchored(holder.ram, Utc, Mono)]
  <2>1. holder'.ram.active
    BY <1>1, <1>5 DEF Holder, Anchored, Ram
  <2>2. seen' = offset /\ misread' = (misread \/ offset # seen)
    BY <1>2, <1>5, <2>1
  <2> QED
    BY <1>2, <1>5, <2>2, AnchorKeepsEnd
<1>6. CASE /\ holder.ram.active /\ holder.ram.anchored /\ Mono < holder.ram.deadline
           /\ Utc # 0
           /\ end >= holder.ram.end - holder.ram.start
           /\ holder' = [ram |-> moved, flash |-> Encoded(moved)]
  <2>1. end \in Nat
    BY <1>1, <1>6, CorrectedEndInt
  <2>2. /\ moved.active /\ moved.anchored /\ moved.end = end
        /\ moved.deadline = holder.ram.deadline
    <3> HIDE DEF end
    <3> QED
      BY <1>1, <1>6 DEF Shifted, Ram
  <2>3. holder'.ram = moved /\ holder'.flash.end = moved.end
    BY <1>6 DEF Encoded
  <2>4. seen' = offset /\ misread' = misread
    BY <1>1, <1>2, <1>6, <2>2, <2>3
  <2>5. holder'.flash.end \in Nat /\ holder'.flash.end <= end + Tolerance
    <3> HIDE DEF end
    <3> QED
      BY <2>1, <2>2, <2>3, ToleranceAssumption
  <2> QED
    BY <1>2, <1>6, <2>2, <2>3, <2>4, <2>5, RunningKeepsEnd
<1> QED
  BY <1>1, <1>2, <1>3, <1>4, <1>5, <1>6, TickCases

(* The lease comes back with the record; a restart more is allowed for it. *)
LEMMA RebootKeepsEnd ==
  ASSUME IInv, EndsInTime, Reboot
  PROVE  EndsInTime'
<1>1. /\ holder \in Holder /\ Consistent(holder) /\ TypeOK /\ holder.flash \in Record
  BY DEF IInv, TypeOK, Holder
<1>2. /\ holder' = [holder EXCEPT !.ram = Restore(holder.flash)] /\ reboots' = reboots + 1
      /\ UNCHANGED <<grantedAt, granted, seen, misread>>
  BY DEF Reboot
<1>3. holder'.ram = Restore(holder.flash) /\ holder'.flash = holder.flash
  BY <1>1, <1>2 DEF Holder
<1>4. ~holder'.ram.anchored
  BY <1>3 DEF Restore, Fresh
<1>5. Left' = Left
  BY <1>2, <1>3 DEF Left
<1>6. Limit' = Limit + RestartSlack
  <2>1. reboots \in Nat /\ RestartSlack \in Nat
    BY <1>1, LimitsAreInts, MaxRebootsAssumption DEF TypeOK
  <2>2. (reboots + 1) * RestartSlack = reboots * RestartSlack + 1 * RestartSlack
        /\ reboots * RestartSlack \in Int
    BY <2>1, ProductOfSum
  <2>3. 1 * RestartSlack = RestartSlack
    BY <2>1
  <2>4. Limit' = grantedAt + granted + (reboots + 1) * RestartSlack
    BY <1>2 DEF Limit, RestartSlack
  <2>5. grantedAt \in Nat /\ granted \in Nat
    BY <1>1 DEF TypeOK
  <2> DEFINE b == reboots * RestartSlack
  <2>6. b \in Int /\ Limit' = grantedAt + granted + (b + RestartSlack)
        /\ Limit = grantedAt + granted + b
    BY <2>2, <2>3, <2>4 DEF Limit
  <2> HIDE DEF b
  <2> QED
    BY <2>1, <2>5, <2>6
<1> DEFINE g == Tolerance * MsPerSec
<1>7. /\ Limit \in Nat /\ Left \in Int /\ g \in Nat /\ MsPerSec - 1 \in Nat
      /\ RestartSlack = g + (MsPerSec - 1) + (MsPerSec - 1)
  BY <1>1, LimitsAreInts
<1>8. ~misread /\ holder.flash.active => Left <= Limit + g + (MsPerSec - 1)
  BY DEF EndsInTime
<1> HIDE DEF g
<1>9. ~misread /\ holder.flash.active =>
        Left' + (MsPerSec - 1) <= Limit' /\ Left' <= Limit' + g + (MsPerSec - 1)
  BY <1>5, <1>6, <1>7, <1>8
<1> QED
  BY <1>2, <1>3, <1>4, <1>9 DEF EndsInTime, g

LEMMA EndsInTimeInit == Init => EndsInTime
BY DEF Init, Fresh, Tombstone, EndsInTime

LEMMA EndsInTimeNext == IInv /\ EndsInTime /\ [Next]_vars => EndsInTime'
<1> SUFFICES ASSUME IInv, EndsInTime, [Next]_vars PROVE EndsInTime'
  OBVIOUS
<1>0. holder \in Holder /\ Consistent(holder)
  BY DEF IInv, TypeOK
<1>1. ASSUME NEW why \in StopReasons, NEW ok \in BOOLEAN, Stop(why, ok)
      PROVE  EndsInTime'
  <2>1. /\ holder' = Cancel(holder, why, ok) /\ why \in Reasons
        /\ UNCHANGED <<grantedAt, granted, reboots, seen, misread>>
    BY <1>1, StopReasonsAssumption DEF Stop, history
  <2>2. ~holder'.ram.active
    BY <1>0, <2>1, CancelKeeps
  <2>3. holder'.flash = holder.flash \/ ~holder'.flash.active
    BY <1>0, <2>1, StopKeepsRecord
  <2> QED
    BY <2>1, <2>2, <2>3, StopKeepsEnd
<1>2. ASSUME NEW ok \in BOOLEAN, Retry(ok)
      PROVE  EndsInTime'
  <2>1. /\ holder' = Flush(holder, ok) /\ holder.ram.dirty
        /\ UNCHANGED <<grantedAt, granted, reboots, seen, misread>>
    BY <1>2 DEF Retry, history
  <2>2. ~holder'.ram.active
    BY <1>0, <2>1, FlushKeeps DEF Consistent
  <2>3. holder'.flash = holder.flash \/ ~holder'.flash.active
    BY <1>0, <2>1, StopKeepsRecord DEF Reasons
  <2> QED
    BY <2>1, <2>2, <2>3, StopKeepsEnd
<1>3. ASSUME UNCHANGED <<holder, bootAt, grantedAt, granted, reboots, seen, misread>>
      PROVE  EndsInTime'
  BY <1>3 DEF EndsInTime, Left, Limit, RestartSlack
<1> QED
  BY <1>1, <1>2, <1>3, GrantKeepsEnd, LoopKeepsEnd, RebootKeepsEnd
     DEF Next, Elapse, SetClock, LoseClock, vars, leaseVars, clockVars, history
-----------------------------------------------------------------------------
(* The lease, its record and the clocks keep their types.                  *)
THEOREM TypeCorrect == Spec => []TypeOK
<1>1. IInv => TypeOK
  BY DEF IInv
<1> QED
  BY <1>1, Invariance, PTL

(* A lease in force is on flash as it acts; a stopped one is off flash or  *)
(* still shows its pending tombstone.                                      *)
THEOREM DurabilityCorrect == Spec => []RamMatchesFlash
<1>1. IInv => RamMatchesFlash
  BY DEF IInv, Consistent, RamMatchesFlash
<1> QED
  BY <1>1, Invariance, PTL

(* Every record that restore() can meet after a restart is one it accepts. *)
THEOREM RestorableCorrect == Spec => []FlashRestorable
<1>1. IInv => FlashRestorable
  BY DEF IInv, Consistent, FlashRestorable
<1> QED
  BY <1>1, Invariance, PTL

(* No clock, restart or failed write leaves a forcing more time to run     *)
(* than it was granted.                                                    *)
THEOREM GrantIsCeiling == Spec => []NeverMoreThanGranted
<1>1. IInv => NeverMoreThanGranted
  BY DEF IInv
<1> QED
  BY <1>1, Invariance, PTL
(* A lease ends when it was granted to end, but for the slack of each      *)
(* restart, whatever clocks, flash and restarts do in between: for every   *)
(* length of lease, tolerance, resolution and number of restarts.          *)
THEOREM GrantIsNotOutlived == Spec => []NeverOutlivesGrant
<1>1. IInv /\ EndsInTime => NeverOutlivesGrant
  <2> SUFFICES ASSUME IInv, EndsInTime, Forced, ~misread
               PROVE  bootAt + holder.ram.deadline <= Limit
    BY DEF NeverOutlivesGrant, Limit
  <2>1. holder.ram.active /\ holder.ram.anchored
    BY DEF Forced, Mode
  <2>2. holder.flash.active
    BY <2>1 DEF IInv, Consistent, Encoded
  <2> QED
    BY <2>1, <2>2 DEF EndsInTime
<1>2. Spec => [](IInv /\ EndsInTime)
  <2>1. Init => EndsInTime
    BY EndsInTimeInit
  <2>2. IInv /\ EndsInTime /\ [Next]_vars => EndsInTime'
    BY EndsInTimeNext
  <2> QED
    BY <2>1, <2>2, Invariance, PTL DEF Spec
<1> QED
  BY <1>1, <1>2, PTL
-----------------------------------------------------------------------------
LEMMA StopForces ==
  ASSUME NEW h \in Holder, NEW why \in Reasons, NEW ok \in BOOLEAN, Consistent(h)
  PROVE  LET g == Cancel(h, why, ok)
         IN  \/ g = h
             \/ Owed(g.ram) = None /\ Owed(g.flash) \in {Owed(h.flash), None}
<1> DEFINE stopped == [h EXCEPT !.ram = [h.ram EXCEPT !.active = FALSE,
                             !.anchored = FALSE, !.dirty = TRUE, !.reason = why]]
           g == Cancel(h, why, ok)
<1>1. CASE ~h.ram.active /\ ~h.ram.dirty
  BY <1>1 DEF Cancel
<1>2. CASE h.ram.active \/ h.ram.dirty
  <2>1. ~g.ram.active
    BY CancelKeeps
  <2>2. g = Flush(stopped, ok) /\ stopped.flash = h.flash
    BY <1>2 DEF Cancel, Holder, Ram
  <2>3. g.flash = h.flash \/ \E t : g.flash = Tombstone(t)
    BY <2>2 DEF Flush
  <2>4. \A t : Owed(Tombstone(t)) = None
    BY DEF Owed, Tombstone
  <2>5. Owed(g.ram) = None
    BY <2>1 DEF Owed
  <2> HIDE DEF g
  <2>6. Owed(g.ram) = None /\ Owed(g.flash) \in {Owed(h.flash), None}
    BY <2>3, <2>4, <2>5
  <2> QED
    BY <2>6 DEF g
<1> QED
  BY <1>1, <1>2

LEMMA TickForces ==
  ASSUME NEW h \in Holder, NEW utc \in Nat, NEW mono \in Nat,
         NEW okMove \in BOOLEAN, NEW okStop \in BOOLEAN, Consistent(h)
  PROVE  LET g == Tick(h, utc, mono, okMove, okStop)
         IN  \/ Owed(g.ram) = Owed(h.ram) /\ Owed(g.flash) = Owed(h.flash)
             \/ Owed(g.ram) = None /\ Owed(g.flash) \in {Owed(h.flash), None}
<1> DEFINE g == Tick(h, utc, mono, okMove, okStop)
           end == CorrectedEnd(h.ram, utc, mono)
<1>1. CASE g = h
  BY <1>1
<1>2. ASSUME NEW why \in Reasons, g = Cancel(h, why, okStop)
      PROVE  \/ g = h
             \/ Owed(g.ram) = None /\ Owed(g.flash) \in {Owed(h.flash), None}
  BY <1>2, StopForces
<1>3. CASE g = [h EXCEPT !.ram = Anchored(h.ram, utc, mono)]
  <2>1. Owed(Anchored(h.ram, utc, mono)) = Owed(h.ram)
    BY DEF Owed, Anchored, Holder, Ram
  <2>2. g.ram = Anchored(h.ram, utc, mono) /\ g.flash = h.flash
    BY <1>3 DEF Holder
  <2> QED
    BY <2>1, <2>2
<1>4. CASE h.ram.active /\ g = [ram |-> Shifted(h.ram, end), flash |-> Encoded(Shifted(h.ram, end))]
  <2>1. h.ram \in Ram /\ h.flash = Encoded(h.ram)
    BY <1>4 DEF Holder, Consistent
  <2> HIDE DEF end
  <2>2. /\ Shifted(h.ram, end).active = h.ram.active
        /\ Shifted(h.ram, end).target = h.ram.target
        /\ Shifted(h.ram, end).value = h.ram.value
    BY <2>1 DEF Shifted, Ram
  <2>3. Owed(Shifted(h.ram, end)) = Owed(h.ram)
    BY <2>2 DEF Owed
  <2>4. \A l : l.active => Owed(Encoded(l)) = <<l.target, l.value>>
    BY DEF Owed, Encoded
  <2>5. Owed(Encoded(Shifted(h.ram, end))) = Owed(h.flash)
    BY <1>4, <2>1, <2>2, <2>4
  <2> QED
    BY <1>4, <2>3, <2>5 DEF end
<1> QED
  BY <1>1, <1>2, <1>3, <1>4, TickCases

LEMMA StepImplements == IInv /\ [Next]_vars => [Store!Next]_Store!vars
<1> SUFFICES ASSUME IInv, [Next]_vars PROVE [Store!Next]_Store!vars
  OBVIOUS
<1> DEFINE live == Owed(holder.ram)
           kept == Owed(holder.flash)
<1>0. /\ holder \in Holder /\ Consistent(holder)
      /\ Utc \in Nat /\ Mono \in Nat
      /\ holder.ram \in Ram /\ holder.flash \in Record
  BY UtcIsDate DEF IInv, TypeOK, Holder
<1>a. ASSUME live' = live, kept' = kept PROVE [Store!Next]_Store!vars
  BY <1>a DEF Store!vars
<1>b. ASSUME live' = None, kept' \in {kept, None} PROVE [Store!Next]_Store!vars
  BY <1>b DEF Store!Next, Store!Stop
<1>1. ASSUME NEW t \in Targets, NEW v \in BOOLEAN, NEW s \in Durations, NEW ok \in BOOLEAN,
             Grant(t, v, s, ok)
      PROVE  [Store!Next]_Store!vars
  <2>1. holder' = Start(holder, t, v, s, Utc, Mono, ok)
    BY <1>1 DEF Grant
  <2>2. CASE holder' = holder
    BY <1>a, <2>2
  <2>3. CASE LET l == Granted(t, v, s, Utc, Mono)
             IN  holder' = [ram |-> l, flash |-> Encoded(l)]
    <3>1. live' = <<t, v>> /\ kept' = <<t, v>>
      BY <2>3 DEF Owed, Granted, Encoded
    <3>2. <<t, v>> \in Targets \X BOOLEAN
      OBVIOUS
    <3> QED
      BY <3>1, <3>2 DEF Store!Next, Store!Grant
  <2> QED
    BY <2>1, <2>2, <2>3 DEF Start
<1>2. ASSUME NEW why \in StopReasons, NEW ok \in BOOLEAN, Stop(why, ok)
      PROVE  [Store!Next]_Store!vars
  <2>1. why \in Reasons /\ holder' = Cancel(holder, why, ok)
    BY <1>2, StopReasonsAssumption DEF Stop
  <2>2. holder' = holder \/ (live' = None /\ kept' \in {kept, None})
    BY <1>0, <2>1, StopForces
  <2> QED
    BY <1>a, <1>b, <2>2
<1>3. ASSUME NEW okMove \in BOOLEAN, NEW okStop \in BOOLEAN, LoopTick(okMove, okStop)
      PROVE  [Store!Next]_Store!vars
  <2>1. holder' = Tick(holder, Utc, Mono, okMove, okStop)
    BY <1>3 DEF LoopTick
  <2>2. \/ live' = live /\ kept' = kept
        \/ live' = None /\ kept' \in {kept, None}
    BY <1>0, <2>1, TickForces
  <2> QED
    BY <1>a, <1>b, <2>2
<1>4. ASSUME NEW ok \in BOOLEAN, Retry(ok)
      PROVE  [Store!Next]_Store!vars
  <2>1. holder.ram.dirty /\ holder' = Flush(holder, ok)
    BY <1>4 DEF Retry
  <2>2. ~holder.ram.active
    BY <1>0, <2>1 DEF Consistent
  <2>3. CASE holder' = holder
    BY <1>a, <2>3
  <2>4. CASE holder' = [ram |-> [holder.ram EXCEPT !.dirty = FALSE],
                        flash |-> Tombstone(holder.ram.target)]
    <3>1. holder'.ram = [holder.ram EXCEPT !.dirty = FALSE]
             /\ holder'.flash = Tombstone(holder.ram.target)
      BY <2>4
    <3>2. ~holder'.ram.active /\ ~holder'.flash.active
      BY <1>0, <2>2, <3>1 DEF Ram, Tombstone
    <3>3. live' = None /\ kept' = None
      BY <3>2 DEF Owed
    <3> QED
      BY <1>b, <3>3
  <2> QED
    BY <2>1, <2>3, <2>4 DEF Flush
<1>5. CASE Reboot
  <2>1. holder' = [holder EXCEPT !.ram = Restore(holder.flash)]
    BY <1>5 DEF Reboot
  <2>2. holder'.ram = Restore(holder.flash) /\ holder'.flash = holder.flash
    BY <1>0, <2>1 DEF Holder
  <2>3. Owed(Restore(holder.flash)) = Owed(holder.flash)
    BY <1>0 DEF Owed, Restore, Consistent
  <2>4. live' = kept /\ kept' = kept
    BY <2>2, <2>3
  <2> QED
    BY <2>4 DEF Store!Next, Store!Restart
<1>6. CASE UNCHANGED holder
  BY <1>a, <1>6
<1> QED
  BY <1>1, <1>2, <1>3, <1>4, <1>5, <1>6
     DEF Next, Elapse, SetClock, LoseClock, leaseVars, vars

(* The lease and its record implement DurableLease: nothing is in force    *)
(* that a restart would lose, and a restart only brings back what is kept. *)
THEOREM LeaseRefinesStore == Spec => ImplementsDurableLease
<1>1. Init => Store!Init
  BY DEF Init, Store!Init, Owed, Fresh, Tombstone
<1>2. IInv /\ [Next]_vars => [Store!Next]_Store!vars
  BY StepImplements
<1> QED
  BY <1>1, <1>2, Invariance, PTL DEF Spec, Store!Spec, ImplementsDurableLease

LEMMA TickKeepsDeadline ==
  ASSUME NEW h \in Holder, NEW utc \in Nat, NEW mono \in Nat,
         NEW okMove \in BOOLEAN, NEW okStop \in BOOLEAN,
         Consistent(h), h.ram.active, h.ram.anchored
  PROVE  LET g == Tick(h, utc, mono, okMove, okStop)
         IN  g.ram.active => g.ram.deadline = h.ram.deadline
<1> DEFINE g == Tick(h, utc, mono, okMove, okStop)
           end == CorrectedEnd(h.ram, utc, mono)
<1>1. CASE g = h
  BY <1>1
<1>2. ASSUME NEW why \in Reasons, g = Cancel(h, why, okStop)
      PROVE  ~g.ram.active
  BY <1>2, CancelKeeps
<1>3. CASE g = [ram |-> Shifted(h.ram, end), flash |-> Encoded(Shifted(h.ram, end))]
  <2>1. \A e : Shifted(h.ram, e).deadline = h.ram.deadline
    BY DEF Shifted, Holder, Ram
  <2> QED
    BY <1>3, <2>1
<1> QED
  BY <1>1, <1>2, <1>3, TickCases

(* Nothing but a grant moves the end of a lease in force.                  *)
THEOREM DeadlineStable == Spec => DeadlineFixed
<1> DEFINE A == Forced /\ Forced' /\ ~Granting
                  => holder'.ram.deadline = holder.ram.deadline
<1>1. IInv /\ [Next]_vars => [A]_vars
  <2> SUFFICES ASSUME IInv, [Next]_vars, Forced, Forced', ~Granting
               PROVE  holder'.ram.deadline = holder.ram.deadline
    OBVIOUS
  <2>0. /\ holder \in Holder /\ Consistent(holder)
        /\ Utc \in Nat /\ Mono \in Nat
        /\ holder.ram.active /\ holder.ram.anchored /\ ~holder.ram.dirty
        /\ holder'.ram.active /\ holder'.ram.anchored
    BY UtcIsDate DEF IInv, TypeOK, Forced, Mode
  <2>1. ASSUME NEW t \in Targets, NEW v \in BOOLEAN, NEW s \in Durations, NEW ok \in BOOLEAN,
               Grant(t, v, s, ok)
        PROVE  holder'.ram.deadline = holder.ram.deadline
    <3>1. ok = FALSE
      BY <2>1 DEF Granting
    <3> QED
      BY <2>1, <3>1 DEF Grant, Start
  <2>2. ASSUME NEW why \in StopReasons, NEW ok \in BOOLEAN, Stop(why, ok)
        PROVE  FALSE
    <3>1. why \in Reasons
      BY StopReasonsAssumption
    <3> QED
      BY <2>0, <2>2, <3>1, CancelKeeps DEF Stop
  <2>3. ASSUME NEW okMove \in BOOLEAN, NEW okStop \in BOOLEAN, LoopTick(okMove, okStop)
        PROVE  holder'.ram.deadline = holder.ram.deadline
    BY <2>0, <2>3, TickKeepsDeadline DEF LoopTick
  <2>4. ASSUME NEW ok \in BOOLEAN, Retry(ok)
        PROVE  FALSE
    BY <2>0, <2>4 DEF Retry
  <2>5. CASE Reboot
    <3>1. holder'.ram = Restore(holder.flash)
      BY <2>0, <2>5 DEF Reboot, Holder
    <3> QED
      BY <2>0, <3>1 DEF Restore, Fresh
  <2>6. CASE UNCHANGED holder
    BY <2>6
  <2> QED
    BY <2>1, <2>2, <2>3, <2>4, <2>5, <2>6
       DEF Next, Elapse, SetClock, LoseClock, leaseVars, vars
<1> QED
  BY <1>1, Invariance, PTL DEF Spec, DeadlineFixed

(* A lease in force is on flash as it acts, in a record restore() accepts. *)
THEOREM LeaseCorrect == Spec => []LeaseKept
BY DurabilityCorrect, RestorableCorrect, GrantIsCeiling, PTL DEF LeaseKept
=============================================================================
