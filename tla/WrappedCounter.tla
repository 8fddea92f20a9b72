--------------------------- MODULE WrappedCounter ---------------------------
(* millis(), an unsigned counter that wraps, and the sign of the           *)
(* difference of two of its values.                                        *)
EXTENDS Integers

CONSTANT Range \* values of the counter: 2^32

ASSUME RangeAssumption == Range \in Nat /\ Range % 2 = 0 /\ Range > 0

Counter == 0..(Range - 1)
Wrapped(x) == x % Range

(* int32_t(a - b) >= 0.                                                    *)
NotBefore(a, b) == Wrapped(a - b) < Range \div 2
=============================================================================
