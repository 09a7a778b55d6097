---------------------------- MODULE TimerProofs ----------------------------
(* Proofs about Timer.                                                     *)
EXTENDS Timer, TLAPS

\* Quotient and remainder are unique.
LEMMA DivUnique ==
    ASSUME NEW b \in Nat \ {0}, NEW q \in Int, NEW r \in 0 .. b - 1
    PROVE  (q * b + r) \div b = q /\ (q * b + r) % b = r
<1> DEFINE a == q * b + r
           d == a \div b
           m == a % b
<1>1. d \in Int /\ m \in 0 .. b - 1 /\ a = b * d + m
  BY SMT
<1>2. (d - q) * b = r - m
  BY <1>1
<1>3. d = q
  BY <1>1, <1>2, SMT
<1> QED BY <1>1, <1>3, SMT

LEMMA NsPerSecPos == NsPerSec \in Nat \ {0}
BY UnitsAssumption, SMT DEF NsPerSec

\* Division by a positive number: the quotient is the largest that fits.
LEMMA DivBounds ==
    ASSUME NEW a \in Int, NEW b \in Nat \ {0}
    PROVE  /\ a \div b \in Int /\ a % b \in 0 .. b - 1
           /\ a = (a \div b) * b + (a % b)
BY SMT

LEMMA Distributes ==
    ASSUME NEW a \in Int, NEW b \in Int, NEW c \in Int, NEW k \in Int
    PROVE  (a + b + c) * k = a * k + b * k + c * k
BY SMT

LEMMA ClockIsTimer ==
    ASSUME NEW n \in Nat
    PROVE  Clock(n) \in Timers /\ Ns(Clock(n)) = n
BY NsPerSecPos, DivBounds DEF Clock, Timers, Ns

\* tm_set_ms makes a proper timespec, exactly ms milliseconds from now.
THEOREM SetMsExact ==
    ASSUME NEW curr \in Timers, NEW ms \in Nat
    PROVE  /\ SetMs(curr, ms) \in Timers
           /\ Ns(SetMs(curr, ms)) = Ns(curr) + ms * NsPerMs
<1> DEFINE s == ms \div MsPerSec
           r == ms % MsPerSec
           n == curr.nsec + r * NsPerMs
<1>1. s \in Int /\ r \in Nat /\ ms = s * MsPerSec + r
  BY UnitsAssumption, DivBounds
<1> HIDE DEF s, r
<1>2. n \in Nat /\ curr.sec \in Int /\ curr.nsec \in Int
  BY <1>1, UnitsAssumption, NsPerSecPos DEF Timers
<1> HIDE DEF n
<1>3. /\ n \div NsPerSec \in Int /\ n % NsPerSec \in 0 .. NsPerSec - 1
      /\ n = (n \div NsPerSec) * NsPerSec + (n % NsPerSec)
  BY <1>2, NsPerSecPos, DivBounds
<1> DEFINE q == n \div NsPerSec
           m == n % NsPerSec
<1>4. SetMs(curr, ms) = [sec |-> curr.sec + s + q, nsec |-> m]
  BY DEF SetMs, n, s, r
<1> HIDE DEF q, m
<1>5. SetMs(curr, ms) \in Timers
  BY <1>1, <1>2, <1>3, <1>4 DEF Timers, q, m
<1>6. ms * NsPerMs = s * NsPerSec + r * NsPerMs
  <2>1. (s * MsPerSec) * NsPerMs = s * NsPerSec
    BY <1>1, UnitsAssumption DEF NsPerSec
  <2>2. (s * MsPerSec + r) * NsPerMs = (s * MsPerSec) * NsPerMs + r * NsPerMs
    BY <1>1, UnitsAssumption
  <2> QED BY <1>1, <2>1, <2>2
<1>7. (curr.sec + s + q) * NsPerSec
          = curr.sec * NsPerSec + s * NsPerSec + q * NsPerSec
  <2>1. NsPerSec \in Int /\ q \in Int
    BY <1>3, NsPerSecPos DEF q
  <2> HIDE DEF q
  <2> QED BY <1>1, <1>2, <2>1, Distributes
<1>8. Ns(SetMs(curr, ms)) = (curr.sec + s + q) * NsPerSec + m
  BY <1>4 DEF Ns
<1>9. Ns(curr) = curr.sec * NsPerSec + curr.nsec
  BY DEF Ns
<1>10. q * NsPerSec + m = curr.nsec + r * NsPerMs
  BY <1>2, <1>3 DEF n, q, m
<1>11. /\ curr.sec * NsPerSec \in Int /\ s * NsPerSec \in Int
       /\ q * NsPerSec \in Int /\ r * NsPerMs \in Int /\ m \in Int
  BY <1>1, <1>2, <1>3, UnitsAssumption, NsPerSecPos DEF q, m
<1> QED BY <1>2, <1>5, <1>6, <1>7, <1>8, <1>9, <1>10, <1>11

\* A whole number of milliseconds can be taken out of the quotient.
LEMMA DivShift ==
    ASSUME NEW n \in Int, NEW k \in Int
    PROVE  (k * NsPerMs + n) \div NsPerMs = k + n \div NsPerMs
<1> DEFINE d == n \div NsPerMs
           m == n % NsPerMs
<1>1. d \in Int /\ m \in 0 .. NsPerMs - 1 /\ n = d * NsPerMs + m
  BY UnitsAssumption, DivBounds
<1>2. k * NsPerMs + n = (k + d) * NsPerMs + m
  BY <1>1, UnitsAssumption
<1> HIDE DEF d, m
<1>3. ((k + d) * NsPerMs + m) \div NsPerMs = k + d
  BY <1>1, UnitsAssumption, DivUnique
<1> QED BY <1>2, <1>3 DEF d

\* tm_intv_ms is the interval in nanoseconds, rounded down to milliseconds,
\* as an int: the borrow between seconds and nanoseconds is right.
THEOREM IntvIsFloor ==
    ASSUME NEW start \in Timers, NEW stop \in Timers
    PROVE  IntvMs(start, stop) = ToInt((Ns(stop) - Ns(start)) \div NsPerMs)
<1> DEFINE ds == stop.sec - start.sec
           ns == stop.nsec - start.nsec
<1>1. ds \in Int /\ ns \in Int
  BY NsPerSecPos DEF Timers
<1>2. Ns(stop) - Ns(start) = ds * NsPerSec + ns
  BY NsPerSecPos, SMT DEF Ns, Timers
<1>3. ASSUME NEW k \in Int
      PROVE  k * NsPerSec = (k * MsPerSec) * NsPerMs
  BY UnitsAssumption DEF NsPerSec
<1>4. CASE ns >= 0
  <2>1. (ds * NsPerSec + ns) \div NsPerMs = ds * MsPerSec + ns \div NsPerMs
    <3>1. ds * NsPerSec = (ds * MsPerSec) * NsPerMs
      BY <1>1, <1>3
    <3>2. ds * MsPerSec \in Int
      BY <1>1, UnitsAssumption
    <3> HIDE DEF ds, ns
    <3> QED BY <1>1, <3>1, <3>2, DivShift
  <2> QED BY <1>1, <1>2, <1>4, <2>1 DEF IntvMs
<1>5. CASE ns < 0
  <2>1. ds * NsPerSec + ns = (ds - 1) * NsPerSec + (ns + NsPerSec)
    BY <1>1, NsPerSecPos
  <2>2. ((ds - 1) * NsPerSec + (ns + NsPerSec)) \div NsPerMs
            = (ds - 1) * MsPerSec + (ns + NsPerSec) \div NsPerMs
    <3>1. (ds - 1) * NsPerSec = ((ds - 1) * MsPerSec) * NsPerMs
      BY <1>1, <1>3
    <3>2. (ds - 1) * MsPerSec \in Int /\ ns + NsPerSec \in Int
      BY <1>1, UnitsAssumption, NsPerSecPos
    <3> QED BY <3>1, <3>2, DivShift
  <2> QED BY <1>1, <1>2, <1>5, <2>1, <2>2 DEF IntvMs
<1> QED BY <1>1, <1>4, <1>5

\* A long that an int can hold is not changed.
LEMMA ToIntSmall ==
    ASSUME NEW n \in Int, -(IntRange \div 2) <= n, n < IntRange - IntRange \div 2
    PROVE  ToInt(n) = n
<1> DEFINE h == IntRange \div 2
<1>1. h \in Int /\ IntRange \in Nat \ {0}
  BY UnitsAssumption
<1>2. n + h \in 0 .. IntRange - 1
  BY <1>1
<1>3. (0 * IntRange + (n + h)) % IntRange = n + h
  BY <1>1, <1>2, DivUnique
<1> QED BY <1>1, <1>2, <1>3 DEF ToInt

\* A timer of less than a day is reported as expired only in its last
\* millisecond or later; and from then on, as long as it is looked at within
\* half the range of an int.
THEOREM TimeoutExact ==
    ASSUME NEW from \in Nat, NEW at \in Nat, from <= at,
           NEW ms \in Nat, ms < MaxInterval
    PROVE  LET tmr == SetMs(Clock(from), ms)
           IN  /\ IsTimeout(Clock(at), tmr) => at - from > (ms - 1) * NsPerMs
               /\ (/\ at - from > (ms - 1) * NsPerMs
                   /\ at - from <= (IntRange \div 2) * NsPerMs)
                      => IsTimeout(Clock(at), tmr)
<1> DEFINE tmr == SetMs(Clock(from), ms)
           left == ms * NsPerMs - (at - from)
           d == left \div NsPerMs
           m == left % NsPerMs
<1>1. IntvMs(Clock(at), tmr) = ToInt(d)
  <2>1. /\ Clock(from) \in Timers /\ Ns(Clock(from)) = from
        /\ Clock(at) \in Timers /\ Ns(Clock(at)) = at
    BY ClockIsTimer
  <2>2. tmr \in Timers /\ Ns(tmr) = from + ms * NsPerMs
    BY <2>1, SetMsExact
  <2>3. ms * NsPerMs \in Int
    BY UnitsAssumption
  <2>4. Ns(tmr) - Ns(Clock(at)) = left
    BY <2>1, <2>2, <2>3
  <2> QED BY <2>1, <2>2, <2>4, IntvIsFloor
<1>2. left \in Int
  BY UnitsAssumption
<1>3. d \in Int /\ m \in 0 .. NsPerMs - 1 /\ left = d * NsPerMs + m
  BY <1>2, UnitsAssumption, DivBounds
<1> HIDE DEF d, m
<1>4. IntRange \div 2 \in Nat /\ 2 * (IntRange \div 2) <= IntRange
         /\ MaxInterval <= IntRange \div 2
  BY UnitsAssumption
<1>5. d <= ms
  <2>1. left <= ms * NsPerMs
    BY UnitsAssumption
  <2>2. d * NsPerMs <= ms * NsPerMs
    BY <1>3, <2>1, UnitsAssumption
  <2> QED BY <1>3, <2>2, UnitsAssumption
<1>6. ASSUME d >= 1
      PROVE  ToInt(d) = d
  BY <1>3, <1>4, <1>5, <1>6, ToIntSmall, UnitsAssumption
<1>7. d <= 0 <=> at - from > (ms - 1) * NsPerMs
  <2>1. (ms - 1) * NsPerMs = ms * NsPerMs - NsPerMs
    BY UnitsAssumption
  <2>2. at - from > (ms - 1) * NsPerMs <=> left < NsPerMs
    BY <2>1, UnitsAssumption
  <2>3. CASE d <= 0
    <3>1. d * NsPerMs <= 0
      BY <1>3, <2>3, UnitsAssumption
    <3> QED BY <1>3, <2>2, <2>3, <3>1, UnitsAssumption
  <2>4. CASE d >= 1
    <3>1. d * NsPerMs >= NsPerMs
      BY <1>3, <2>4, UnitsAssumption
    <3> QED BY <1>3, <2>2, <2>4, <3>1, UnitsAssumption
  <2> QED BY <1>3, <2>3, <2>4
<1>8. IsTimeout(Clock(at), tmr) => d <= 0
  BY <1>1, <1>3, <1>5, <1>6, UnitsAssumption DEF IsTimeout
<1>9. ASSUME d <= 0, at - from <= (IntRange \div 2) * NsPerMs
      PROVE  IsTimeout(Clock(at), tmr)
  <2>1. -(IntRange \div 2) <= d
    <3> DEFINE h == IntRange \div 2
    <3>1. left >= (-h) * NsPerMs
      <4>1. ms * NsPerMs >= 0
        BY UnitsAssumption
      <4>2. (-h) * NsPerMs = -(h * NsPerMs) /\ h * NsPerMs \in Int
        BY <1>4, UnitsAssumption
      <4> QED BY <1>4, <1>9, <4>1, <4>2, UnitsAssumption
    <3>2. (d + 1) * NsPerMs = d * NsPerMs + NsPerMs
      BY <1>3, UnitsAssumption
    <3>3. (-h) * NsPerMs < (d + 1) * NsPerMs
      BY <1>2, <1>3, <1>4, <3>1, <3>2, UnitsAssumption
    <3>4. -h < d + 1
      BY <1>3, <1>4, <3>3, UnitsAssumption
    <3> QED BY <1>3, <1>4, <3>4
  <2>2. ToInt(d) = d
    BY <1>3, <1>4, <1>9, <2>1, ToIntSmall, UnitsAssumption
  <2> QED BY <1>1, <1>9, <2>2 DEF IsTimeout
<1> QED BY <1>7, <1>8, <1>9
=============================================================================
