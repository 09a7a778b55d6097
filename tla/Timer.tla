------------------------------- MODULE Timer -------------------------------
(***************************************************************************)
(* The timers of linux/src/timer.c: a deadline as struct timespec, set in  *)
(* milliseconds from the clock and compared with it.  The clock's units    *)
(* and the width of int are constants: the code has 1000000, 1000, 2^32    *)
(* and TIMER_MAX_INTERVAL, one day.                                        *)
(***************************************************************************)
EXTENDS Integers

CONSTANTS NsPerMs, MsPerSec,
          IntRange,      \* number of values of an int
          MaxInterval    \* TIMER_MAX_INTERVAL

NsPerSec == NsPerMs * MsPerSec

ASSUME UnitsAssumption ==
    /\ NsPerMs \in Nat \ {0} /\ MsPerSec \in Nat \ {0}
    /\ MaxInterval \in Nat \ {0}
    /\ IntRange \in Nat /\ IntRange > 2 * MaxInterval

Timers == [sec : Int, nsec : 0 .. NsPerSec - 1]

\* What clock_gettime returns at n nanoseconds.
Clock(n) == [sec |-> n \div NsPerSec, nsec |-> n % NsPerSec]

\* The nanoseconds a timer stands for.
Ns(t) == t.sec * NsPerSec + t.nsec

\* The assignment of a long to an int.
ToInt(n) == ((n + IntRange \div 2) % IntRange) - IntRange \div 2

\* tm_intv_ms
IntvMs(start, stop) ==
    LET ns == stop.nsec - start.nsec
    IN  IF ns < 0
        THEN ToInt((stop.sec - start.sec - 1) * MsPerSec + (ns + NsPerSec) \div NsPerMs)
        ELSE ToInt((stop.sec - start.sec) * MsPerSec + ns \div NsPerMs)

\* Mutant of SetMs: the carry into the seconds is lost.
SetMsNoCarry(curr, ms) ==
    [sec |-> curr.sec + ms \div MsPerSec,
     nsec |-> (curr.nsec + (ms % MsPerSec) * NsPerMs) % NsPerSec]

\* Mutant of SetMs: the nanoseconds are left above a second.
SetMsUnreduced(curr, ms) ==
    [sec |-> curr.sec + ms \div MsPerSec,
     nsec |-> curr.nsec + (ms % MsPerSec) * NsPerMs]

\* tm_set_ms, at a clock that says curr
SetMs(curr, ms) ==
    LET nsec == curr.nsec + (ms % MsPerSec) * NsPerMs
    IN  [sec |-> curr.sec + ms \div MsPerSec + nsec \div NsPerSec,
         nsec |-> nsec % NsPerSec]

\* Mutant of IsTimeout: a deadline that was passed between two looks at the
\* clock is taken for one that is to come.
IsTimeoutAtZero(curr, tmr) == IntvMs(curr, tmr) = 0

\* tm_is_timeout
IsTimeout(curr, tmr) ==
    LET intv == IntvMs(curr, tmr) IN intv <= 0 \/ intv >= MaxInterval
=============================================================================
