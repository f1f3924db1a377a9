------------------------------- MODULE Timer -------------------------------
(***************************************************************************)
(* The scan timer, src/src/timer.c.                                        *)
(*                                                                         *)
(* start_timer returns the CLOCK_MONOTONIC time as a double; timer(old)    *)
(* returns the time elapsed since old, but its parameter is a float, so    *)
(* the double the caller passes is rounded to Precision significant bits  *)
(* (24 for IEEE single) before the subtraction.  Time is counted here in   *)
(* units of the clock: a double holds every value of the model exactly.    *)
(* sec2clock formats a duration as hours, minutes and seconds.             *)
(***************************************************************************)
EXTENDS Integers

CONSTANTS
    Precision,    \* significant bits of a float
    MaxTime,      \* last clock value of the model
    ClockUnit     \* seconds one clock unit stands for in sec2clock's input

VARIABLES
    now,          \* CLOCK_MONOTONIC
    start         \* the double start_timer returned last

vars == <<now, start>>

TypeOK == now \in 0..MaxTime /\ start \in 0..now

RECURSIVE BitLen(_)
BitLen(x) == IF x = 0 THEN 0 ELSE 1 + BitLen(x \div 2)

\* double -> float at the call timer(old): round to nearest, ties to even
ToFloat(x) ==
    LET sh == BitLen(x) - Precision
    IN  IF sh <= 0 THEN x
        ELSE LET q == x \div 2^sh
                 r == x % 2^sh
                 half == 2^(sh - 1)
             IN  (IF r > half \/ (r = half /\ q % 2 = 1) THEN q + 1 ELSE q)
                     * 2^sh

\* timer(old_time): now minus the float old_time
timer(old_time) == now - ToFloat(old_time)

\* mutant: the minutes are taken from the whole duration
sec2clock_NoMod(secs) == <<secs \div 3600, secs \div 60, (secs % 3600) % 60>>

\* sec2clock: (int) secs / 3600, (secs % 3600) / 60, (secs % 3600) % 60;
\* the cast to int is exact below 2^31 seconds
sec2clock(secs) == <<secs \div 3600, (secs % 3600) \div 60, (secs % 3600) % 60>>

Init == now = 0 /\ start = 0

\* mutant: get_time reads CLOCK_REALTIME, which may be set back
Tick_Realtime ==
    /\ now < MaxTime
    /\ now' \in {now + 1, now - 1} \cap 0..MaxTime
    /\ UNCHANGED start

\* get_time: CLOCK_MONOTONIC advances
Tick ==
    /\ now < MaxTime
    /\ now' = now + 1
    /\ UNCHANGED start

\* start = start_timer()
start_timer ==
    /\ start' = now
    /\ UNCHANGED now

Next == Tick \/ start_timer

Spec == Init /\ [][Next]_vars

(***************************************************************************)
(* Properties                                                              *)
(***************************************************************************)

\* sec2clock splits the elapsed time into hours, minutes below 60 and
\* seconds below 60 that add up to it.
ClockExact ==
    LET s == now * ClockUnit
        c == sec2clock(s)
    IN  /\ c[1] * 3600 + c[2] * 60 + c[3] = s
        /\ c[2] \in 0..59 /\ c[3] \in 0..59

\* The time timer(start) reports is never negative: the clock is monotonic
\* and start was taken from it.
ElapsedNonNegative == timer(start) >= 0

=============================================================================
