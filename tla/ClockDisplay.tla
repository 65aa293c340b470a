----------------------------- MODULE ClockDisplay -----------------------------
(***************************************************************************)
(* src/time.c: a clock is read and printed as days, hours, minutes and     *)
(* seconds, once a second.  The seconds of a clock are a time_t of 64      *)
(* bits, the int they are cast to is one of -ClockHalf..ClockHalf - 1, of  *)
(* which there are 2^32; the clocks differ in what they count, not in how  *)
(* they are printed.                                                       *)
(***************************************************************************)
EXTENDS Integers

CONSTANTS ClockHalf, Instants \* what the clock can show when it is read

SECS_IN_DAY == 24 * 60 * 60

\* The seconds of a day fit an int.
ASSUME ClockAssumption ==
    ClockHalf \in Nat /\ ClockHalf > SECS_IN_DAY /\ Instants \subseteq Nat

VARIABLES clockpc, \* "read", "print", "sleep" or "failure"
          tv_sec,
          shown    \* what is printed of it

clockVars == <<clockpc, tv_sec, shown>>

Midnight == [days |-> 0, hours |-> 0, minutes |-> 0, seconds |-> 0]

ClockInit == clockpc = "read" /\ tv_sec = 0 /\ shown = Midnight

\* (int) keeps the low bits, and % of the C language has the sign of its
\* left operand.
ToInt(n) == ((n + ClockHalf) % (2 * ClockHalf)) - ClockHalf
Remainder(a, b) == IF a >= 0 THEN a % b ELSE -((-a) % b)
Quotient(a, b) == IF a >= 0 THEN a \div b ELSE -((-a) \div b)

ReadClock ==
    /\ clockpc = "read" /\ clockpc' = "print" /\ tv_sec' \in Instants
    /\ UNCHANGED shown

ReadFails == clockpc = "read" /\ clockpc' = "failure" /\ UNCHANGED <<tv_sec, shown>>

\* The cast of the hours and of the minutes is of the remainder, that of the
\* seconds is of tv_sec itself.
Hours_NoDays(n) == Quotient(ToInt(n), 3600)
Hours(n) == Quotient(ToInt(Remainder(n, SECS_IN_DAY)), 3600)
Minutes(n) == Quotient(ToInt(Remainder(n, 3600)), 60)
Seconds(n) == Remainder(ToInt(n), 60)

PrintClock ==
    /\ clockpc = "print" /\ clockpc' = "sleep"
    /\ shown' = [days |-> Quotient(tv_sec, SECS_IN_DAY), hours |-> Hours(tv_sec),
                 minutes |-> Minutes(tv_sec), seconds |-> Seconds(tv_sec)]
    /\ UNCHANGED tv_sec

SleepOne == clockpc = "sleep" /\ clockpc' = "read" /\ UNCHANGED <<tv_sec, shown>>

ClockNext == ReadClock \/ ReadFails \/ PrintClock \/ SleepOne

ClockSpec == ClockInit /\ [][ClockNext]_clockVars

-----------------------------------------------------------------------------
\* What is printed adds up to the time that was read, each part within its
\* range, as long as the time fits an int; after that the days, the hours and
\* the minutes are still right.
ClockReads ==
    clockpc = "sleep" =>
        LET minutes == (shown.days * 24 + shown.hours) * 60 + shown.minutes
        IN /\ shown.hours \in 0..23 /\ shown.minutes \in 0..59
           /\ minutes = tv_sec \div 60
           /\ tv_sec < ClockHalf => minutes * 60 + shown.seconds = tv_sec
=============================================================================
