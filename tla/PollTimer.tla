------------------------------ MODULE PollTimer ------------------------------
(***************************************************************************)
(* src/poll_timer.c: polls stdin, never reads it, and after each timeout   *)
(* prints the whole seconds since the last one.  Time passes in ticks, of  *)
(* which Second make a second and one stands for a millisecond; timeout is *)
(* an unsigned long that poll takes as an int, which is one of             *)
(* -TimeoutHalf..TimeoutHalf - 1.                                          *)
(***************************************************************************)
EXTENDS Integers

CONSTANTS Second, TimeoutHalf, Arguments, \* the timeouts asked for
          MaxNow                          \* bound: ticks that pass

ASSUME TimerAssumption ==
    /\ Second \in Nat \ {0} /\ TimeoutHalf \in Nat \ {0} /\ MaxNow \in Nat
    /\ Arguments \subseteq Nat

VARIABLES timerpc, \* "args", "clock", "poll", "late", "exited" or "failure"
          timeout,
          now,     \* CLOCK_BOOTTIME, in ticks
          asleep,  \* ticks of now the machine was suspended, which poll does not count
          began,   \* when main read the clock for the first time
          ts_start,
          due,     \* when the poll times out, in ticks not suspended
          readable,\* stdin
          elapsed, \* the last "elapsed time" printed, and the sum of all
          sum

timerVars == <<timerpc, timeout, now, asleep, began, ts_start, due, readable, elapsed, sum>>
timerData == <<began, ts_start, elapsed, sum>>

TimerInit ==
    /\ timerpc = "args" /\ timeout = 0 /\ now \in 0..Second - 1 /\ asleep = 0
    /\ began = 0 /\ ts_start = 0 /\ due = 0 /\ readable = FALSE
    /\ elapsed = 0 /\ sum = 0

-----------------------------------------------------------------------------
ToTimeout(n) == ((n + TimeoutHalf) % (2 * TimeoutHalf)) - TimeoutHalf

Tv_sec(t) == t \div Second

\* poll is called with the timeout as an int; a negative one never comes.
StartPoll == timerpc' = "poll" /\ due' = (now - asleep) + ToTimeout(timeout)
IsDue == ToTimeout(timeout) >= 0 /\ now - asleep >= due

\* The argument is missing or no number, or a clock cannot be read.
TimerFails ==
    /\ timerpc \in {"args", "clock", "late"} /\ timerpc' = "failure"
    /\ UNCHANGED <<timeout, now, asleep, due, readable, timerData>>

TimerArgs ==
    /\ timerpc = "args" /\ timerpc' = "clock" /\ timeout' \in Arguments
    /\ UNCHANGED <<now, asleep, due, readable, timerData>>

FirstClock ==
    /\ timerpc = "clock" /\ StartPoll /\ began' = now /\ ts_start' = now
    /\ UNCHANGED <<timeout, now, asleep, readable, elapsed, sum>>

\* Nobody reads stdin: from then on poll returns at once, and main polls again.
PollReady ==
    /\ timerpc = "poll" /\ readable /\ StartPoll
    /\ UNCHANGED <<timeout, now, asleep, readable, timerData>>

PollFails ==
    /\ timerpc = "poll" /\ timerpc' = "exited"
    /\ UNCHANGED <<timeout, now, asleep, due, readable, timerData>>

PollTimesOut ==
    /\ timerpc = "poll" /\ ~readable /\ IsDue /\ timerpc' = "late"
    /\ UNCHANGED <<timeout, now, asleep, due, readable, timerData>>

\* ts_start = ts_now, the very time that was printed.
NextStart_Kept == ts_start
NextStart == now

Elapsed ==
    /\ timerpc = "late" /\ StartPoll
    /\ elapsed' = Tv_sec(now) - Tv_sec(ts_start) /\ sum' = sum + elapsed'
    /\ ts_start' = NextStart
    /\ UNCHANGED <<timeout, now, asleep, began, readable>>

-----------------------------------------------------------------------------
TimePasses ==
    /\ now < MaxNow /\ now' = now + 1
    /\ asleep' \in {asleep, asleep + 1}
    /\ UNCHANGED <<timerpc, timeout, due, readable, timerData>>

Typed ==
    /\ ~readable /\ readable' = TRUE
    /\ UNCHANGED <<timerpc, timeout, now, asleep, due, timerData>>

TimerNext ==
    /\ timerpc \notin {"exited", "failure"}
    /\ \/ TimerFails \/ TimerArgs \/ FirstClock \/ PollReady \/ PollFails
       \/ PollTimesOut \/ Elapsed \/ TimePasses \/ Typed

TimerSpec == TimerInit /\ [][TimerNext]_timerVars

-----------------------------------------------------------------------------
\* No second is lost or counted twice between the reports, however many there
\* are, how late each is, and whether the machine was suspended: together
\* they say within a second how long it is from the first clock to the last,
\* and no report says less than the whole seconds of the timeout.
ReportsAddUp ==
    /\ (sum - 1) * Second < ts_start - began /\ ts_start - began < (sum + 1) * Second
    /\ ts_start # began => elapsed >= ToTimeout(timeout) \div Second
=============================================================================
