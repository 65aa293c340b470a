--------------------------- MODULE AlgorithmProofs ---------------------------
(***************************************************************************)
(* Proofs about the programs of one thread: the clock for every time and   *)
(* every width of an int that holds a day, the timer for every timeout,    *)
(* every length of a second and any number of reports, sort and search for *)
(* every width of an int and every list of numbers, and the tree of keys.  *)
(***************************************************************************)
EXTENDS ClockDisplay, PollTimer, SortSearch, KeyTree, FiniteSetTheorems, TLAPS

-----------------------------------------------------------------------------
(* ClockDisplay *)

\* A number that fits an int is not changed by the cast.
LEMMA CastKeeps ==
    ASSUME NEW n \in Nat, n < ClockHalf
    PROVE  ToInt(n) = n
<1>1. \A H \in Nat \ {0} : \A x \in Int : 0 <= x /\ x < H => x % H = x
  OBVIOUS
<1>2. ClockHalf \in Nat \ {0}
  BY ClockAssumption DEF SECS_IN_DAY
<1>3. (n + ClockHalf) % (2 * ClockHalf) = n + ClockHalf
  BY <1>1, <1>2
<1> QED  BY <1>2, <1>3 DEF ToInt

\* These days, hours, minutes and seconds are those of n.
Tells(n, days, hours, minutes, seconds) ==
    /\ hours \in 0..23 /\ minutes \in 0..59
    /\ (days * 24 + hours) * 60 + minutes = n \div 60
    /\ n < ClockHalf => ((days * 24 + hours) * 60 + minutes) * 60 + seconds = n

\* The division of C rounds as that of TLA+ does, for what a clock can show;
\* and a number is its days, hours, minutes and seconds.
LEMMA Printed ==
    ASSUME NEW n \in Nat
    PROVE  Tells(n, Quotient(n, SECS_IN_DAY), Hours(n), Minutes(n), Seconds(n))
<1>1. SECS_IN_DAY = 86400 /\ ClockHalf \in Nat /\ ClockHalf > 86400
  BY SMT, ClockAssumption DEF SECS_IN_DAY
<1>2. /\ Remainder(n, 86400) = n % 86400 /\ n % 86400 \in Nat /\ n % 86400 < 86400
      /\ Remainder(n, 3600) = n % 3600 /\ n % 3600 \in Nat /\ n % 3600 < 3600
  BY SMT DEF Remainder
<1>3. ToInt(n % 86400) = n % 86400 /\ ToInt(n % 3600) = n % 3600
  BY <1>1, <1>2, CastKeeps, SMT
<1>4. /\ Quotient(n, SECS_IN_DAY) = n \div 86400
      /\ Hours(n) = (n % 86400) \div 3600 /\ Minutes(n) = (n % 3600) \div 60
  BY <1>1, <1>2, <1>3, SMT DEF Hours, Minutes, Quotient
<1>5. n < ClockHalf => Seconds(n) = n % 60
  BY CastKeeps, SMT DEF Seconds, Remainder
<1>6. (n % 86400) \div 3600 \in 0..23
  BY SMT
<1>7. (n % 3600) \div 60 \in 0..59
  BY SMT
<1>8. (n \div 86400) * 24 + ((n % 86400) \div 3600) = n \div 3600
  BY SMT
<1>9. (n \div 3600) * 60 + ((n % 3600) \div 60) = n \div 60
  BY SMT
<1>10. (n \div 60) * 60 + (n % 60) = n
  BY SMT
<1>11. (Quotient(n, SECS_IN_DAY) * 24 + Hours(n)) * 60 + Minutes(n) = n \div 60
  BY <1>4, <1>8, <1>9, SMT
<1>12. n < ClockHalf => (n \div 60) * 60 + Seconds(n) = n
  BY <1>5, <1>10, SMT
<1> QED  BY <1>4, <1>6, <1>7, <1>11, <1>12, SMT DEF Tells

ClockInv == tv_sec \in Nat /\ ClockReads

LEMMA ClockStep == ClockInv /\ [ClockNext]_clockVars => ClockInv'
<1> SUFFICES ASSUME ClockInv, [ClockNext]_clockVars PROVE ClockInv'
  OBVIOUS
<1>1. CASE ReadClock
  BY <1>1, ClockAssumption DEF ReadClock, ClockInv, ClockReads
<1>2. CASE ReadFails
  BY <1>2 DEF ReadFails, ClockInv, ClockReads
<1>3. CASE PrintClock
  <2>1. /\ tv_sec' = tv_sec /\ tv_sec \in Nat
        /\ Tells(tv_sec, shown'.days, shown'.hours, shown'.minutes, shown'.seconds)
    BY <1>3, Printed DEF PrintClock, ClockInv
  <2> QED  BY <2>1 DEF ClockInv, ClockReads, Tells
<1>4. CASE SleepOne
  BY <1>4 DEF SleepOne, ClockInv, ClockReads
<1>5. CASE UNCHANGED clockVars
  BY <1>5 DEF clockVars, ClockInv, ClockReads
<1> QED  BY <1>1, <1>2, <1>3, <1>4, <1>5 DEF ClockNext

\* What is printed is the time that was read, for every clock and every width
\* of an int that holds a day.
THEOREM ClockIsRight == ClockSpec => []ClockReads
<1>1. ClockInit => ClockInv
  BY DEF ClockInit, ClockInv, ClockReads
<1>2. ClockInv => ClockReads
  BY DEF ClockInv
<1> QED  BY <1>1, <1>2, ClockStep, PTL DEF ClockSpec

-----------------------------------------------------------------------------
(* PollTimer *)

\* The whole seconds of a time.
LEMMA WholeSeconds ==
    ASSUME NEW t \in Nat
    PROVE  /\ Tv_sec(t) \in Nat
           /\ Second * Tv_sec(t) <= t /\ t < Second * Tv_sec(t) + Second
BY TimerAssumption, SMT DEF Tv_sec

\* Whole seconds that fit into a time are not more than its whole seconds.
LEMMA AtLeast ==
    ASSUME NEW t \in Nat, NEW n \in Nat, Second * n <= t
    PROVE  n <= Tv_sec(t)
BY TimerAssumption, SMT DEF Tv_sec

\* Waiting for a time brings at least its whole seconds.
LEMMA Waited ==
    ASSUME NEW t \in Nat, NEW n \in Nat, NEW u \in Nat, t + n <= u
    PROVE  Tv_sec(n) <= Tv_sec(u) - Tv_sec(t)
<1>1. /\ Tv_sec(t) \in Nat /\ Tv_sec(n) \in Nat /\ Tv_sec(u) \in Nat
      /\ Second * Tv_sec(t) <= t /\ Second * Tv_sec(n) <= n
  BY WholeSeconds
<1>2. Second * (Tv_sec(t) + Tv_sec(n)) <= u
  BY <1>1, TimerAssumption, SMT
<1>3. Tv_sec(t) + Tv_sec(n) <= Tv_sec(u)
  BY <1>1, <1>2, AtLeast, SMT
<1> QED  BY <1>1, <1>3, SMT

LEMMA TimeoutIsInt ==
    ASSUME NEW n \in Nat
    PROVE  ToTimeout(n) \in Int
BY TimerAssumption, SMT DEF ToTimeout

\* The clocks that were read, in their order; before the first nothing is
\* reported.
ClocksRead ==
    /\ timeout \in Nat /\ now \in Nat /\ asleep \in Nat /\ due \in Int
    /\ elapsed \in Int /\ sum \in Int
    /\ began \in Nat /\ ts_start \in Nat /\ began <= ts_start /\ ts_start <= now
    /\ timerpc \in {"args", "clock"} => began = 0 /\ ts_start = 0 /\ sum = 0

\* poll is due when the timeout has passed since the last report, and later
\* for every tick of suspension; once it is, the timeout has passed.
DueInTime ==
    /\ timerpc = "poll" => ts_start + ToTimeout(timeout) <= due + asleep
    /\ timerpc = "late" => /\ ToTimeout(timeout) >= 0
                           /\ ts_start + ToTimeout(timeout) <= now

\* The reports add up to the difference of the whole seconds of two clocks,
\* and none is short.
Reported ==
    /\ sum = Tv_sec(ts_start) - Tv_sec(began)
    /\ ts_start # began => elapsed >= ToTimeout(timeout) \div Second

TimerInv == ClocksRead /\ DueInTime /\ Reported

LEMMA TimerStarts == TimerInit => TimerInv
<1> SUFFICES ASSUME TimerInit PROVE TimerInv
  OBVIOUS
<1>1. ClocksRead /\ DueInTime
  BY TimerAssumption DEF TimerInit, ClocksRead, DueInTime
<1>2. Reported
  BY WholeSeconds DEF TimerInit, Reported
<1> QED  BY <1>1, <1>2 DEF TimerInv

LEMMA TimerStep == TimerInv /\ [TimerNext]_timerVars => TimerInv'
<1> SUFFICES ASSUME TimerInv, [TimerNext]_timerVars PROVE TimerInv'
  OBVIOUS
<1> USE DEF TimerInv, timerData
<1>0. ToTimeout(timeout) \in Int
  BY TimeoutIsInt DEF ClocksRead
<1>1. CASE TimerFails
  BY <1>1 DEF TimerFails, ClocksRead, DueInTime, Reported
<1>2. CASE TimerArgs
  BY <1>2, TimerAssumption DEF TimerArgs, ClocksRead, DueInTime, Reported
<1>3. CASE FirstClock
  <2>1. ClocksRead' /\ DueInTime'
    BY <1>0, <1>3 DEF FirstClock, StartPoll, ClocksRead, DueInTime
  <2>2. Reported'
    BY <1>3, WholeSeconds DEF FirstClock, StartPoll, ClocksRead, Reported
  <2> QED  BY <2>1, <2>2
<1>4. CASE PollReady
  BY <1>0, <1>4 DEF PollReady, StartPoll, ClocksRead, DueInTime, Reported
<1>5. CASE PollFails
  BY <1>5 DEF PollFails, ClocksRead, DueInTime, Reported
<1>6. CASE PollTimesOut
  BY <1>0, <1>6 DEF PollTimesOut, IsDue, ClocksRead, DueInTime, Reported
<1>7. CASE Elapsed
  <2>0. /\ now \in Nat /\ ts_start \in Nat /\ began \in Nat
        /\ ToTimeout(timeout) \in Nat /\ ts_start + ToTimeout(timeout) <= now
    BY <1>0, <1>7 DEF Elapsed, ClocksRead, DueInTime
  <2>1. /\ Tv_sec(now) \in Nat /\ Tv_sec(ts_start) \in Nat /\ Tv_sec(began) \in Nat
        /\ Tv_sec(ToTimeout(timeout)) \in Nat
        /\ Tv_sec(ToTimeout(timeout)) <= Tv_sec(now) - Tv_sec(ts_start)
    BY <2>0, WholeSeconds, Waited
  <2>2. ClocksRead' /\ DueInTime'
    BY <1>0, <1>7, <2>1 DEF Elapsed, NextStart, StartPoll, ClocksRead, DueInTime
  <2>3. sum' = Tv_sec(now) - Tv_sec(began) /\ elapsed' >= Tv_sec(ToTimeout(timeout))
    BY <1>7, <2>1 DEF Elapsed, ClocksRead, Reported
  <2>4. Reported'
    BY <1>7, <2>3 DEF Elapsed, NextStart, Reported, Tv_sec
  <2> QED  BY <2>2, <2>4
<1>8. CASE TimePasses
  BY <1>0, <1>8 DEF TimePasses, ClocksRead, DueInTime, Reported
<1>9. CASE Typed
  BY <1>9 DEF Typed, ClocksRead, DueInTime, Reported
<1>10. CASE UNCHANGED timerVars
  BY <1>10 DEF timerVars, ClocksRead, DueInTime, Reported
<1> QED
  BY <1>1, <1>2, <1>3, <1>4, <1>5, <1>6, <1>7, <1>8, <1>9, <1>10 DEF TimerNext

\* The reports add up to the time that has passed, to within a second, and
\* none is short of its timeout: for every timeout, every length of a second,
\* any number of reports, and however long the machine was suspended.
THEOREM TimerAddsUp == TimerSpec => []ReportsAddUp
<1>1. TimerInv => ReportsAddUp
  <2> SUFFICES ASSUME TimerInv
               PROVE  /\ (sum - 1) * Second < ts_start - began
                      /\ ts_start - began < (sum + 1) * Second
    BY DEF TimerInv, Reported, ReportsAddUp
  <2>1. /\ Tv_sec(ts_start) \in Nat /\ Tv_sec(began) \in Nat
        /\ Second * Tv_sec(ts_start) <= ts_start
        /\ ts_start < Second * Tv_sec(ts_start) + Second
        /\ Second * Tv_sec(began) <= began
        /\ began < Second * Tv_sec(began) + Second
    BY WholeSeconds DEF TimerInv, ClocksRead
  <2>2. /\ sum \in Int /\ ts_start \in Nat /\ began \in Nat
        /\ sum = Tv_sec(ts_start) - Tv_sec(began)
    BY DEF TimerInv, ClocksRead, Reported
  <2> QED  BY <2>1, <2>2, TimerAssumption, SMT
<1> QED  BY <1>1, TimerStarts, TimerStep, PTL DEF TimerSpec

-----------------------------------------------------------------------------
(* SortSearch *)

Ints == IntMin..IntMax

LEMMA WrappedFits ==
    ASSUME NEW n \in Ints
    PROVE  Wrapped(n) = n
BY SortAssumption, SMT DEF Ints, IntMin, IntMax, Wrapped

\* The comparison is an int, and says of no two ints wrongly that they are
\* equal.
LEMMA ComparisonIsExact ==
    ASSUME NEW a \in Ints, NEW b \in Ints
    PROVE  /\ comparison(a, b) \in Int
           /\ comparison(a, b) = 0 <=> a = b
<1> DEFINE H == IntHalf
           d == a - b
<1>1. H \in Nat \ {0} /\ d \in Int /\ -(2 * H) < d /\ d < 2 * H
  BY SortAssumption, SMT DEF Ints, IntMin, IntMax
<1>2. comparison(a, b) = ((d + H) % (2 * H)) - H
  <2>1. d - (-H) = d + H
    BY <1>1, SMT
  <2>2. comparison(a, b) = ((d - (-H)) % (2 * H)) + (-H) /\ ((d + H) % (2 * H)) \in Int
    BY <1>1, SMT DEF comparison, Wrapped, IntMin
  <2> QED  BY <1>1, <2>1, <2>2, SMT
<1> HIDE DEF H, d
<1>3. ((d + H) % (2 * H)) \in Int
  BY <1>1, SMT
<1>4. ((d + H) % (2 * H)) = H <=> d = 0
  BY <1>1, SMT
<1>5. d = 0 <=> a = b
  BY SortAssumption, SMT DEF d, Ints, IntMin, IntMax
<1> QED  BY <1>1, <1>2, <1>3, <1>4, <1>5, SMT

\* While no difference overflows the comparison is the difference, and an order.
LEMMA DifferencesFit ==
    ASSUME NEW numbers \in SUBSET Ints, \A a, b \in numbers : a - b \in Ints
    PROVE  /\ \A a, b \in numbers : comparison(a, b) = a - b
           /\ Consistent(numbers)
<1>1. \A a, b \in numbers : comparison(a, b) = a - b
  BY WrappedFits DEF comparison
<1>2. \A a \in numbers : a \in Int
  BY SortAssumption DEF Ints, IntMin, IntMax
<1>3. \A a, b \in numbers : comparison(a, b) < 0 <=> comparison(b, a) > 0
  BY <1>1, <1>2
<1>4. \A a, b, c \in numbers :
         comparison(a, b) <= 0 /\ comparison(b, c) <= 0 => comparison(a, c) <= 0
  BY <1>1, <1>2
<1> QED  BY <1>1, <1>3, <1>4 DEF Consistent

\* qsort loses no number and adds none.
LEMMA SortKeeps ==
    ASSUME NEW n \in Nat, NEW numbers \in [1..n -> Ints], NEW arranged \in Sorted(numbers)
    PROVE  /\ arranged \in [1..n -> Ints]
           /\ ToSet(arranged) = ToSet(numbers)
           /\ Consistent(ToSet(arranged)) => OrderedBy(comparison, arranged)
<1>1. PICK p \in Bijection(1..n, 1..n) : arranged = [k \in 1..n |-> numbers[p[k]]]
  BY DEF Sorted
<1>2. /\ p \in [1..n -> 1..n]
      /\ \A j \in 1..n : \E k \in 1..n : p[k] = j
  BY DEF Bijection, Surjection
<1>3. arranged \in [1..n -> Ints] /\ DOMAIN arranged = 1..n /\ DOMAIN numbers = 1..n
  BY <1>1, <1>2
<1>4. ToSet(arranged) = ToSet(numbers)
  BY <1>1, <1>2, <1>3 DEF ToSet
<1> QED  BY <1>3, <1>4 DEF Sorted

\* In the range that is left is the key, if there is one and an order; what is
\* found is the key.
SearchInv ==
    /\ len \in Nat
    /\ sortpc \in {"qsort", "bsearch", "done"} =>
         /\ buffer \in [1..len -> Ints] /\ key \in Ints
         /\ len > 0 => \E k \in 1..len : buffer[k] = key
    /\ sortpc \in {"bsearch", "done"} =>
         (Consistent(ToSet(buffer)) => OrderedBy(comparison, buffer))
    /\ sortpc = "bsearch" =>
         /\ lower \in 0..len /\ upper \in lower..len /\ ~found
         /\ Consistent(ToSet(buffer)) /\ len > 0 =>
              \E k \in lower + 1..upper : buffer[k] = key
    /\ sortpc = "done" =>
         /\ Consistent(ToSet(buffer)) /\ len > 0 => found
         /\ found => len > 0
    /\ sortpc \in {"args", "entropy", "qsort"} => ~found

\* With an order, a number that compares less than another is before it.
LEMMA Halves ==
    ASSUME NEW n \in Nat, NEW numbers \in [1..n -> Ints], NEW x \in Ints,
           Consistent(ToSet(numbers)), OrderedBy(comparison, numbers),
           NEW k \in 1..n, numbers[k] = x, NEW m \in 1..n
    PROVE  /\ comparison(x, numbers[m]) < 0 => k < m
           /\ comparison(x, numbers[m]) > 0 => k > m
<1>1. /\ numbers[m] \in ToSet(numbers) /\ x \in ToSet(numbers)
      /\ numbers[m] \in Ints
      /\ comparison(x, numbers[m]) \in Int /\ comparison(numbers[m], x) \in Int
  BY ComparisonIsExact DEF ToSet
<1>2. k < m => comparison(x, numbers[m]) <= 0
  BY DEF OrderedBy
<1>3. m < k => comparison(numbers[m], x) <= 0
  BY DEF OrderedBy
<1>4. k = m => comparison(x, numbers[m]) = 0
  BY <1>1, ComparisonIsExact
<1>5. comparison(x, numbers[m]) < 0 <=> comparison(numbers[m], x) > 0
  BY <1>1 DEF Consistent
<1> QED  BY <1>1, <1>2, <1>3, <1>4, <1>5

\* A step of the binary search keeps the key in the range.
LEMMA BsearchStep == SearchInv /\ Bsearch => SearchInv'
<1> SUFFICES ASSUME SearchInv, Bsearch PROVE SearchInv'
  OBVIOUS
<1> DEFINE middle == (lower + upper) \div 2
           result == comparison(key, buffer[middle + 1])
<1>1. /\ sortpc = "bsearch" /\ len \in Nat /\ buffer \in [1..len -> Ints] /\ key \in Ints
      /\ lower \in 0..len /\ upper \in 0..len /\ lower < upper
      /\ len' = len /\ buffer' = buffer /\ key' = key
  BY DEF Bsearch, SearchInv
<1>2. middle \in lower..upper - 1 /\ middle + 1 \in 1..len
  BY <1>1
<1>3. buffer[middle + 1] \in Ints /\ result \in Int
  BY <1>1, <1>2, ComparisonIsExact
<1>4. Consistent(ToSet(buffer)) /\ len > 0 =>
        \E k \in lower + 1..upper : /\ buffer[k] = key
                                    /\ result < 0 => k < middle + 1
                                    /\ result > 0 => k > middle + 1
  <2> SUFFICES ASSUME Consistent(ToSet(buffer)), len > 0
               PROVE  \E k \in lower + 1..upper : /\ buffer[k] = key
                                                  /\ result < 0 => k < middle + 1
                                                  /\ result > 0 => k > middle + 1
    OBVIOUS
  <2>1. PICK k \in lower + 1..upper : buffer[k] = key
    BY <1>1 DEF SearchInv
  <2>2. k \in 1..len
    BY <1>1
  <2>3. OrderedBy(comparison, buffer)
    BY <1>1 DEF SearchInv
  <2> HIDE DEF middle
  <2>4. (result < 0 => k < middle + 1) /\ (result > 0 => k > middle + 1)
    BY <1>1, <1>2, <2>1, <2>2, <2>3, Halves
  <2> WITNESS k \in lower + 1..upper
  <2> QED  BY <2>1, <2>4
<1> HIDE DEF middle, result
<1>5. CASE result < 0 /\ upper' = middle /\ UNCHANGED <<sortpc, lower, found>>
  <2>1. Consistent(ToSet(buffer)) /\ len > 0 => \E k \in lower + 1..middle : buffer[k] = key
    <3> SUFFICES ASSUME Consistent(ToSet(buffer)), len > 0
                 PROVE  \E k \in lower + 1..middle : buffer[k] = key
      OBVIOUS
    <3>1. PICK k \in lower + 1..upper : buffer[k] = key /\ k < middle + 1
      BY <1>4, <1>5
    <3>2. k \in lower + 1..middle
      BY <1>1, <1>2, <3>1
    <3> QED  BY <3>1, <3>2
  <2> QED  BY <1>1, <1>2, <1>5, <2>1 DEF SearchInv
<1>6. CASE result > 0 /\ lower' = middle + 1 /\ UNCHANGED <<sortpc, upper, found>>
  <2>1. Consistent(ToSet(buffer)) /\ len > 0 =>
          \E k \in (middle + 1) + 1..upper : buffer[k] = key
    <3> SUFFICES ASSUME Consistent(ToSet(buffer)), len > 0
                 PROVE  \E k \in (middle + 1) + 1..upper : buffer[k] = key
      OBVIOUS
    <3>1. PICK k \in lower + 1..upper : buffer[k] = key /\ k > middle + 1
      BY <1>4, <1>6
    <3>2. k \in (middle + 1) + 1..upper
      BY <1>1, <1>2, <3>1
    <3> QED  BY <3>1, <3>2
  <2> QED  BY <1>1, <1>2, <1>6, <2>1 DEF SearchInv
<1>7. CASE result = 0 /\ found' = TRUE /\ sortpc' = "done" /\ UNCHANGED <<lower, upper>>
  BY <1>1, <1>7 DEF SearchInv
<1> QED  BY <1>5, <1>6, <1>7 DEF Bsearch, middle, result

LEMMA SearchStep == SearchInv /\ [SortNext]_sortVars => SearchInv'
<1> SUFFICES ASSUME SearchInv, [SortNext]_sortVars PROVE SearchInv'
  OBVIOUS
<1>1. CASE ArgsFail
  BY <1>1 DEF ArgsFail, SearchInv
<1>2. CASE Args
  BY <1>2, SortAssumption DEF Args, SearchInv
<1>3. CASE EntropyFails
  BY <1>3 DEF EntropyFails, SearchInv
<1>4. CASE Entropy
  <2>1. 0 \in Ints
    BY SortAssumption DEF Ints, IntMin, IntMax
  <2> QED  BY <1>4, <2>1 DEF Entropy, SearchInv, Ints
<1>5. CASE Qsort
  <2>1. /\ len \in Nat /\ len' = len /\ key' = key /\ key \in Ints /\ ~found /\ found' = found
        /\ buffer \in [1..len -> Ints] /\ buffer' \in Sorted(buffer)
        /\ sortpc' = "bsearch" /\ lower' = 0 /\ upper' = len
    BY <1>5 DEF Qsort, SearchInv
  <2>2. /\ buffer' \in [1..len -> Ints] /\ ToSet(buffer') = ToSet(buffer)
        /\ Consistent(ToSet(buffer')) => OrderedBy(comparison, buffer')
    BY <2>1, SortKeeps
  <2>3. len > 0 => key \in ToSet(buffer')
    BY <1>5, <2>1, <2>2 DEF Qsort, SearchInv, ToSet
  <2>4. len > 0 => \E k \in 1..len : buffer'[k] = key
    BY <2>2, <2>3 DEF ToSet
  <2> QED  BY <2>1, <2>2, <2>4 DEF SearchInv
<1>6. CASE Bsearch
  BY <1>6, BsearchStep
<1>7. CASE NotFound
  BY <1>7 DEF NotFound, SearchInv
<1>8. CASE UNCHANGED sortVars
  BY <1>8 DEF sortVars, SearchInv
<1> QED
  BY <1>1, <1>2, <1>3, <1>4, <1>5, <1>6, <1>7, <1>8 DEF SortNext

\* The numbers printed ascend while no difference overflows, the key is found
\* while the comparison is an order, and what is found is the key: for every
\* width of an int and every list of numbers, as qsort may permute it.
THEOREM SearchCorrect == SortSpec => []SearchIsRight
<1>1. SortInit => SearchInv
  BY DEF SortInit, SearchInv
<1>2. SearchInv => SearchIsRight
  <2> SUFFICES ASSUME SearchInv, sortpc = "done"
               PROVE  /\ (\A a, b \in ToSet(buffer) : a - b \in IntMin..IntMax) =>
                           OrderedBy(LAMBDA a, b : a - b, buffer)
                      /\ Consistent(ToSet(buffer)) /\ len > 0 => found
                      /\ found => key \in ToSet(buffer)
    BY DEF SearchIsRight
  <2>1. /\ buffer \in [1..len -> Ints]
        /\ Consistent(ToSet(buffer)) => OrderedBy(comparison, buffer)
    BY DEF SearchInv
  <2>2. ToSet(buffer) \in SUBSET Ints
    BY <2>1 DEF ToSet
  <2>3. ASSUME \A a, b \in ToSet(buffer) : a - b \in Ints
        PROVE  \A j, k \in DOMAIN buffer : j < k => buffer[j] - buffer[k] <= 0
    <3>1. /\ \A a, b \in ToSet(buffer) : comparison(a, b) = a - b
          /\ Consistent(ToSet(buffer))
      BY <2>2, <2>3, DifferencesFit
    <3>2. \A j, k \in DOMAIN buffer : j < k => comparison(buffer[j], buffer[k]) <= 0
      BY <2>1, <3>1 DEF OrderedBy
    <3> QED  BY <3>1, <3>2 DEF ToSet
  <2>4. (\A a, b \in ToSet(buffer) : a - b \in IntMin..IntMax) =>
          OrderedBy(LAMBDA a, b : a - b, buffer)
    BY <2>3 DEF OrderedBy, Ints
  <2> QED  BY <2>4 DEF SearchInv, ToSet
<1> QED  BY <1>1, <1>2, SearchStep, PTL DEF SortSpec

-----------------------------------------------------------------------------
(* KeyTree *)

\* The keys are numbers, and no two are equal.
LEMMA KeysDiffer ==
    /\ Pointers = 1..11 /\ Len(dummy) = 11
    /\ \A p \in Pointers : dummy[p] \in Int
    /\ \A p, q \in Pointers : compare(p, q) = 0 => p = q
<1>1. Len(dummy) = 11 /\ Pointers = 1..11
  BY SMT DEF dummy, Pointers
<1>2. /\ dummy[1] = 179 /\ dummy[2] = 102 /\ dummy[3] = 220 /\ dummy[4] = 124
      /\ dummy[5] = 214 /\ dummy[6] = 40 /\ dummy[7] = 16 /\ dummy[8] = 12
      /\ dummy[9] = 70 /\ dummy[10] = 161 /\ dummy[11] = 35
  BY SMT DEF dummy
<1>3. \A p \in Pointers :
        p = 1 \/ p = 2 \/ p = 3 \/ p = 4 \/ p = 5 \/ p = 6 \/ p = 7 \/ p = 8 \/ p = 9
        \/ p = 10 \/ p = 11
  BY <1>1, SMT
<1>4. \A p \in Pointers : dummy[p] \in Int
  BY <1>2, <1>3, SMT
<1>5. ASSUME NEW p \in Pointers, NEW q \in Pointers, dummy[p] = dummy[q]
      PROVE  p = q
  BY <1>2, <1>3, <1>5, SMT
<1>6. \A p, q \in Pointers : compare(p, q) = 0 => dummy[p] = dummy[q]
  BY <1>4, SMT DEF compare
<1> QED  BY <1>1, <1>4, <1>5, <1>6

\* The keys of a tree that a walk prints before p.
Before(pointers, p) == {q \in pointers : compare(q, p) < 0}
Place(pointers, p) == Cardinality(Before(pointers, p))

\* The keys of a tree have each a place of its own, in their order, and every
\* place has a key.
LEMMA Places ==
    ASSUME NEW pointers \in SUBSET Pointers
    PROVE  /\ IsFiniteSet(pointers) /\ Cardinality(pointers) \in Nat
           /\ \A p \in pointers : Place(pointers, p) \in 0..Cardinality(pointers) - 1
           /\ \A p, q \in pointers : compare(p, q) < 0 <=> Place(pointers, p) < Place(pointers, q)
           /\ \A k \in 1..Cardinality(pointers) :
                \E p \in pointers : Place(pointers, p) = k - 1
<1> DEFINE n == Cardinality(pointers)
           f == [p \in pointers |-> Place(pointers, p)]
<1>1. IsFiniteSet(pointers) /\ n \in Nat
  <2>1. 1 \in Int /\ 11 \in Int
    OBVIOUS
  <2>2. IsFiniteSet(1..11)
    BY <2>1, FS_Interval, Zenon
  <2>3. IsFiniteSet(Pointers)
    BY <2>2, KeysDiffer
  <2> QED  BY <2>3, FS_Subset, FS_CardinalityType
<1>2. \A p \in pointers : dummy[p] \in Int
  BY KeysDiffer
<1>3. ASSUME NEW p \in pointers
      PROVE  /\ Place(pointers, p) \in 0..n - 1
             /\ IsFiniteSet(Before(pointers, p))
  <2>1. /\ Before(pointers, p) \in SUBSET pointers
        /\ Before(pointers, p) # pointers
    BY <1>2 DEF Before, compare
  <2>2. /\ IsFiniteSet(Before(pointers, p)) /\ Cardinality(Before(pointers, p)) <= n
        /\ Cardinality(Before(pointers, p)) # n
    BY <1>1, <2>1, FS_Subset
  <2>3. Cardinality(Before(pointers, p)) \in Nat
    BY <2>2, FS_CardinalityType
  <2> QED  BY <1>1, <2>2, <2>3 DEF Place
<1>4. ASSUME NEW p \in pointers, NEW q \in pointers, compare(p, q) < 0
      PROVE  Place(pointers, p) < Place(pointers, q)
  <2>1. /\ Before(pointers, p) \in SUBSET Before(pointers, q)
        /\ p \in Before(pointers, q) /\ p \notin Before(pointers, p)
    BY <1>2, <1>4 DEF Before, compare
  <2>2. /\ Place(pointers, p) <= Place(pointers, q)
        /\ Place(pointers, p) # Place(pointers, q)
    BY <1>3, <2>1, FS_Subset DEF Place
  <2> QED  BY <1>3, <2>2
<1>5. ASSUME NEW p \in pointers, NEW q \in pointers
      PROVE  compare(p, q) < 0 \/ compare(q, p) < 0 \/ p = q
  <2>1. compare(p, q) = 0 => p = q
    BY KeysDiffer
  <2> QED  BY <1>2, <2>1 DEF compare
<1>6. \A p, q \in pointers : compare(p, q) < 0 <=> Place(pointers, p) < Place(pointers, q)
  BY <1>3, <1>4, <1>5
<1>7. f \in Injection(pointers, 0..n - 1)
  <2>1. f \in [pointers -> 0..n - 1]
    BY <1>3
  <2>2. \A p, q \in pointers : Place(pointers, p) = Place(pointers, q) => p = q
    BY <1>3, <1>4, <1>5
  <2> QED  BY <2>1, <2>2 DEF Injection, IsInjective
<1>8. IsFiniteSet(0..n - 1) /\ Cardinality(0..n - 1) = n
  BY <1>1, FS_Interval
<1>9. f \in Surjection(pointers, 0..n - 1)
  BY <1>7, <1>8, FS_Injection
<1>10. ASSUME NEW k \in 1..n
       PROVE  \E p \in pointers : Place(pointers, p) = k - 1
  <2>1. k - 1 \in 0..n - 1
    BY <1>1
  <2> QED  BY <1>9, <2>1 DEF Surjection
<1> QED  BY <1>1, <1>3, <1>6, <1>10

\* A walk prints the keys of the tree, each once and in ascending order.
LEMMA WalkIsRight ==
    ASSUME NEW pointers \in SUBSET Pointers
    PROVE  /\ ToSet(Walk(pointers)) = {dummy[p] : p \in pointers}
           /\ \A j, k \in DOMAIN Walk(pointers) :
                j < k => Walk(pointers)[j] < Walk(pointers)[k]
<1> DEFINE n == Cardinality(pointers)
           at(k) == CHOOSE p \in pointers : Place(pointers, p) = k - 1
<1>1. DOMAIN Walk(pointers) = 1..n
  BY DEF Walk
<1>2. \A k \in 1..n : Walk(pointers)[k] = dummy[at(k)]
  BY DEF Walk, Place, Before
<1>3. \A k \in 1..n : at(k) \in pointers /\ Place(pointers, at(k)) = k - 1
  BY Places
<1> HIDE DEF at
<1>4. /\ n \in Nat
      /\ \A p \in pointers : dummy[p] \in Int /\ Place(pointers, p) \in 0..n - 1
  BY Places, KeysDiffer
<1>5. ASSUME NEW j \in 1..n, NEW k \in 1..n, j < k
      PROVE  Walk(pointers)[j] < Walk(pointers)[k]
  <2>1. compare(at(j), at(k)) < 0
    BY <1>3, <1>4, <1>5, Places
  <2> QED  BY <1>2, <1>3, <1>4, <2>1 DEF compare
<1>6. ASSUME NEW p \in pointers
      PROVE  \E k \in 1..n : Walk(pointers)[k] = dummy[p]
  <2>1. Place(pointers, p) + 1 \in 1..n
    BY <1>4
  <2>2. PICK k \in 1..n : k = Place(pointers, p) + 1
    BY <2>1
  <2>3. at(k) \in pointers /\ Place(pointers, at(k)) = Place(pointers, p)
    BY <1>3, <1>4, <2>2
  <2>4. ~(compare(at(k), p) < 0) /\ ~(compare(p, at(k)) < 0)
    BY <1>4, <2>3, Places
  <2>5. dummy[at(k)] = dummy[p]
    BY <1>4, <2>3, <2>4 DEF compare
  <2> QED  BY <1>2, <2>5
<1>7. ToSet(Walk(pointers)) = {dummy[p] : p \in pointers}
  <2>1. ToSet(Walk(pointers)) = {Walk(pointers)[k] : k \in 1..n}
    BY <1>1 DEF ToSet
  <2>2. \A k \in 1..n : Walk(pointers)[k] \in {dummy[p] : p \in pointers}
    BY <1>2, <1>3
  <2> QED  BY <1>6, <2>1, <2>2, Zenon
<1> QED  BY <1>1, <1>5, <1>7

\* The walks of a run in which no key was lost on the way.
BothWalks == <<Walk(Pointers), Walk(Pointers \ {Len(dummy)})>>

\* The tree holds what is in memory, but for the key that was deleted after
\* the walks.
TreeInv ==
    /\ root \subseteq Pointers /\ allocated \subseteq Pointers
    /\ walks \in {<<>>, BothWalks}
    /\ treepc = "insert" => keyno \in Pointers /\ root = 1..keyno - 1
    /\ treepc \in {"insert", "search"} => walks = <<>> /\ allocated = root
    /\ treepc = "search" => root = Pointers
    /\ treepc = "out" =>
         root = IF walks = <<>> THEN allocated ELSE allocated \ {Len(dummy)}
    /\ treepc # "exited" => freed = [p \in Pointers |-> 0]
    /\ treepc = "exited" =>
         \A p \in allocated : freed[p] = IF walks # <<>> /\ p = Len(dummy) THEN 0 ELSE 1

LEMMA TreeStep == TreeInv /\ [TreeNext]_treeVars => TreeInv'
<1> SUFFICES ASSUME TreeInv, [TreeNext]_treeVars PROVE TreeInv'
  OBVIOUS
<1>0. Pointers = 1..11 /\ Len(dummy) = 11 /\ Pointers' = Pointers
  BY KeysDiffer DEF Pointers
<1>1. CASE MallocFails
  BY <1>1 DEF MallocFails, TreeInv
<1>2. ASSUME treepc = "insert" PROVE Matches(keyno) = {} /\ keyno \in 1..11
  <2>1. keyno \in Pointers /\ root = 1..keyno - 1
    BY <1>2 DEF TreeInv
  <2>2. \A q \in root : compare(keyno, q) # 0
    <3>1. \A q \in root : q \in Pointers /\ q # keyno
      BY <1>0, <2>1
    <3> QED  BY <2>1, <3>1, KeysDiffer, Zenon
  <2> QED  BY <1>0, <2>1, <2>2 DEF Matches
<1>3. CASE Insert
  <2>1. /\ treepc = "insert" /\ keyno \in 1..11 /\ root = 1..keyno - 1
        /\ allocated = root /\ walks = <<>> /\ freed = [p \in Pointers |-> 0]
    BY <1>2, <1>3 DEF Insert, TreeInv
  <2>2. /\ root' = 1..keyno /\ keyno' = keyno + 1 /\ allocated' = 1..keyno
        /\ treepc' = IF keyno = 11 THEN "search" ELSE "insert"
        /\ freed' = freed /\ walks' = walks
    <3>1. (1..keyno - 1) \union {keyno} = 1..keyno
      BY <2>1
    <3> QED  BY <1>0, <1>2, <1>3, <2>1, <3>1 DEF Insert
  <2>3. root' \subseteq Pointers
    BY <1>0, <2>1, <2>2
  <2>4. keyno = 11 => root' = Pointers
    BY <1>0, <2>2
  <2>5. keyno # 11 => keyno' \in Pointers /\ root' = 1..keyno' - 1
    BY <1>0, <2>1, <2>2
  <2> QED  BY <2>1, <2>2, <2>3, <2>4, <2>5 DEF TreeInv
<1>4. CASE InsertCrashes
  BY <1>0, <1>2, <1>4 DEF InsertCrashes, TreeInv
<1>5. CASE Search
  <2>1. /\ treepc' = "out" /\ allocated' = Pointers /\ root = Pointers
        /\ freed' = [p \in Pointers |-> 0]
    BY <1>5 DEF Search, TreeInv
  <2>2. Matches(Len(dummy)) = {Len(dummy)}
    <3>1. compare(11, 11) = 0
      BY <1>0, KeysDiffer DEF compare
    <3> QED  BY <1>0, <2>1, <3>1, KeysDiffer DEF Matches
  <2>3. root' = Pointers \ {Len(dummy)}
    BY <1>5, <2>1, <2>2 DEF Search
  <2>4. walks' = BothWalks
    BY <1>5, <2>1, <2>2, <2>3, Zenon DEF Search, BothWalks
  <2>5. BothWalks # <<>>
    BY DEF BothWalks
  <2> QED  BY <1>0, <2>1, <2>3, <2>4, <2>5 DEF TreeInv
<1>6. CASE Destroy
  BY <1>0, <1>6 DEF Destroy, freenode, TreeInv
<1>7. CASE UNCHANGED treeVars
  BY <1>0, <1>7 DEF treeVars, TreeInv
<1> QED  BY <1>1, <1>3, <1>4, <1>5, <1>6, <1>7 DEF TreeNext

\* At exit every key in memory was freed once, but for the deleted one, and
\* the walks printed the keys in ascending order, with it and without it.
THEOREM EveryKeyAccounted == TreeSpec => []KeysAccounted
<1>1. TreeInit => TreeInv
  BY KeysDiffer DEF TreeInit, TreeInv
<1>2. TreeInv => KeysAccounted
  <2> SUFFICES ASSUME TreeInv, treepc = "exited", walks # <<>>
               PROVE  /\ Len(walks) = 2
                      /\ ToSet(walks[1]) = ToSet(dummy)
                      /\ ToSet(walks[2]) = ToSet(dummy) \ {dummy[Len(dummy)]}
                      /\ \A w \in ToSet(walks) :
                           \A j, k \in DOMAIN w : j < k => w[j] < w[k]
    BY DEF TreeInv, KeysAccounted
  <2> DEFINE others == Pointers \ {Len(dummy)}
  <2>1. Len(walks) = 2 /\ walks[1] = Walk(Pointers) /\ walks[2] = Walk(others)
    BY DEF TreeInv, BothWalks
  <2>2. ToSet(walks) = {Walk(Pointers), Walk(others)}
    BY DEF TreeInv, BothWalks, ToSet
  <2>3. ToSet(dummy) = {dummy[p] : p \in Pointers}
    <3>1. DOMAIN dummy = Pointers
      BY SMT DEF dummy, Pointers
    <3> QED  BY <3>1 DEF ToSet
  <2>4. {dummy[p] : p \in others} = ToSet(dummy) \ {dummy[Len(dummy)]}
    <3>1. Len(dummy) \in Pointers
      BY KeysDiffer
    <3>2. \A p \in others : dummy[p] # dummy[Len(dummy)]
      <4>1. \A p \in others : p \in Pointers /\ p # Len(dummy)
        OBVIOUS
      <4>2. \A p \in others : compare(p, Len(dummy)) # 0
        BY <3>1, <4>1, KeysDiffer, Zenon
      <4>3. \A p \in Pointers : dummy[p] \in Int
        BY KeysDiffer
      <4> QED  BY <3>1, <4>1, <4>2, <4>3 DEF compare
    <3> QED  BY <2>3, <3>1, <3>2
  <2> QED  BY <2>1, <2>2, <2>3, <2>4, WalkIsRight
<1> QED  BY <1>1, <1>2, TreeStep, PTL DEF TreeSpec

=============================================================================
