------------------------------ MODULE SortSearch ------------------------------
(***************************************************************************)
(* src/sortandsearch.c: len random numbers are sorted and the first of     *)
(* them, the key, is looked for, both with a comparison that subtracts     *)
(* ints.  An int is one of -IntHalf..IntHalf - 1, where IntHalf stands for *)
(* 2^31, MaxLen for 256, and EntropyMax for the 64 ints that are all       *)
(* getentropy gives at once.                                               *)
(***************************************************************************)
EXTENDS Integers, Sequences, SequencesExt

CONSTANTS IntHalf, MaxLen, EntropyMax

ASSUME SortAssumption ==
    IntHalf \in Nat \ {0} /\ MaxLen \in Nat /\ EntropyMax \in 0..MaxLen

IntMin == -IntHalf
IntMax == IntHalf - 1

VARIABLES sortpc,  \* "args", "entropy", "qsort", "bsearch", "done" or "failure"
          len,
          buffer,  \* the numbers
          key,
          lower,   \* bsearch looks at the indices lower..upper - 1, from 0 on
          upper,
          found

sortVars == <<sortpc, len, buffer, key, lower, upper, found>>

SortInit ==
    /\ sortpc = "args" /\ len = 0 /\ buffer = <<>> /\ key = 0
    /\ lower = 0 /\ upper = 0 /\ found = FALSE

-----------------------------------------------------------------------------
\* Compiled without optimisation, an int wraps.
Wrapped(n) == ((n - IntMin) % (2 * IntHalf)) + IntMin

comparison_IsGreater(a, b) == IF a > b THEN 1 ELSE 0
comparison(a, b) == Wrapped(a - b)

\* The comparison orders these numbers, as qsort and bsearch ask of it.
Consistent(numbers) ==
    /\ \A a, b \in numbers : comparison(a, b) < 0 <=> comparison(b, a) > 0
    /\ \A a, b, c \in numbers :
         comparison(a, b) <= 0 /\ comparison(b, c) <= 0 => comparison(a, c) <= 0

OrderedBy(compare(_, _), numbers) ==
    \A j, k \in DOMAIN numbers : j < k => compare(numbers[j], numbers[k]) <= 0

\* qsort returns some permutation, in order if there is an order.
Sorted(numbers) ==
    {arranged \in {[k \in DOMAIN numbers |-> numbers[p[k]]] :
                     p \in Bijection(DOMAIN numbers, DOMAIN numbers)} :
        Consistent(ToSet(numbers)) => OrderedBy(comparison, arranged)}

-----------------------------------------------------------------------------
\* No argument, no number, more than 256, or no memory.
ArgsFail ==
    /\ sortpc = "args" /\ sortpc' = "failure"
    /\ UNCHANGED <<len, buffer, key, lower, upper, found>>

Args ==
    /\ sortpc = "args" /\ sortpc' = "entropy" /\ len' \in 0..MaxLen
    /\ UNCHANGED <<buffer, key, lower, upper, found>>

EntropyFails ==
    /\ sortpc = "entropy" /\ len > EntropyMax /\ sortpc' = "failure"
    /\ UNCHANGED <<len, buffer, key, lower, upper, found>>

\* The first number is taken as the key; without a number it stays 0.
Entropy ==
    /\ sortpc = "entropy" /\ len <= EntropyMax /\ sortpc' = "qsort"
    /\ buffer' \in [1..len -> IntMin..IntMax]
    /\ key' = IF len > 0 THEN buffer'[1] ELSE 0
    /\ UNCHANGED <<len, lower, upper, found>>

Qsort ==
    /\ sortpc = "qsort" /\ sortpc' = "bsearch"
    /\ buffer' \in Sorted(buffer)
    /\ lower' = 0 /\ upper' = len
    /\ UNCHANGED <<len, key, found>>

\* One step of the binary search.
Bsearch ==
    /\ sortpc = "bsearch" /\ lower < upper
    /\ LET middle == (lower + upper) \div 2
           result == comparison(key, buffer[middle + 1])
       IN \/ result < 0 /\ upper' = middle /\ UNCHANGED <<sortpc, lower, found>>
          \/ result > 0 /\ lower' = middle + 1 /\ UNCHANGED <<sortpc, upper, found>>
          \/ result = 0 /\ found' = TRUE /\ sortpc' = "done" /\ UNCHANGED <<lower, upper>>
    /\ UNCHANGED <<len, buffer, key>>

NotFound ==
    /\ sortpc = "bsearch" /\ lower >= upper /\ sortpc' = "done"
    /\ UNCHANGED <<len, buffer, key, lower, upper, found>>

SortNext ==
    ArgsFail \/ Args \/ EntropyFails \/ Entropy \/ Qsort \/ Bsearch \/ NotFound

SortSpec == SortInit /\ [][SortNext]_sortVars

-----------------------------------------------------------------------------
\* While no difference of two numbers overflows, the numbers printed last
\* ascend; and while the comparison is an order, overflows or not, the key is
\* found, unless there is none.  With other numbers "NOT found" may be wrong,
\* but "found" is not.
SearchIsRight ==
    sortpc = "done" =>
        /\ (\A a, b \in ToSet(buffer) : a - b \in IntMin..IntMax) =>
              OrderedBy(LAMBDA a, b : a - b, buffer)
        /\ Consistent(ToSet(buffer)) /\ len > 0 => found
        /\ found => key \in ToSet(buffer)
=============================================================================
