------------------------------ MODULE SemThreads ------------------------------
(***************************************************************************)
(* src/thread_sem_detached.c: main starts three detached threads two       *)
(* seconds apart, destroys the semaphore, sleeps thirty seconds and exits. *)
(* Each thread stays four seconds between sem_wait and sem_post.  Time     *)
(* passes in seconds; whatever is due runs at most Lag seconds late.       *)
(***************************************************************************)
EXTENDS Integers, FiniteSets

CONSTANTS SemValue, \* the initial value of sem: 1, or the 2 of the header
          Lag       \* bound: seconds a thread may be late

ASSUME SemAssumption == SemValue \in Nat \ {0} /\ Lag \in Nat

Detached == 1..3

VARIABLES mstep, \* main: the number of the thread it creates next, or a word
          mleft, \* seconds main still sleeps; below 0, seconds it is late
          dpc,   \* the threads: "none", "wait", "in", "done" or "failed"
          dleft, \* the same as mleft for the threads
          sem

semVars == <<mstep, mleft, dpc, dleft, sem>>

MainSteps == <<"1", "2", "3", "destroy">>

SemInit ==
    /\ mstep = "attr" /\ mleft = 0
    /\ dpc = [t \in Detached |-> "none"] /\ dleft = [t \in Detached |-> 0]
    /\ sem = SemValue

\* pthread_attr_init and pthread_attr_setdetachstate: exit when they fail.
Attributes ==
    /\ mstep = "attr" /\ mleft <= 0 /\ mstep' \in {"1", "failure"} /\ mleft' = 0
    /\ UNCHANGED <<dpc, dleft, sem>>

\* The result of pthread_create is not looked at.  sleep(2) follows the first
\* and the second.
CreateDetached(t) ==
    /\ mstep = MainSteps[t] /\ mleft <= 0
    /\ mstep' = MainSteps[t + 1] /\ mleft' = IF t = 3 THEN 0 ELSE 2
    /\ \E outcome \in {"wait", "failed"} : dpc' = [dpc EXCEPT ![t] = outcome]
    /\ UNCHANGED <<dleft, sem>>

\* sem_destroy of the C library does nothing, also when threads wait.
DestroySem ==
    /\ mstep = "destroy" /\ mleft <= 0
    /\ mstep' = "sleep" /\ mleft' = 30
    /\ UNCHANGED <<dpc, dleft, sem>>

\* The end of the process ends every thread.
ExitMain ==
    /\ mstep = "sleep" /\ mleft <= 0
    /\ mstep' = "exited"
    /\ UNCHANGED <<mleft, dpc, dleft, sem>>

-----------------------------------------------------------------------------
SemWait(t) ==
    /\ dpc[t] = "wait" /\ sem > 0 /\ sem' = sem - 1
    /\ dpc' = [dpc EXCEPT ![t] = "in"] /\ dleft' = [dleft EXCEPT ![t] = 4]
    /\ UNCHANGED <<mstep, mleft>>

Posted_Forgotten == sem
Posted == sem + 1

\* Those who waited for the semaphore are due from now on, whenever they began
\* to wait.
SemPost(t) ==
    /\ dpc[t] = "in" /\ dleft[t] <= 0 /\ sem' = Posted
    /\ dpc' = [dpc EXCEPT ![t] = "done"]
    /\ dleft' = [u \in Detached |-> IF u = t \/ (dpc[u] = "wait" /\ sem = 0) THEN 0 ELSE dleft[u]]
    /\ UNCHANGED <<mstep, mleft>>

-----------------------------------------------------------------------------
\* A thread that waits for the semaphore is not late.
Counts(t) == dpc[t] = "in" \/ (dpc[t] = "wait" /\ sem > 0)

Tick ==
    /\ mleft > -Lag
    /\ \A t \in Detached : Counts(t) => dleft[t] > -Lag
    /\ mleft' = mleft - 1
    /\ dleft' = [t \in Detached |-> IF Counts(t) THEN dleft[t] - 1 ELSE dleft[t]]
    /\ UNCHANGED <<mstep, dpc, sem>>

SemNext ==
    /\ mstep \notin {"exited", "failure"}
    /\ \/ Attributes \/ DestroySem \/ ExitMain \/ Tick
       \/ \E t \in Detached : CreateDetached(t) \/ SemWait(t) \/ SemPost(t)

SemSpec == SemInit /\ [][SemNext]_semVars

-----------------------------------------------------------------------------
\* Every variable has its type, nobody is later than Lag, and as the header
\* says of the value 1 and of the value 2, as many threads are inside as the
\* semaphore lacks of its value.
SemTypeOK ==
    /\ mstep \in {"attr", "1", "2", "3", "destroy", "sleep", "exited", "failure"}
    /\ mleft \in -Lag..30
    /\ dpc \in [Detached -> {"none", "wait", "in", "done", "failed"}]
    /\ dleft \in [Detached -> -Lag..4]
    /\ sem \in 0..SemValue
    /\ Cardinality({t \in Detached : dpc[t] = "in"}) + sem = SemValue

\* "wait to see all threads are finished" (thread_sem_detached.c:99): nobody
\* joins the threads, but the thirty seconds are enough although each waits
\* for those before it and every step may be Lag late.
AllFinished ==
    mstep = "exited" => \A t \in Detached : dpc[t] \in {"done", "failed"}
=============================================================================
