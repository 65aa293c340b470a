----------------------------- MODULE MutexCounter -----------------------------
(***************************************************************************)
(* src/thread_mutex.c: threads that add one to a counter and print it      *)
(* under a mutex; main starts them, joins them in order, frees what each   *)
(* returned, and destroys the mutex.  The program has two threads.  Its    *)
(* global lock is called mutex here.                                       *)
(***************************************************************************)
EXTENDS Integers, Sequences

CONSTANT N  \* the number of threads

ASSUME NAssumption == N \in Nat \ {0}

Threads == 1..N

VARIABLES phase,    \* main: "init", "create", "join", "destroy", "exited", "failure"
          nth,      \* the thread main creates or joins next
          tpc,      \* where each thread is
          mutex,    \* the thread that holds the mutex, or 0
          shared_counter,
          loaded,   \* the value a thread has read, to add one to it
          printed,  \* the values printed as "counter: %d"
          buffers   \* threads whose buffer is allocated and not freed

mutexVars == <<phase, nth, tpc, mutex, shared_counter, loaded, printed, buffers>>
mutexMain == <<phase, nth>>

MutexInit ==
    /\ phase = "init" /\ nth = 1
    /\ tpc = [t \in Threads |-> "none"]
    /\ mutex = 0 /\ shared_counter = 0 /\ loaded = [t \in Threads |-> 0]
    /\ printed = <<>> /\ buffers = {}

Running == phase \notin {"exited", "failure"}
Go(t, from, to) == Running /\ tpc[t] = from /\ tpc' = [tpc EXCEPT ![t] = to]

-----------------------------------------------------------------------------
Acquire_Barging(t) == mutex' = t
Acquire(t) == mutex = 0 /\ mutex' = t

Enter(t) ==
    /\ Go(t, "start", "load") /\ Acquire(t)
    /\ UNCHANGED <<mutexMain, shared_counter, loaded, printed, buffers>>

Load(t) ==
    /\ Go(t, "load", "store") /\ loaded' = [loaded EXCEPT ![t] = shared_counter]
    /\ UNCHANGED <<mutexMain, mutex, shared_counter, printed, buffers>>

Store(t) ==
    /\ Go(t, "store", "print") /\ shared_counter' = loaded[t] + 1
    /\ UNCHANGED <<mutexMain, mutex, loaded, printed, buffers>>

\* After five seconds of sleep with the mutex held.
PrintCounter(t) ==
    /\ Go(t, "print", "malloc") /\ printed' = Append(printed, shared_counter)
    /\ UNCHANGED <<mutexMain, mutex, shared_counter, loaded, buffers>>

Alloc(t) ==
    /\ Go(t, "malloc", "unlock") /\ buffers' = buffers \union {t}
    /\ UNCHANGED <<mutexMain, mutex, shared_counter, loaded, printed>>

\* No memory: the process exits while the thread holds the mutex.
AllocFails(t) ==
    /\ Running /\ tpc[t] = "malloc" /\ phase' = "failure"
    /\ UNCHANGED <<nth, tpc, mutex, shared_counter, loaded, printed, buffers>>

Release(t) ==
    /\ Go(t, "unlock", "done") /\ mutex' = 0
    /\ UNCHANGED <<mutexMain, shared_counter, loaded, printed, buffers>>

-----------------------------------------------------------------------------
\* From one phase of main to the next, once it has been through all threads.
Through(current, following) ==
    /\ phase = current
    /\ IF nth < N THEN nth' = nth + 1 /\ UNCHANGED phase
                  ELSE nth' = 1 /\ phase' = following

InitMutex ==
    /\ phase = "init" /\ phase' \in {"create", "failure"}
    /\ UNCHANGED <<nth, tpc, mutex, shared_counter, loaded, printed, buffers>>

CreateThread ==
    /\ Through("create", "join") /\ tpc' = [tpc EXCEPT ![nth] = "start"]
    /\ UNCHANGED <<mutex, shared_counter, loaded, printed, buffers>>

\* The threads that run already end with the process.
CreateFails ==
    /\ phase = "create" /\ phase' = "failure"
    /\ UNCHANGED <<nth, tpc, mutex, shared_counter, loaded, printed, buffers>>

Freed == buffers \ {nth}

Joined_NoWait == TRUE
Joined == tpc[nth] = "done"

JoinThread ==
    /\ Joined /\ Through("join", "destroy") /\ buffers' = Freed
    /\ UNCHANGED <<tpc, mutex, shared_counter, loaded, printed>>

DestroyMutex ==
    /\ phase = "destroy" /\ phase' = "exited"
    /\ UNCHANGED <<nth, tpc, mutex, shared_counter, loaded, printed, buffers>>

-----------------------------------------------------------------------------
CounterThread(t) ==
    \/ Enter(t) \/ Load(t) \/ Store(t) \/ PrintCounter(t)
    \/ Alloc(t) \/ AllocFails(t) \/ Release(t)

CounterMain == InitMutex \/ CreateThread \/ CreateFails \/ JoinThread \/ DestroyMutex

MutexNext == CounterMain \/ \E t \in Threads : CounterThread(t)

MutexSpec == MutexInit /\ [][MutexNext]_mutexVars

-----------------------------------------------------------------------------
Critical == {"load", "store", "print", "malloc", "unlock"}

\* Every variable has its type, and a thread between lock and unlock is the
\* holder of the mutex.
MutexTypeOK ==
    /\ phase \in {"init", "create", "join", "destroy", "exited", "failure"}
    /\ nth \in Threads
    /\ tpc \in [Threads -> {"none", "start", "done"} \union Critical]
    /\ mutex \in Threads \union {0}
    /\ \A t \in Threads : tpc[t] \in Critical <=> mutex = t
    /\ shared_counter \in Nat /\ loaded \in [Threads -> Nat]
    /\ printed \in Seq(Nat) /\ buffers \subseteq Threads

\* The header of thread_mutex.c: "counter: 1", "counter: 2" in this order,
\* whoever comes first; no increment is lost and none is printed twice,
\* although a counter is printed long after it was loaded and stored.
PrintedInOrder == \A k \in 1..Len(printed) : printed[k] = k

\* When main has destroyed the mutex and exits with success, nobody holds the
\* mutex, each thread was counted and printed, and each buffer was freed.
CleanExit ==
    phase = "exited" => /\ mutex = 0 /\ buffers = {}
                        /\ shared_counter = N /\ Len(printed) = N
=============================================================================
