--------------------------- MODULE ThreadsProofs ----------------------------
(***************************************************************************)
(* Proofs about the programs of threads.  CondVar: that the packet is in   *)
(* one place is not inductive alone, the mutex keeps a receiver out of the *)
(* steps between the sender's test and its reset of the flag, and until    *)
(* the receiver has delivered there is no packet at all.  MutexCounter,    *)
(* for every number of threads: that the counter is printed in order rests *)
(* on Counted, outside one increment and its print the counter is the      *)
(* number of values printed; that main ends clean rests on EachOnce, which *)
(* counts the threads that have printed, and on Lifecycle, which says      *)
(* whose buffers are there.  SemThreads, for every value of the semaphore: *)
(* main keeps ahead of what the threads may take one after the other       *)
(* (Enough).                                                               *)
(***************************************************************************)
EXTENDS CondVar, MutexCounter, SemThreads, FiniteSetTheorems, TLAPS

-----------------------------------------------------------------------------
(* CondVar *)

\* The sender has its copy only after it took it, and nobody waits for a
\* packet that is there.
Taken ==
    /\ rpc \in {"none", "start", "deliver"} => ~is_packet_received /\ ~copy
    /\ spc \notin {"clear", "unlock", "done"} => ~copy
    /\ spc = "clear" => copy = is_packet_received
    /\ spc = "clear" /\ rpc \in {"unlock", "done"} => copy
    /\ spc = "waiting" => ~is_packet_received

\* A thread does nothing before main creates it.
Started ==
    /\ main = "create1" => rpc = "none"
    /\ main \in {"create1", "sleep", "create2"} => spc = "none"

PacketInv == TypeOK /\ Started /\ Taken /\ Conservation

LEMMA PacketStarts == Init => PacketInv
BY DEF Init, PacketInv, TypeOK, Started, Taken, Conservation

\* Each step keeps each part.
LEMMA PacketStep == PacketInv /\ [Next]_vars => PacketInv'
<1> SUFFICES ASSUME PacketInv, [Next]_vars PROVE PacketInv'
  OBVIOUS
<1> USE DEF PacketInv
<1>1. CASE Main
  <2>1. TypeOK'
    BY <1>1 DEF Main, Create, Join, TypeOK, Started
  <2>2. Started'
    BY <1>1 DEF Main, Create, Join, Started
  <2>3. Taken'
    BY <1>1 DEF Main, Create, Join, Started, Taken
  <2>4. Conservation'
    BY <1>1 DEF Main, Create, Join, Started, Conservation
  <2> QED  BY <2>1, <2>2, <2>3, <2>4
<1>2. CASE RLock
  <2>1. TypeOK'
    BY <1>2 DEF RLock, Receive, Lock, TypeOK
  <2>2. Started'
    BY <1>2 DEF RLock, Receive, Started
  <2>3. Taken'
    BY <1>2 DEF RLock, Receive, Taken
  <2>4. Conservation'
    BY <1>2 DEF RLock, Receive, Conservation
  <2> QED  BY <2>1, <2>2, <2>3, <2>4
<1>3. CASE RDeliver
  <2>1. TypeOK'
    BY <1>3 DEF RDeliver, Receive, Signal, TypeOK
  <2>2. Started'
    BY <1>3 DEF RDeliver, Receive, Signal, Started
  <2>3. Taken'
    BY <1>3 DEF RDeliver, Receive, Signal, TypeOK, Taken
  <2>4. Conservation'
    BY <1>3 DEF RDeliver, Receive, Taken, Conservation
  <2> QED  BY <2>1, <2>2, <2>3, <2>4
<1>4. CASE RUnlock
  <2>1. TypeOK'
    BY <1>4 DEF RUnlock, Receive, Unlock, TypeOK
  <2>2. Started'
    BY <1>4 DEF RUnlock, Receive, Started
  <2>3. Taken'
    BY <1>4 DEF RUnlock, Receive, Taken
  <2>4. Conservation'
    BY <1>4 DEF RUnlock, Receive, Conservation
  <2> QED  BY <2>1, <2>2, <2>3, <2>4
<1>5. CASE SClock
  <2>1. TypeOK'
    BY <1>5 DEF SClock, Send, TypeOK
  <2>2. Started'
    BY <1>5 DEF SClock, Send, Started
  <2>3. Taken'
    BY <1>5 DEF SClock, Send, Taken
  <2>4. Conservation'
    BY <1>5 DEF SClock, Send, Conservation
  <2> QED  BY <2>1, <2>2, <2>3, <2>4
<1>6. CASE Expire
  <2>1. TypeOK'
    BY <1>6 DEF Expire, TypeOK
  <2>2. Started'
    BY <1>6 DEF Expire, Started
  <2>3. Taken'
    BY <1>6 DEF Expire, Taken
  <2>4. Conservation'
    BY <1>6 DEF Expire, Conservation
  <2> QED  BY <2>1, <2>2, <2>3, <2>4
<1>7. CASE SLock
  <2>1. TypeOK'
    BY <1>7 DEF SLock, Send, Lock, TypeOK
  <2>2. Started'
    BY <1>7 DEF SLock, Send, Started
  <2>3. Taken'
    BY <1>7 DEF SLock, Send, Taken
  <2>4. Conservation'
    BY <1>7 DEF SLock, Send, Conservation
  <2> QED  BY <2>1, <2>2, <2>3, <2>4
<1>8. CASE STest
  <2>1. TypeOK'
    BY <1>8 DEF STest, Send, TypeOK
  <2>2. Started'
    BY <1>8 DEF STest, Send, Started
  <2>3. Taken'
    BY <1>8 DEF STest, Send, Taken
  <2>4. Conservation'
    BY <1>8 DEF STest, Send, Conservation
  <2> QED  BY <2>1, <2>2, <2>3, <2>4
<1>9. CASE Timeout
  <2>1. TypeOK'
    BY <1>9 DEF Timeout, Send, TypeOK
  <2>2. Started'
    BY <1>9 DEF Timeout, Send, Started
  <2>3. Taken'
    BY <1>9 DEF Timeout, Send, Taken
  <2>4. Conservation'
    BY <1>9 DEF Timeout, Send, Conservation
  <2> QED  BY <2>1, <2>2, <2>3, <2>4
<1>10. CASE Spurious
  <2>1. TypeOK'
    BY <1>10 DEF Spurious, Send, TypeOK
  <2>2. Started'
    BY <1>10 DEF Spurious, Send, Started
  <2>3. Taken'
    BY <1>10 DEF Spurious, Send, Taken
  <2>4. Conservation'
    BY <1>10 DEF Spurious, Send, Conservation
  <2> QED  BY <2>1, <2>2, <2>3, <2>4
<1>11. CASE SRelock
  <2>1. TypeOK'
    BY <1>11 DEF SRelock, Send, Lock, TypeOK
  <2>2. Started'
    BY <1>11 DEF SRelock, Send, Started
  <2>3. Taken'
    BY <1>11 DEF SRelock, Send, Taken
  <2>4. Conservation'
    BY <1>11 DEF SRelock, Send, Conservation
  <2> QED  BY <2>1, <2>2, <2>3, <2>4
<1>12. CASE SCopy
  <2>1. TypeOK'
    BY <1>12 DEF SCopy, Send, TypeOK
  <2>2. Started'
    BY <1>12 DEF SCopy, Send, Started
  <2>3. Taken'
    BY <1>12 DEF SCopy, Send, TypeOK, Taken, Conservation
  <2>4. Conservation'
    BY <1>12 DEF SCopy, Send, Conservation
  <2> QED  BY <2>1, <2>2, <2>3, <2>4
<1>13. CASE SClear
  <2>1. TypeOK'
    BY <1>13 DEF SClear, Send, TypeOK
  <2>2. Started'
    BY <1>13 DEF SClear, Send, Started
  <2>3. Taken'
    BY <1>13 DEF SClear, Send, Taken
  <2>4. Conservation'
    BY <1>13 DEF SClear, Send, Taken, Conservation
  <2> QED  BY <2>1, <2>2, <2>3, <2>4
<1>14. CASE SUnlock
  <2>1. TypeOK'
    BY <1>14 DEF SUnlock, Send, Unlock, TypeOK
  <2>2. Started'
    BY <1>14 DEF SUnlock, Send, Started
  <2>3. Taken'
    BY <1>14 DEF SUnlock, Send, Taken
  <2>4. Conservation'
    BY <1>14 DEF SUnlock, Send, Conservation
  <2> QED  BY <2>1, <2>2, <2>3, <2>4
<1>15. CASE UNCHANGED vars
  BY <1>15 DEF vars, TypeOK, Started, Taken, Conservation
<1> QED
  BY <1>1, <1>2, <1>3, <1>4, <1>5, <1>6, <1>7, <1>8, <1>9, <1>10, <1>11, <1>12,
     <1>13, <1>14, <1>15 DEF Next, Receiver, Sender, Ended

\* The parts together hold in every state.
THEOREM PacketInvariant == Spec => []PacketInv
<1> QED  BY PacketStarts, PacketStep, PTL DEF Spec

\* Every variable keeps its type and the mutex excludes: a thread that is
\* between its lock and its unlock holds it, so never both are.
THEOREM PacketTypeCorrect == Spec => []TypeOK
<1>1. PacketInv => TypeOK
  BY DEF PacketInv
<1> QED  BY <1>1, PacketInvariant, PTL

\* The packet is in exactly one place once it was delivered, in every order of
\* the threads, the timeout and spurious wakeups.
THEOREM PacketIsConserved == Spec => []Conservation
<1>1. PacketInv => Conservation
  BY DEF PacketInv
<1> QED  BY <1>1, PacketInvariant, PTL

\* No wakeup is lost: nobody waits for a packet that is there.
THEOREM WakeupsAreNotLost == Spec => []NoLostWakeup
<1>1. PacketInv => NoLostWakeup
  BY DEF PacketInv, Taken, NoLostWakeup
<1> QED  BY <1>1, PacketInvariant, PTL

-----------------------------------------------------------------------------
(* MutexCounter *)

\* The counter is one ahead between an increment and its print, and what a
\* thread has loaded is still the counter when it stores.
Counted ==
    /\ shared_counter =
         Len(printed) + (IF \E t \in Threads : tpc[t] = "print" THEN 1 ELSE 0)
    /\ \A t \in Threads : tpc[t] = "store" => loaded[t] = shared_counter

PrintedBy == {t \in Threads : tpc[t] \in {"malloc", "unlock", "done"}}

\* Each of these threads has printed once.
EachOnce == Len(printed) = Cardinality(PrintedBy)

\* The threads whose malloc has returned.
Allocated == {t \in Threads : tpc[t] \in {"unlock", "done"}}

\* Where main is, which threads exist, and which buffers it has freed.
Lifecycle ==
    /\ phase = "init" => nth = 1
    /\ phase \in {"init", "create"} =>
         /\ \A t \in Threads : t >= nth => tpc[t] = "none"
         /\ buffers = Allocated
    /\ phase = "join" =>
         /\ \A t \in Threads : t < nth => tpc[t] = "done"
         /\ buffers = {t \in Allocated : t >= nth}
    /\ phase \in {"destroy", "exited"} =>
         /\ \A t \in Threads : tpc[t] = "done"
         /\ buffers = {}

MutexInv == MutexTypeOK /\ PrintedInOrder /\ Counted /\ EachOnce /\ Lifecycle

LEMMA MutexStarts == MutexInit => MutexInv
<1> SUFFICES ASSUME MutexInit PROVE MutexInv
  OBVIOUS
<1>1. MutexTypeOK /\ PrintedInOrder /\ Counted /\ Lifecycle
  BY NAssumption DEF MutexInit, MutexTypeOK, Critical, Threads, PrintedInOrder,
     Counted, Lifecycle, Allocated
<1>2. PrintedBy = {}
  BY DEF MutexInit, PrintedBy
<1>3. EachOnce
  BY <1>2, FS_EmptySet DEF MutexInit, EachOnce
<1> QED  BY <1>1, <1>3 DEF MutexInv

\* One more thread has printed.
LEMMA OneMore ==
    ASSUME NEW t \in Threads, t \notin PrintedBy, PrintedBy' = PrintedBy \union {t}
    PROVE  Cardinality(PrintedBy)' = Cardinality(PrintedBy) + 1
<1>1. IsFiniteSet(Threads)
  BY FS_Interval, NAssumption DEF Threads
<1>2. IsFiniteSet(PrintedBy)
  BY <1>1, FS_Subset DEF PrintedBy
<1> QED  BY <1>2, FS_AddElement

\* While one thread is between its lock and its unlock, no other is.
LEMMA OneInside ==
    ASSUME MutexTypeOK, NEW t \in Threads, tpc[t] \in Critical
    PROVE  \A u \in Threads : u # t => tpc[u] \notin Critical
BY DEF MutexTypeOK

-----------------------------------------------------------------------------
\* A step of a thread keeps each part.
LEMMA ThreadStep ==
    ASSUME MutexInv, NEW t \in Threads, CounterThread(t)
    PROVE  MutexInv'
<1> USE DEF Go, Running
<1>1. CASE Enter(t)
  <2>1. MutexTypeOK'
    BY <1>1 DEF MutexInv, Enter, Acquire, mutexMain, MutexTypeOK, Critical, Threads
  <2>2. PrintedInOrder' /\ Counted'
    BY <1>1 DEF MutexInv, Enter, PrintedInOrder, Counted, MutexTypeOK
  <2>3. PrintedBy' = PrintedBy /\ Allocated' = Allocated
    BY <1>1 DEF MutexInv, Enter, PrintedBy, Allocated, MutexTypeOK
  <2>4. EachOnce'
    BY <1>1, <2>3 DEF MutexInv, Enter, EachOnce
  <2>5. Lifecycle'
    BY <1>1, <2>3 DEF MutexInv, Enter, Lifecycle, mutexMain, MutexTypeOK, Threads
  <2> QED  BY <2>1, <2>2, <2>4, <2>5 DEF MutexInv
<1>2. CASE Load(t)
  <2>1. MutexTypeOK'
    BY <1>2 DEF MutexInv, Load, mutexMain, MutexTypeOK, Critical, Threads
  <2>2. PrintedInOrder' /\ Counted'
    BY <1>2 DEF MutexInv, Load, PrintedInOrder, Counted, MutexTypeOK
  <2>3. PrintedBy' = PrintedBy /\ Allocated' = Allocated
    BY <1>2 DEF MutexInv, Load, PrintedBy, Allocated, MutexTypeOK
  <2>4. EachOnce'
    BY <1>2, <2>3 DEF MutexInv, Load, EachOnce
  <2>5. Lifecycle'
    BY <1>2, <2>3 DEF MutexInv, Load, Lifecycle, mutexMain, MutexTypeOK, Threads
  <2> QED  BY <2>1, <2>2, <2>4, <2>5 DEF MutexInv
<1>3. CASE Store(t)
  <2>0. \A u \in Threads : u # t => tpc[u] \notin Critical
    BY <1>3, OneInside DEF MutexInv, Store, Critical
  <2>1. MutexTypeOK'
    BY <1>3 DEF MutexInv, Store, mutexMain, MutexTypeOK, Critical, Threads
  <2>2. PrintedInOrder'
    BY <1>3 DEF MutexInv, Store, PrintedInOrder
  <2>3. Counted'
    BY <1>3, <2>0 DEF MutexInv, Store, Counted, MutexTypeOK, Critical
  <2>4. PrintedBy' = PrintedBy /\ Allocated' = Allocated
    BY <1>3 DEF MutexInv, Store, PrintedBy, Allocated, MutexTypeOK
  <2>5. EachOnce'
    BY <1>3, <2>4 DEF MutexInv, Store, EachOnce
  <2>6. Lifecycle'
    BY <1>3, <2>4 DEF MutexInv, Store, Lifecycle, mutexMain, MutexTypeOK, Threads
  <2> QED  BY <2>1, <2>2, <2>3, <2>5, <2>6 DEF MutexInv
<1>4. CASE PrintCounter(t)
  <2>0. \A u \in Threads : u # t => tpc[u] \notin Critical
    BY <1>4, OneInside DEF MutexInv, PrintCounter, Critical
  <2>1. MutexTypeOK'
    BY <1>4 DEF MutexInv, PrintCounter, mutexMain, MutexTypeOK, Critical, Threads
  <2>2. shared_counter = Len(printed) + 1 /\ printed \in Seq(Nat)
    BY <1>4 DEF MutexInv, PrintCounter, Counted, MutexTypeOK
  <2>3. PrintedInOrder'
    BY <1>4, <2>2 DEF MutexInv, PrintCounter, PrintedInOrder, MutexTypeOK
  <2>4. Counted'
    BY <1>4, <2>0, <2>2 DEF MutexInv, PrintCounter, Counted, MutexTypeOK, Critical
  <2>5. PrintedBy' = PrintedBy \union {t} /\ t \notin PrintedBy /\ Allocated' = Allocated
    BY <1>4 DEF MutexInv, PrintCounter, PrintedBy, Allocated, MutexTypeOK
  <2>6. EachOnce'
    <3>1. Cardinality(PrintedBy)' = Cardinality(PrintedBy) + 1
      BY <2>5, OneMore
    <3>2. Len(printed)' = Len(printed) + 1
      BY <1>4, <2>2 DEF PrintCounter
    <3> QED  BY <3>1, <3>2 DEF MutexInv, EachOnce
  <2>7. Lifecycle'
    BY <1>4, <2>5 DEF MutexInv, PrintCounter, Lifecycle, mutexMain, MutexTypeOK, Threads
  <2> QED  BY <2>1, <2>3, <2>4, <2>6, <2>7 DEF MutexInv
<1>5. CASE Alloc(t)
  <2>1. MutexTypeOK'
    BY <1>5 DEF MutexInv, Alloc, mutexMain, MutexTypeOK, Critical, Threads
  <2>2. PrintedInOrder' /\ Counted'
    BY <1>5 DEF MutexInv, Alloc, PrintedInOrder, Counted, MutexTypeOK
  <2>3. PrintedBy' = PrintedBy /\ Allocated' = Allocated \union {t}
    BY <1>5 DEF MutexInv, Alloc, PrintedBy, Allocated, MutexTypeOK
  <2>4. EachOnce'
    BY <1>5, <2>3 DEF MutexInv, Alloc, EachOnce
  <2>5. Lifecycle'
    BY <1>5, <2>3 DEF MutexInv, Alloc, Lifecycle, mutexMain, MutexTypeOK, Threads
  <2> QED  BY <2>1, <2>2, <2>4, <2>5 DEF MutexInv
<1>6. CASE AllocFails(t)
  <2>1. MutexTypeOK' /\ PrintedInOrder' /\ Counted' /\ Lifecycle'
    BY <1>6 DEF MutexInv, AllocFails, MutexTypeOK, PrintedInOrder, Counted, Lifecycle
  <2>2. EachOnce'
    BY <1>6 DEF MutexInv, AllocFails, EachOnce, PrintedBy
  <2> QED  BY <2>1, <2>2 DEF MutexInv
<1>7. CASE Release(t)
  <2>1. MutexTypeOK'
    BY <1>7 DEF MutexInv, Release, mutexMain, MutexTypeOK, Critical, Threads
  <2>2. PrintedInOrder' /\ Counted'
    BY <1>7 DEF MutexInv, Release, PrintedInOrder, Counted, MutexTypeOK
  <2>3. PrintedBy' = PrintedBy /\ Allocated' = Allocated
    BY <1>7 DEF MutexInv, Release, PrintedBy, Allocated, MutexTypeOK
  <2>4. EachOnce'
    BY <1>7, <2>3 DEF MutexInv, Release, EachOnce
  <2>5. Lifecycle'
    BY <1>7, <2>3 DEF MutexInv, Release, Lifecycle, mutexMain, MutexTypeOK, Threads
  <2> QED  BY <2>1, <2>2, <2>4, <2>5 DEF MutexInv
<1> QED
  BY <1>1, <1>2, <1>3, <1>4, <1>5, <1>6, <1>7 DEF CounterThread

-----------------------------------------------------------------------------
\* A step of main keeps each part.
LEMMA MainStep ==
    ASSUME MutexInv, CounterMain
    PROVE  MutexInv'
<1>0. N \in Nat /\ N >= 1 /\ nth \in 1..N
  BY NAssumption DEF MutexInv, MutexTypeOK, Threads
<1>1. CASE InitMutex
  <2>1. MutexTypeOK' /\ PrintedInOrder' /\ Counted'
    BY <1>1 DEF MutexInv, InitMutex, MutexTypeOK, PrintedInOrder, Counted
  <2>2. EachOnce'
    BY <1>1 DEF MutexInv, InitMutex, EachOnce, PrintedBy
  <2>3. Lifecycle'
    BY <1>1 DEF MutexInv, InitMutex, Lifecycle, Allocated
  <2> QED  BY <2>1, <2>2, <2>3 DEF MutexInv
<1>2. CASE CreateThread
  <2>1. tpc[nth] = "none" /\ tpc' = [tpc EXCEPT ![nth] = "start"]
    BY <1>2, <1>0 DEF MutexInv, Lifecycle, CreateThread, Through, Threads
  <2>2. MutexTypeOK'
    <3>1. nth' \in Threads /\ phase' \in {"create", "join"}
      BY <1>2, <1>0 DEF MutexInv, CreateThread, Through, Threads
    <3>2. \A t \in Threads : tpc'[t] = IF t = nth THEN "start" ELSE tpc[t]
      BY <2>1 DEF MutexInv, MutexTypeOK
    <3>3. \A t \in Threads : tpc'[t] \in Critical <=> mutex = t
      BY <2>1, <3>2 DEF MutexInv, MutexTypeOK, Critical
    <3>4. tpc' \in [Threads -> {"none", "start", "done"} \union Critical]
      BY <2>1 DEF MutexInv, MutexTypeOK
    <3> QED  BY <1>2, <3>1, <3>3, <3>4 DEF MutexInv, CreateThread, MutexTypeOK
  <2>3. PrintedInOrder' /\ Counted'
    BY <1>2, <2>1 DEF MutexInv, CreateThread, PrintedInOrder, Counted, MutexTypeOK
  <2>4. PrintedBy' = PrintedBy /\ Allocated' = Allocated
    BY <2>1 DEF MutexInv, PrintedBy, Allocated, MutexTypeOK
  <2>5. EachOnce'
    BY <1>2, <2>4 DEF MutexInv, CreateThread, EachOnce
  <2>6. Lifecycle'
    BY <1>2, <1>0, <2>1, <2>4
       DEF MutexInv, CreateThread, Through, Lifecycle, Allocated, MutexTypeOK, Threads
  <2> QED  BY <2>2, <2>3, <2>5, <2>6 DEF MutexInv
<1>3. CASE CreateFails
  <2>1. MutexTypeOK' /\ PrintedInOrder' /\ Counted' /\ Lifecycle'
    BY <1>3 DEF MutexInv, CreateFails, MutexTypeOK, PrintedInOrder, Counted, Lifecycle
  <2>2. EachOnce'
    BY <1>3 DEF MutexInv, CreateFails, EachOnce, PrintedBy
  <2> QED  BY <2>1, <2>2 DEF MutexInv
<1>4. CASE JoinThread
  <2>1. MutexTypeOK'
    BY <1>4, <1>0 DEF MutexInv, JoinThread, Through, Freed, MutexTypeOK, Threads
  <2>2. PrintedInOrder' /\ Counted'
    BY <1>4 DEF MutexInv, JoinThread, PrintedInOrder, Counted
  <2>3. EachOnce'
    BY <1>4 DEF MutexInv, JoinThread, EachOnce, PrintedBy
  <2>4. Lifecycle'
    <3>1. CASE nth < N
      BY <1>4, <1>0, <3>1
         DEF MutexInv, JoinThread, Joined, Through, Freed, Lifecycle, Allocated, Threads
    <3>2. CASE nth = N
      BY <1>4, <1>0, <3>2
         DEF MutexInv, JoinThread, Joined, Through, Freed, Lifecycle, Allocated, Threads
    <3> QED  BY <1>0, <3>1, <3>2
  <2> QED  BY <2>1, <2>2, <2>3, <2>4 DEF MutexInv
<1>5. CASE DestroyMutex
  <2>1. MutexTypeOK' /\ PrintedInOrder' /\ Counted' /\ Lifecycle'
    BY <1>5 DEF MutexInv, DestroyMutex, MutexTypeOK, PrintedInOrder, Counted, Lifecycle
  <2>2. EachOnce'
    BY <1>5 DEF MutexInv, DestroyMutex, EachOnce, PrintedBy
  <2> QED  BY <2>1, <2>2 DEF MutexInv
<1> QED
  BY <1>1, <1>2, <1>3, <1>4, <1>5 DEF CounterMain

\* The parts together hold in every state.
THEOREM MutexInvariant == MutexSpec => []MutexInv
<1>1. MutexInv /\ UNCHANGED mutexVars => MutexInv'
  BY DEF mutexVars, MutexInv, MutexTypeOK, PrintedInOrder, Counted, EachOnce, PrintedBy,
     Lifecycle, Allocated
<1>2. MutexInv /\ [MutexNext]_mutexVars => MutexInv'
  BY <1>1, ThreadStep, MainStep DEF MutexNext
<1> QED  BY MutexStarts, <1>2, PTL DEF MutexSpec

-----------------------------------------------------------------------------
\* Every variable keeps its type, and one thread at a time is inside.
THEOREM MutexTypeCorrect == MutexSpec => []MutexTypeOK
<1>1. MutexInv => MutexTypeOK
  BY DEF MutexInv
<1> QED  BY <1>1, MutexInvariant, PTL

\* The values printed are 1, 2, 3, ... for any number of threads.
THEOREM CounterInOrder == MutexSpec => []PrintedInOrder
<1>1. MutexInv => PrintedInOrder
  BY DEF MutexInv
<1> QED  BY <1>1, MutexInvariant, PTL

\* A main that reached its exit has joined, counted and freed every thread.
THEOREM MainEndsClean == MutexSpec => []CleanExit
<1>1. MutexInv => CleanExit
  <2> SUFFICES ASSUME MutexInv, phase = "exited"
               PROVE  /\ mutex = 0 /\ buffers = {}
                      /\ shared_counter = N /\ Len(printed) = N
    BY DEF CleanExit
  <2>1. buffers = {} /\ \A t \in Threads : tpc[t] = "done"
    BY DEF MutexInv, Lifecycle
  <2>2. mutex = 0
    BY <2>1 DEF MutexInv, MutexTypeOK, Critical
  <2>3. PrintedBy = 1..N
    BY <2>1 DEF PrintedBy, Threads
  <2>4. Cardinality(1..N) = N
    BY FS_Interval, NAssumption
  <2>5. Len(printed) = N
    BY <2>3, <2>4 DEF MutexInv, EachOnce
  <2>6. shared_counter = N
    BY <2>1, <2>5, NAssumption DEF MutexInv, Counted
  <2> QED  BY <2>1, <2>2, <2>5, <2>6
<1> QED  BY <1>1, MutexInvariant, PTL

-----------------------------------------------------------------------------
(* SemThreads *)

Inside == {t \in Detached : dpc[t] = "in"}

\* A thread is created in its turn, and whoever is not inside is not early.
InTurn ==
    /\ mstep \in {"attr", "1"} => \A t \in Detached : dpc[t] = "none"
    /\ mstep = "2" => dpc[1] # "none" /\ dpc[2] = "none" /\ dpc[3] = "none"
    /\ mstep = "3" => dpc[1] # "none" /\ dpc[2] # "none" /\ dpc[3] = "none"
    /\ mstep \in {"destroy", "sleep", "exited"} => \A t \in Detached : dpc[t] # "none"
    /\ \A t \in Detached : dpc[t] # "in" => dleft[t] <= 0

LEMMA DetachedSet == Detached = {1, 2, 3} /\ IsFiniteSet(Detached)
<1>1. Detached = {1, 2, 3}
  BY DEF Detached
<1>2. 1 \in Int /\ 3 \in Int
  OBVIOUS
<1>3. IsFiniteSet(1..3)
  BY <1>2, FS_Interval, Zenon
<1> QED  BY <1>1, <1>3 DEF Detached

LEMMA InsideCount ==
    /\ IsFiniteSet(Inside) /\ Cardinality(Inside) \in Nat
    /\ Cardinality(Inside) = 0 <=> \A t \in Detached : dpc[t] # "in"
<1>1. Inside \in SUBSET Detached
  BY DEF Inside
<1>2. IsFiniteSet(Inside) /\ Cardinality(Inside) \in Nat
  BY <1>1, DetachedSet, FS_Subset, FS_CardinalityType
<1>3. Cardinality(Inside) = 0 <=> Inside = {}
  BY <1>2, FS_EmptySet
<1> QED  BY <1>2, <1>3 DEF Inside

LEMMA SemTypes == SemTypeOK /\ InTurn /\ [SemNext]_semVars => SemTypeOK' /\ InTurn'
<1> SUFFICES ASSUME SemTypeOK, InTurn, [SemNext]_semVars PROVE SemTypeOK' /\ InTurn'
  OBVIOUS
<1> USE SemAssumption, DetachedSet
<1>0. SemTypeOK = (/\ mstep \in {"attr", "1", "2", "3", "destroy", "sleep", "exited", "failure"}
                   /\ mleft \in -Lag..30
                   /\ dpc \in [Detached -> {"none", "wait", "in", "done", "failed"}]
                   /\ dleft \in [Detached -> -Lag..4]
                   /\ sem \in 0..SemValue
                   /\ Cardinality(Inside) + sem = SemValue)
  BY DEF SemTypeOK, Inside
<1>1. CASE Attributes
  BY <1>1 DEF Attributes, SemTypeOK, InTurn
<1>2. CASE DestroySem
  BY <1>2 DEF DestroySem, SemTypeOK, InTurn
<1>3. CASE ExitMain
  BY <1>3 DEF ExitMain, SemTypeOK, InTurn
<1>4. CASE Tick
  <2>1. SemTypeOK'
    BY <1>4 DEF Tick, Counts, SemTypeOK
  <2>2. InTurn'
    BY <1>4 DEF Tick, Counts, SemTypeOK, InTurn
  <2> QED  BY <2>1, <2>2
<1>5. ASSUME NEW t \in Detached, CreateDetached(t)
      PROVE  SemTypeOK' /\ InTurn'
  <2>1. dpc[t] = "none" /\ dpc \in [Detached -> {"none", "wait", "in", "done", "failed"}]
    BY <1>5 DEF CreateDetached, MainSteps, InTurn, SemTypeOK
  <2>2. PICK outcome \in {"wait", "failed"} : dpc' = [dpc EXCEPT ![t] = outcome]
    BY <1>5 DEF CreateDetached
  <2>3. Inside' = Inside
    BY <2>1, <2>2 DEF Inside
  <2>4. mstep' \in {"2", "3", "destroy"} /\ mleft' \in {0, 2}
    BY <1>5 DEF CreateDetached, MainSteps
  <2>5. SemTypeOK'
    BY <1>0, <1>5, <2>1, <2>2, <2>3, <2>4 DEF CreateDetached, SemTypeOK, Inside
  <2>6. InTurn'
    BY <1>5, <2>1, <2>2 DEF CreateDetached, MainSteps, InTurn
  <2> QED  BY <2>5, <2>6
<1>6. ASSUME NEW t \in Detached, SemWait(t)
      PROVE  SemTypeOK' /\ InTurn'
  <2>1. /\ dpc \in [Detached -> {"none", "wait", "in", "done", "failed"}] /\ dpc[t] = "wait"
        /\ dpc' = [dpc EXCEPT ![t] = "in"]
    BY <1>6 DEF SemWait, SemTypeOK
  <2>2. Inside' = Inside \union {t} /\ t \notin Inside
    BY <2>1 DEF Inside
  <2>3. Cardinality(Inside)' = Cardinality(Inside) + 1
    BY <2>2, InsideCount, FS_AddElement
  <2>4. SemTypeOK'
    BY <1>0, <1>6, <2>1, <2>3, InsideCount DEF SemWait, SemTypeOK, Inside
  <2>5. InTurn'
    BY <1>6, <2>1 DEF SemWait, InTurn, SemTypeOK
  <2> QED  BY <2>4, <2>5
<1>7. ASSUME NEW t \in Detached, SemPost(t)
      PROVE  SemTypeOK' /\ InTurn'
  <2>1. /\ dpc \in [Detached -> {"none", "wait", "in", "done", "failed"}] /\ dpc[t] = "in"
        /\ dpc' = [dpc EXCEPT ![t] = "done"]
    BY <1>7 DEF SemPost, SemTypeOK
  <2>2. Inside' = Inside \ {t} /\ t \in Inside
    BY <2>1 DEF Inside
  <2>3. Cardinality(Inside)' = Cardinality(Inside) - 1 /\ Cardinality(Inside)' \in Nat
    BY <2>2, InsideCount, FS_RemoveElement, FS_CardinalityType
  <2>4. SemTypeOK'
    BY <1>0, <1>7, <2>1, <2>3, InsideCount DEF SemPost, Posted, SemTypeOK, Inside
  <2>5. InTurn'
    BY <1>7, <2>1 DEF SemPost, InTurn, SemTypeOK
  <2> QED  BY <2>4, <2>5
<1>8. CASE UNCHANGED semVars
  BY <1>8 DEF semVars, SemTypeOK, InTurn
<1> QED
  BY <1>1, <1>2, <1>3, <1>4, <1>5, <1>6, <1>7, <1>8 DEF SemNext

\* What a thread may still take once the semaphore is free for it, and what is
\* left for main before it exits.
Stay == 4 + 2 * Lag

Left(t) ==
    CASE dpc[t] \in {"none", "wait"} -> Stay
      [] dpc[t] = "in" -> dleft[t] + Lag
      [] OTHER -> 0

Work == Left(1) + Left(2) + Left(3)

Positive(n) == IF n > 0 THEN n ELSE 0

Until ==
    CASE mstep \in {"attr", "1"} -> Positive(mleft) + 34
      [] mstep = "2" -> Positive(mleft) + 32
      [] mstep \in {"3", "destroy"} -> Positive(mleft) + 30
      [] mstep = "sleep" -> Positive(mleft)
      [] OTHER -> 0

Unfinished == \E t \in Detached : dpc[t] \in {"wait", "in"}

\* Nobody is inside and somebody has been kept from getting in for c seconds.
Idle(c) ==
    /\ \A t \in Detached : dpc[t] # "in"
    /\ \E t \in Detached : dpc[t] = "wait" /\ dleft[t] <= -c

\* The threads, one after the other, will be through before main exits.
Enough ==
    mstep # "failure" /\ Unfinished =>
        \E c \in 0..Lag : Work - c < Until /\ (c > 0 => Idle(c))

Durations ==
    /\ \A t \in Detached : Left(t) \in Nat
    /\ Left(1) \in Nat /\ Left(2) \in Nat /\ Left(3) \in Nat
    /\ Work \in Nat /\ Until \in Nat /\ Stay \in Nat /\ Lag \in Nat

LEMMA LeftTypes == SemTypeOK => Durations
<1> SUFFICES ASSUME SemTypeOK PROVE Durations
  OBVIOUS
<1>1. \A t \in Detached : Left(t) \in Nat
  BY SemAssumption DEF SemTypeOK, Left, Stay
<1>2. Left(1) \in Nat /\ Left(2) \in Nat /\ Left(3) \in Nat
  BY <1>1, DetachedSet
<1>3. Until \in Nat
  BY SemAssumption DEF SemTypeOK, Until, Positive
<1> QED  BY <1>1, <1>2, <1>3, SemAssumption DEF Durations, Work, Stay

LEMMA NextLeftTypes == SemTypeOK' => Durations'
BY LeftTypes, PTL

\* Nobody takes longer than before.
LEMMA NotMore ==
    ASSUME SemTypeOK, SemTypeOK', \A t \in Detached : Left(t)' <= Left(t)
    PROVE  /\ Work' <= Work
           /\ \A t \in Detached : Work' <= Work - (Left(t) - Left(t)')
<1>1. /\ Left(1) \in Nat /\ Left(2) \in Nat /\ Left(3) \in Nat
      /\ Left(1)' \in Nat /\ Left(2)' \in Nat /\ Left(3)' \in Nat
  BY LeftTypes, NextLeftTypes DEF Durations
<1>2. Left(1)' <= Left(1) /\ Left(2)' <= Left(2) /\ Left(3)' <= Left(3)
  BY DetachedSet
<1>3. Work = Left(1) + Left(2) + Left(3) /\ Work' = Left(1)' + Left(2)' + Left(3)'
  BY DEF Work
<1>4. Work' <= Work
  BY <1>1, <1>2, <1>3
<1>5. /\ Work' <= Work - (Left(1) - Left(1)')
      /\ Work' <= Work - (Left(2) - Left(2)')
      /\ Work' <= Work - (Left(3) - Left(3)')
  BY <1>1, <1>2, <1>3
<1> QED  BY <1>4, <1>5, DetachedSet

\* Main keeps ahead of the threads if they take less and it has not less, or
\* one second of both passes.
LEMMA StaysAhead ==
    ASSUME NEW w \in Nat, NEW u \in Nat, NEW c \in Nat, w - c < u,
           NEW z \in Nat, NEW v \in Nat
    PROVE  /\ z <= w /\ u <= v => z - c < v
           /\ z <= w /\ u - 1 <= v => z - (c + 1) < v
           /\ z <= w - 1 /\ u - 1 <= v => z - c < v
OBVIOUS

\* Nothing more is to be shown where the threads need less than there is.
LEMMA SimplyEnough ==
    ASSUME SemTypeOK', mstep' # "failure" => Work' < Until'
    PROVE  Enough'
<1>1. \A w, u \in Nat : w < u => w - 0 < u
  OBVIOUS
<1>2. Work' \in Nat /\ Until' \in Nat /\ Lag \in Nat
  BY NextLeftTypes DEF Durations
<1>3. mstep' # "failure" => Work' - 0 < Until'
  BY <1>1, <1>2, Zenon
<1>4. 0 \in 0..Lag /\ ~(0 > 0)
  BY <1>2
<1> QED  BY <1>3, <1>4, Zenon DEF Enough

\* A second that passes is one that somebody used, inside or kept from there.
LEMMA TickIsEnough ==
    ASSUME SemTypeOK, SemTypeOK', InTurn, Enough, Tick
    PROVE  Enough'
<1> SUFFICES ASSUME mstep # "failure", Unfinished
             PROVE  \E c \in 0..Lag : Work' - c < Until' /\ (c > 0 => Idle(c)')
  BY DEF Enough, Tick, Unfinished
<1>1. PICK c \in 0..Lag : Work - c < Until /\ (c > 0 => Idle(c))
  BY DEF Enough
<1>2. /\ Work \in Nat /\ Until \in Nat /\ Work' \in Nat /\ Until' \in Nat /\ Lag \in Nat
      /\ \A t \in Detached : Left(t) \in Nat /\ Left(t)' \in Nat
  BY LeftTypes, NextLeftTypes DEF Durations
<1>3. Until - 1 <= Until'
  BY SemAssumption DEF Tick, Until, Positive, SemTypeOK
<1>4. \A t \in Detached : Left(t)' = IF dpc[t] = "in" THEN Left(t) - 1 ELSE Left(t)
  BY SemAssumption DEF Tick, Counts, Left, Stay, SemTypeOK
<1>5. \A t \in Detached : Left(t)' <= Left(t)
  BY <1>2, <1>4
<1>6. CASE \E t \in Detached : dpc[t] = "in"
  <2>1. PICK t \in Detached : dpc[t] = "in"
    BY <1>6
  <2>2. Work' <= Work - 1
    BY <1>2, <1>4, <1>5, <2>1, NotMore
  <2>3. c \in Nat /\ ~(c > 0)
    BY <1>1, <2>1 DEF Idle
  <2>4. Work' - c < Until'
    BY <1>1, <1>2, <1>3, <2>2, <2>3, StaysAhead, Zenon
  <2> QED  BY <2>3, <2>4
<1>7. CASE \A t \in Detached : dpc[t] # "in"
  <2>1. sem > 0
    <3>1. Cardinality(Inside) = 0
      BY <1>7, InsideCount
    <3> QED  BY <3>1, SemAssumption DEF SemTypeOK, Inside
  <2>2. PICK t \in Detached : dpc[t] = "wait" /\ dleft[t] <= -c
    BY <1>1, <1>7 DEF Unfinished, Idle, InTurn
  <2>3. /\ dpc' = dpc /\ dleft[t] \in -Lag..4 /\ dleft[t] > -Lag
        /\ dleft'[t] = dleft[t] - 1
    BY <2>1, <2>2 DEF Tick, Counts, SemTypeOK
  <2>4. c + 1 \in 0..Lag
    BY <1>2, <2>2, <2>3
  <2>5. Idle(c + 1)'
    BY <1>2, <1>7, <2>2, <2>3 DEF Idle
  <2>6. Work' - (c + 1) < Until'
    <3>1. Work' <= Work /\ c \in Nat
      BY <1>2, <1>5, NotMore
    <3> QED  BY <1>1, <1>2, <1>3, <3>1, StaysAhead, Zenon
  <2> QED  BY <2>4, <2>5, <2>6
<1> QED  BY <1>6, <1>7

LEMMA EnoughKept ==
    ASSUME Lag <= 3, SemTypeOK, SemTypeOK', InTurn, InTurn', Enough, [SemNext]_semVars
    PROVE  Enough'
<1> USE SemAssumption
<1>0. /\ Work \in Nat /\ Until \in Nat /\ Work' \in Nat /\ Until' \in Nat /\ Lag \in Nat
      /\ Stay \in Nat /\ \A t \in Detached : Left(t) \in Nat /\ Left(t)' \in Nat
  BY LeftTypes, NextLeftTypes DEF Durations
<1>1. CASE Attributes
  BY <1>1 DEF Attributes, InTurn, Unfinished, Enough
<1>2. ASSUME UNCHANGED <<dpc, dleft, sem>>, Until' = Until, mstep # "failure" PROVE Enough'
  BY <1>2 DEF Enough, Unfinished, Work, Left, Idle
<1>3. CASE DestroySem
  <2>1. Until' = Until
    BY <1>3 DEF DestroySem, Until, Positive, SemTypeOK
  <2> QED  BY <1>2, <1>3, <2>1 DEF DestroySem
<1>4. CASE ExitMain
  <2>1. Until' = Until
    BY <1>4 DEF ExitMain, Until, Positive, SemTypeOK
  <2> QED  BY <1>2, <1>4, <2>1 DEF ExitMain
<1>5. CASE Tick
  BY <1>5, TickIsEnough
<1>6. ASSUME NEW t \in Detached, CreateDetached(t)
      PROVE  Enough'
  <2>1. PICK outcome \in {"wait", "failed"} : dpc' = [dpc EXCEPT ![t] = outcome]
    BY <1>6 DEF CreateDetached
  <2>2. /\ dpc[t] = "none" /\ mstep # "failure" /\ Until <= Until'
        /\ dpc \in [Detached -> {"none", "wait", "in", "done", "failed"}]
    BY <1>6, DetachedSet
       DEF CreateDetached, MainSteps, InTurn, SemTypeOK, Until, Positive
  <2>3. \A u \in Detached : Left(u)' <= Left(u)
    BY <1>0, <1>6, <2>1, <2>2 DEF CreateDetached, Left, Stay
  <2>4. Work' <= Work
    BY <2>3, NotMore
  <2>5. CASE Unfinished
    <3>1. PICK c \in 0..Lag : Work - c < Until /\ (c > 0 => Idle(c))
      BY <2>2, <2>5 DEF Enough
    <3>2. Work' - c < Until'
      <4>1. c \in Nat
        BY <1>0
      <4> QED  BY <1>0, <2>2, <2>4, <3>1, <4>1, StaysAhead, Zenon
    <3>3. c > 0 => Idle(c)'
      BY <1>6, <2>1, <2>2, <3>1 DEF CreateDetached, Idle
    <3> QED  BY <3>1, <3>2, <3>3 DEF Enough
  <2>6. CASE ~Unfinished
    <3>1. /\ t = 1 => Until' = 34
          /\ t = 2 => Until' = 32
          /\ t = 3 => Until' = 30
      BY <1>6 DEF CreateDetached, MainSteps, Until, Positive
    <3>2. \A u \in Detached : u < t => Left(u) = 0
      BY <1>6, <2>6, DetachedSet
         DEF CreateDetached, MainSteps, InTurn, Unfinished, Left, SemTypeOK
    <3>3. \A u \in Detached : u >= t => Left(u) = Stay
      BY <1>6, DetachedSet DEF CreateDetached, MainSteps, InTurn, Left
    <3>4. Stay <= 10
      BY DEF Stay
    <3>5. Work < Until'
      <4>1. CASE t = 1
        <5>1. Left(1) = Stay /\ Left(2) = Stay /\ Left(3) = Stay
          BY <3>3, <4>1, DetachedSet
        <5>2. Work <= 30
          BY <1>0, <3>4, <5>1 DEF Work
        <5> QED  BY <1>0, <3>1, <4>1, <5>2
      <4>2. CASE t = 2
        <5>1. Left(1) = 0 /\ Left(2) = Stay /\ Left(3) = Stay
          BY <3>2, <3>3, <4>2, DetachedSet
        <5>2. Work <= 20
          BY <1>0, <3>4, <5>1 DEF Work
        <5> QED  BY <1>0, <3>1, <4>2, <5>2
      <4>3. CASE t = 3
        <5>1. Left(1) = 0 /\ Left(2) = 0 /\ Left(3) = Stay
          BY <3>2, <3>3, <4>3, DetachedSet
        <5>2. Work <= 10
          BY <1>0, <3>4, <5>1 DEF Work
        <5> QED  BY <1>0, <3>1, <4>3, <5>2
      <4> QED  BY <4>1, <4>2, <4>3, DetachedSet
    <3>6. Work' < Until'
      BY <1>0, <2>4, <3>5
    <3> QED  BY <3>6, SimplyEnough
  <2> QED  BY <2>5, <2>6
<1>7. ASSUME NEW t \in Detached, SemWait(t)
      PROVE  Enough'
  <2>1. /\ dpc[t] = "wait" /\ mstep # "failure" => Unfinished
        /\ dpc \in [Detached -> {"none", "wait", "in", "done", "failed"}]
        /\ dpc' = [dpc EXCEPT ![t] = "in"] /\ dleft \in [Detached -> -Lag..4]
        /\ dleft' = [dleft EXCEPT ![t] = 4] /\ Until' = Until /\ mstep' = mstep
    BY <1>7 DEF SemWait, Unfinished, SemTypeOK, Until
  <2>2. /\ \A u \in Detached \ {t} : Left(u)' = Left(u)
        /\ Left(t) = Stay /\ Left(t)' = 4 + Lag
    BY <1>7, <2>1 DEF SemWait, Left
  <2>3. Work' <= Work - Lag
    <3>1. \A u \in Detached : Left(u)' <= Left(u)
      BY <1>0, <2>2 DEF Stay
    <3> QED  BY <1>0, <2>2, <3>1, NotMore DEF Stay
  <2>4. mstep # "failure" => Work' < Until'
    BY <1>0, <1>7, <2>1, <2>3 DEF Enough, SemWait
  <2> QED  BY <2>1, <2>4, SimplyEnough
<1>8. ASSUME NEW t \in Detached, SemPost(t)
      PROVE  Enough'
  <2>1. /\ dpc[t] = "in" /\ Until' = Until /\ mstep' = mstep /\ Unfinished
        /\ dpc \in [Detached -> {"none", "wait", "in", "done", "failed"}]
        /\ dpc' = [dpc EXCEPT ![t] = "done"] /\ dleft \in [Detached -> -Lag..4]
        /\ dleft' = [u \in Detached |->
                       IF u = t \/ (dpc[u] = "wait" /\ sem = 0) THEN 0 ELSE dleft[u]]
    BY <1>8 DEF SemPost, Unfinished, SemTypeOK, Until
  <2>2. \A u \in Detached : Left(u)' <= Left(u)
    BY <1>0, <2>1 DEF Left, Stay
  <2>3. Work' <= Work
    BY <2>2, NotMore
  <2>4. mstep # "failure" => Work < Until
    BY <1>0, <2>1 DEF Enough, Idle
  <2>5. mstep' # "failure" => Work' < Until'
    BY <1>0, <2>1, <2>3, <2>4
  <2> QED  BY <2>5, SimplyEnough
<1>9. CASE UNCHANGED semVars
  <2>1. Until' = Until /\ mstep' = mstep
    BY <1>9 DEF semVars, Until
  <2> QED  BY <1>2, <1>9, <2>1 DEF semVars, Enough
<1> QED
  BY <1>1, <1>3, <1>4, <1>5, <1>6, <1>7, <1>8, <1>9 DEF SemNext

\* Every variable keeps its type, and as many threads are inside as the
\* semaphore lacks of its value.
THEOREM SemTypeCorrect == SemSpec => []SemTypeOK
<1>1. SemInit => SemTypeOK /\ InTurn
  <2> SUFFICES ASSUME SemInit PROVE SemTypeOK /\ InTurn
    OBVIOUS
  <2>1. \A t \in Detached : dpc[t] # "in"
    BY DEF SemInit
  <2>2. Cardinality(Inside) = 0
    BY <2>1, InsideCount
  <2> QED  BY <2>2, SemAssumption, DetachedSet DEF SemInit, SemTypeOK, InTurn, Inside
<1> QED  BY <1>1, SemTypes, PTL DEF SemSpec

\* The thirty seconds main sleeps are enough for all threads it created,
\* whatever the value of the semaphore and whichever could not be created, if
\* nothing is more than three seconds late.
THEOREM ThirtySecondsAreEnough ==
    ASSUME Lag <= 3
    PROVE  SemSpec => []AllFinished
<1>1. SemInit => InTurn /\ Enough
  BY DEF SemInit, InTurn, Enough, Unfinished
<1>2. InTurn /\ Enough /\ SemTypeOK /\ SemTypeOK' /\ [SemNext]_semVars => InTurn' /\ Enough'
  BY SemTypes, EnoughKept
<1>3. InTurn /\ Enough /\ SemTypeOK => AllFinished
  <2> SUFFICES ASSUME InTurn, Enough, SemTypeOK, mstep = "exited"
               PROVE  ~Unfinished
    BY DEF AllFinished, Unfinished, InTurn, SemTypeOK
  <2> SUFFICES ASSUME Unfinished PROVE FALSE
    OBVIOUS
  <2>1. PICK c \in 0..Lag : Work - c < 0 /\ (c > 0 => Idle(c))
    BY DEF Enough, Until
  <2>2. /\ Work \in Nat /\ Lag \in Nat /\ Stay \in Nat
        /\ Left(1) \in Nat /\ Left(2) \in Nat /\ Left(3) \in Nat
    BY LeftTypes DEF Durations
  <2>3. c > 0
    BY <2>1, <2>2
  <2>4. PICK t \in Detached : dpc[t] = "wait"
    BY <2>1, <2>3 DEF Idle
  <2>5. Left(t) = Stay /\ Stay > Lag
    BY <2>2, <2>4 DEF Left, Stay
  <2>6. Stay <= Work
    BY <2>2, <2>4, <2>5, DetachedSet DEF Work
  <2> QED  BY <2>1, <2>2, <2>5, <2>6
<1> QED  BY <1>1, <1>2, <1>3, SemTypeCorrect, PTL DEF SemSpec

=============================================================================
