--------------------------- MODULE MsgQueueProofs ---------------------------
(***************************************************************************)
(* Proofs about MsgQueue, for any number of runs, whatever their options   *)
(* ask for, and any number of inodes to a key.  A queue is made once and,  *)
(* removed, never comes back (Unmade): so whoever is about to remove the   *)
(* queue of the only reader, and did not report that it could not send,    *)
(* has sent to that very queue (SentFirst), and a reader that waits there  *)
(* would have got the message.  That a queue has a user needs no more than *)
(* the types, and where a run is (Progress).                               *)
(***************************************************************************)
EXTENDS MsgQueue, FiniteSetTheorems, TLAPS

Early == {"fopen", "create", "ftok", "msgget"}

\* Where a run has a queue in use.
Using == {"msgrcv", "waiting", "msgsnd", "msgctl", "unsent"}

Types ==
    /\ option \in [Procs -> {"r", "w", "h"}]
    /\ file \in Inodes \union {None}
    /\ pc \in [Procs -> {"fopen", "create", "ftok", "msgget", "msgrcv", "waiting",
                         "msgsnd", "msgctl", "unsent", "unlink"} \union Over]
    /\ held \in [Procs -> Inodes \union {None}]
    /\ key \in [Procs -> Keys \union {None}]
    /\ live \in [Procs -> Keys \union {None}]
    /\ msqid \in [Procs -> Procs \union {None}]
    /\ msgs \in [Procs -> Nat]

\* What a run has at hand where it is.
Progress ==
    \A p \in Procs :
        /\ option[p] = "h" => pc[p] = "failed"
        /\ pc[p] = "msgget" => key[p] \in Keys
        /\ pc[p] \in {"msgrcv", "waiting"} => p \in Readers /\ msqid[p] \in Procs
        /\ pc[p] \in {"msgsnd", "msgctl", "unsent"} => p \in Writers /\ msqid[p] \in Procs

\* The queue a run may make is not there before it does.
Unmade ==
    \A p \in Procs : pc[p] \in Early =>
        live[p] = None /\ msgs[p] = 0 /\ \A q \in Procs : msqid[q] # p

\* One key has one queue, what is removed is empty, and nobody waits there or
\* where there is a message.
Queues ==
    /\ \A p, q \in Procs : live[p] # None /\ live[p] = live[q] => p = q
    /\ \A q \in Procs : ~IsLive(q) => msgs[q] = 0
    /\ \A r \in Procs : pc[r] = "waiting" => IsLive(msqid[r]) /\ msgs[msqid[r]] = 0

\* A writer about to remove a queue that is there has sent to it: the only
\* reader has received, or the message is still in the queue.
SentFirst ==
    \A r \in Procs : Readers = {r} =>
        \A w \in Procs : pc[w] = "msgctl" /\ IsLive(msqid[w]) =>
            pc[r] = "received" \/ msgs[msqid[w]] > 0

QueueInv == Types /\ Progress /\ Unmade /\ Queues /\ SentFirst /\ NoOrphanQueue

-----------------------------------------------------------------------------
LEMMA KeysOfInodes == \A i \in Inodes : i % KeyMod \in Keys
BY Assumption DEF Keys

LEMMA InitQueueInv == Init => QueueInv
<1> SUFFICES ASSUME Init PROVE QueueInv
  OBVIOUS
<1>1. Types /\ Progress /\ Unmade /\ Queues /\ SentFirst
  BY Assumption
     DEF Init, Types, Progress, Unmade, Queues, SentFirst, IsLive, Over, Early, Readers
<1>2. NoOrphanQueue
  BY DEF Init, NoOrphanQueue, IsLive
<1> QED  BY <1>1, <1>2 DEF QueueInv

\* A step of one run that makes no queue, removes none and neither sends nor
\* receives.
PlainStep(p) ==
    \/ Open(p) \/ Create(p) \/ CreateCrashes(p) \/ Ftok(p) \/ GetFails(p)
    \/ p \in Readers /\ ReceiveFails(p)
    \/ p \in Writers /\ (RemoveFails(p) \/ Unlink(p))

LEMMA PlainStepKeeps ==
    ASSUME QueueInv, NEW p \in Procs, PlainStep(p)
    PROVE  QueueInv'
<1> USE DEF Exit
<1>1. /\ UNCHANGED <<option, live, msqid, msgs>>
      /\ Readers' = Readers /\ Writers' = Writers
      /\ \A q \in Procs : IsLive(q)' = IsLive(q)
  BY DEF PlainStep, Open, Create, CreateCrashes, Ftok, GetFails, ReceiveFails, RemoveFails,
     Unlink, Readers, Writers, IsLive
<1>2. PICK to : pc' = [pc EXCEPT ![p] = to] /\
         \/ to \in {"create", "ftok", "msgget"} /\ pc[p] \in Early
         \/ to \in {"crashed", "failed"} /\ pc[p] \in Early
         \/ to = "failed" /\ pc[p] \in {"msgrcv", "msgctl", "unsent"} /\ ~IsLive(msqid[p])
         \/ to = "done" /\ pc[p] = "unlink"
  BY DEF AtMsgctl, PlainStep, Open, Create, CreateCrashes, Ftok, GetFails, ReceiveFails, RemoveFails,
     Unlink, Early
<1>3. Types'
  <2>1. key' \in [Procs -> Keys \union {None}]
    <3>1. CASE Ftok(p) /\ file # None
      BY <3>1, KeysOfInodes DEF QueueInv, Types, Ftok
    <3>2. CASE UNCHANGED key
      BY <3>2 DEF QueueInv, Types
    <3> QED  BY <3>1, <3>2 DEF PlainStep, Open, Create, CreateCrashes, Ftok, GetFails,
                ReceiveFails, RemoveFails, Unlink
  <2>2. /\ file' \in Inodes \union {None}
        /\ held' \in [Procs -> Inodes \union {None}]
    BY DEF QueueInv, Types, PlainStep, Open, Create, CreateCrashes, Ftok, GetFails,
       ReceiveFails, RemoveFails, Unlink
  <2> QED  BY <1>1, <1>2, <2>1, <2>2 DEF QueueInv, Types, Over
<1>4. Progress'
  <2>1. \A q \in Procs : q # p => pc'[q] = pc[q] /\ key'[q] = key[q]
    BY <1>2 DEF QueueInv, Types, PlainStep, Open, Create, CreateCrashes, Ftok, GetFails,
       ReceiveFails, RemoveFails, Unlink
  <2>2. pc'[p] = to /\ to \notin {"msgrcv", "waiting", "msgsnd", "msgctl", "unsent"}
    BY <1>2 DEF QueueInv, Types
  <2>3. to = "msgget" => key'[p] \in Keys
    BY <1>2, <2>2, KeysOfInodes
       DEF QueueInv, Types, PlainStep, Open, Create, CreateCrashes, Ftok, GetFails,
       ReceiveFails, RemoveFails, Unlink
  <2>4. option[p] # "h"
    BY <1>2 DEF QueueInv, Progress, Early
  <2> QED  BY <1>1, <2>1, <2>2, <2>3, <2>4 DEF QueueInv, Progress
<1>5. Unmade'
  BY <1>1, <1>2 DEF QueueInv, Types, Unmade, Early
<1>6. Queues'
  BY <1>1, <1>2 DEF QueueInv, Types, Queues, IsLive
<1>7. SentFirst'
  BY <1>1, <1>2 DEF QueueInv, Types, SentFirst, Early, IsLive
<1>8. NoOrphanQueue'
  BY <1>1, <1>2 DEF QueueInv, Types, NoOrphanQueue, AtMsgctl, IsLive, Early
<1> QED  BY <1>3, <1>4, <1>5, <1>6, <1>7, <1>8 DEF QueueInv

\* A queue is made by a run that has not had one.
LEMMA GetStep ==
    ASSUME QueueInv, NEW p \in Procs, Get(p)
    PROVE  QueueInv'
<1>1. /\ UNCHANGED <<option, file, held, key, msgs>>
      /\ Readers' = Readers /\ Writers' = Writers
  BY DEF Get, Readers, Writers
<1>2. /\ pc[p] = "msgget" /\ key[p] \in Keys /\ None \notin Keys
      /\ live[p] = None /\ msgs[p] = 0 /\ \A q \in Procs : msqid[q] # p
      /\ option[p] # "h"
  BY Assumption DEF Get, QueueInv, Progress, Unmade, Early
<1>3. /\ pc' = [pc EXCEPT ![p] = IF p \in Readers THEN "msgrcv" ELSE "msgsnd"]
      /\ p \in Readers \union Writers
  BY <1>2 DEF Get, QueueInv, Types, Readers, Writers
<1>4. PICK q \in Procs :
        /\ msqid' = [msqid EXCEPT ![p] = q]
        /\ \/ live[q] = key[p] /\ live' = live
           \/ q = p /\ live' = [live EXCEPT ![p] = key[p]] /\ WithKey(key[p]) = {}
  BY DEF Get, WithKey
<1>5. Types'
  BY <1>1, <1>2, <1>3, <1>4 DEF QueueInv, Types
<1>6. Progress'
  BY <1>1, <1>2, <1>3, <1>4 DEF QueueInv, Types, Progress
<1>7. Unmade'
  BY <1>1, <1>2, <1>3, <1>4 DEF QueueInv, Types, Unmade, Early
<1>8. \A x \in Procs : pc'[x] \in {"waiting", "msgctl"} =>
         /\ pc[x] = pc'[x] /\ msqid'[x] = msqid[x] /\ msqid[x] \in Procs
         /\ live'[msqid[x]] = live[msqid[x]]
  BY <1>2, <1>3, <1>4 DEF QueueInv, Types, Progress
<1>9. Queues'
  <2>1. \A x, y \in Procs : live'[x] # None /\ live'[x] = live'[y] => x = y
    BY <1>2, <1>4 DEF QueueInv, Types, Queues, WithKey
  <2>2. \A x \in Procs : live'[x] = None => msgs'[x] = 0
    BY <1>1, <1>2, <1>4 DEF QueueInv, Types, Queues, IsLive
  <2>3. ASSUME NEW r \in Procs, pc'[r] = "waiting"
        PROVE  live'[msqid'[r]] # None /\ msgs'[msqid'[r]] = 0
    <3>1. live[msqid[r]] # None /\ msgs[msqid[r]] = 0
      BY <1>3, <2>3, <1>8 DEF QueueInv, Queues, IsLive
    <3> QED  BY <1>1, <1>8, <2>3, <3>1
  <2> QED  BY <2>1, <2>2, <2>3 DEF Queues, IsLive
<1>10. SentFirst'
  <2>1. \A w \in Procs : pc'[w] = "msgctl" /\ live'[msqid'[w]] # None =>
          pc[w] = "msgctl" /\ live[msqid[w]] # None /\ msqid'[w] = msqid[w]
    BY <1>8
  <2>2. \A r \in Procs : pc[r] = "received" => pc'[r] = "received"
    BY <1>2, <1>3 DEF QueueInv, Types
  <2> QED  BY <1>1, <2>1, <2>2 DEF QueueInv, SentFirst, IsLive
<1>11. NoOrphanQueue'
  BY <1>1, <1>2, <1>3, <1>4 DEF QueueInv, Types, NoOrphanQueue, AtMsgctl, IsLive
<1> QED  BY <1>5, <1>6, <1>7, <1>9, <1>10, <1>11 DEF QueueInv

LEMMA ReceiveStep ==
    ASSUME QueueInv, NEW r \in Readers, Receive(r)
    PROVE  QueueInv'
<1> DEFINE q == msqid[r]
<1>1. /\ UNCHANGED <<option, file, key, live, msqid>>
      /\ Readers' = Readers /\ Writers' = Writers
  BY DEF Receive, Readers, Writers
<1>2. r \in Procs /\ r \notin Writers /\ pc[r] = "msgrcv" /\ q \in Procs /\ live[q] # None
  BY DEF Receive, QueueInv, Progress, Readers, Writers, IsLive
<1>3. CASE msgs[q] > 0 /\ msgs' = [msgs EXCEPT ![q] = @ - 1] /\ Exit(r, "received")
  <2>1. /\ pc' = [pc EXCEPT ![r] = "received"]
        /\ msgs' = [msgs EXCEPT ![q] = @ - 1] /\ held' = [held EXCEPT ![r] = None]
        /\ msgs[q] \in Nat /\ msgs[q] > 0
    BY <1>2, <1>3 DEF Exit, QueueInv, Types
  <2>2. Types'
    BY <1>1, <1>2, <2>1 DEF QueueInv, Types, Over
  <2>3. Progress' /\ Unmade'
    BY <1>1, <1>2, <2>1 DEF QueueInv, Types, Progress, Unmade, Early, Readers
  <2>4. Queues'
    BY <1>1, <1>2, <2>1 DEF QueueInv, Types, Queues, IsLive
  <2>5. SentFirst'
    BY <1>1, <1>2, <2>1 DEF QueueInv, Types, SentFirst, IsLive
  <2>6. NoOrphanQueue'
    <3>1. PICK w \in AtMsgctl : msqid[w] = q
      BY <1>2, <2>1 DEF QueueInv, NoOrphanQueue, IsLive
    <3>2. w \in AtMsgctl' /\ w # r
      BY <1>1, <1>2, <2>1 DEF QueueInv, Types, AtMsgctl, Writers
    <3>3. \A x \in Procs : msgs'[x] > 0 => msgs[x] > 0
      BY <2>1 DEF QueueInv, Types
    <3>4. \A p \in Procs : p # r => pc'[p] = pc[p]
      BY <2>1 DEF QueueInv, Types
    <3>5. w \in Procs /\ pc'[w] \in Using /\ r \notin AtMsgctl /\ AtMsgctl \subseteq AtMsgctl'
      BY <1>1, <1>2, <3>2, <3>4 DEF AtMsgctl, Writers, Using
    <3>6. \A x \in Procs : IsLive(x) => \E p \in Procs : msqid[p] = x /\ pc'[p] \in Using
      BY <3>1, <3>4, <3>5 DEF QueueInv, NoOrphanQueue, Using
    <3> QED  BY <1>1, <3>3, <3>5, <3>6 DEF QueueInv, NoOrphanQueue, IsLive, Using
  <2> QED  BY <2>2, <2>3, <2>4, <2>5, <2>6 DEF QueueInv
<1>4. CASE msgs[q] = 0 /\ pc' = [pc EXCEPT ![r] = "waiting"] /\ UNCHANGED <<held, msgs>>
  <2>1. Types'
    BY <1>1, <1>2, <1>4 DEF QueueInv, Types
  <2>2. Progress' /\ Unmade'
    BY <1>1, <1>2, <1>4 DEF QueueInv, Types, Progress, Unmade, Early, Readers
  <2>3. Queues'
    BY <1>1, <1>2, <1>4 DEF QueueInv, Types, Queues, IsLive
  <2>4. SentFirst'
    BY <1>1, <1>2, <1>4 DEF QueueInv, Types, SentFirst, IsLive
  <2>5. NoOrphanQueue'
    BY <1>1, <1>2, <1>4 DEF QueueInv, Types, NoOrphanQueue, AtMsgctl, IsLive
  <2> QED  BY <2>1, <2>2, <2>3, <2>4, <2>5 DEF QueueInv
<1> QED  BY <1>3, <1>4 DEF Receive

LEMMA SendStep ==
    ASSUME QueueInv, NEW w \in Writers, Send(w)
    PROVE  QueueInv'
<1> DEFINE q == msqid[w]
<1>1. /\ UNCHANGED <<option, file, key, live, msqid>>
      /\ Readers' = Readers /\ Writers' = Writers
  BY DEF Send, Sent, Readers, Writers
<1>2. w \in Procs /\ w \notin Readers /\ pc[w] = "msgsnd" /\ q \in Procs
  BY DEF Send, QueueInv, Progress, Readers, Writers
<1>3. ASSUME IsLive(q), NEW r \in Waiting(q), UNCHANGED msgs,
             pc' = [pc EXCEPT ![w] = "msgctl", ![r] = "received"],
             held' = [held EXCEPT ![r] = None]
      PROVE  QueueInv'
  <2>1. r \in Procs /\ r \in Readers /\ r \notin Writers /\ pc[r] = "waiting" /\ r # w
    BY <1>2 DEF Waiting, Readers, Writers
  <2>2. /\ pc'[w] = "msgctl" /\ pc'[r] = "received"
        /\ \A p \in Procs : p # w /\ p # r => pc'[p] = pc[p]
    BY <1>2, <1>3, <2>1 DEF QueueInv, Types
  <2>3. Types'
    BY <1>1, <1>3 DEF QueueInv, Types, Over
  <2>4. Progress' /\ Unmade'
    <3>1. Progress'
      <4>1. \A p \in Procs : p # w /\ p # r =>
              (option[p] = "h" => pc'[p] = "failed") /\ pc'[p] = pc[p]
        BY <2>2 DEF QueueInv, Progress
      <4>2. option[w] # "h" /\ option[r] # "h"
        BY <2>1 DEF Readers, Writers
      <4> QED  BY <1>1, <1>2, <2>2, <4>1, <4>2 DEF QueueInv, Progress
    <3>2. Unmade'
      BY <1>1, <1>3, <2>2 DEF QueueInv, Unmade, Early
    <3> QED  BY <3>1, <3>2
  <2>5. Queues'
    BY <1>1, <1>2, <1>3, <2>1, <2>2 DEF QueueInv, Queues, IsLive
  <2>6. SentFirst'
    BY <1>1, <1>2, <1>3, <2>1, <2>2 DEF QueueInv, SentFirst, IsLive
  <2>7. NoOrphanQueue'
    <3>1. w \in AtMsgctl' /\ AtMsgctl \subseteq AtMsgctl' /\ pc'[w] \in Using
      BY <1>1, <1>2, <2>1, <2>2 DEF AtMsgctl, Writers, Using
    <3>2. msqid[r] = q
      BY <1>3 DEF Waiting
    <3>3. \A x \in Procs : IsLive(x) => \E p \in Procs : msqid[p] = x /\ pc'[p] \in Using
      BY <1>2, <2>2, <3>1, <3>2 DEF QueueInv, NoOrphanQueue, Using
    <3> QED  BY <1>1, <1>3, <3>1, <3>3 DEF QueueInv, NoOrphanQueue, IsLive, Using
  <2> QED  BY <2>3, <2>4, <2>5, <2>6, <2>7 DEF QueueInv
<1>4. ASSUME pc' = [pc EXCEPT ![w] = "msgctl"], UNCHANGED held,
             IsLive(q), Waiting(q) = {}, msgs' = [msgs EXCEPT ![q] = @ + 1]
      PROVE  QueueInv'
  <2>1. /\ \A p \in Procs : pc'[p] = IF p = w THEN "msgctl" ELSE pc[p]
        /\ msgs' \in [Procs -> Nat]
        /\ \A p \in Procs : p # q => msgs'[p] = msgs[p]
        /\ msgs'[q] > 0
    BY <1>2, <1>4 DEF QueueInv, Types
  <2>2. Types'
    BY <1>1, <1>4, <2>1 DEF QueueInv, Types
  <2>3. Progress'
    BY <1>1, <1>2, <2>1 DEF QueueInv, Progress, Readers, Writers
  <2>4. Unmade'
    BY <1>1, <1>2, <2>1 DEF QueueInv, Unmade, Early
  <2>5. Queues'
    <3>1. \A r \in Procs : pc'[r] = "waiting" => msgs'[msqid[r]] = msgs[msqid[r]]
      <4>1. \A r \in Procs : pc'[r] = "waiting" => pc[r] = "waiting" /\ r \in Readers
        BY <1>2, <2>1 DEF QueueInv, Progress
      <4>2. \A r \in Procs : pc'[r] = "waiting" => msqid[r] \in Procs
        BY <4>1 DEF QueueInv, Progress
      <4> QED  BY <1>4, <2>1, <4>1, <4>2 DEF Waiting
    <3> QED  BY <1>1, <1>2, <1>4, <2>1, <3>1 DEF QueueInv, Queues, IsLive
  <2>6. SentFirst'
    <3>1. \A v \in Procs : pc'[v] = "msgctl" /\ v # w =>
            pc[v] = "msgctl" /\ msqid[v] \in Procs
      BY <2>1 DEF QueueInv, Progress
    <3>2. \A p \in Procs : msgs[p] > 0 => msgs'[p] > 0
      BY <1>2, <2>1 DEF QueueInv, Types
    <3>3. \A r \in Procs : pc[r] = "received" => pc'[r] = "received"
      BY <1>2, <2>1
    <3> QED  BY <1>1, <1>2, <2>1, <3>1, <3>2, <3>3 DEF QueueInv, SentFirst, IsLive
  <2>7. NoOrphanQueue'
    BY <1>1, <1>2, <1>4, <2>1 DEF QueueInv, NoOrphanQueue, AtMsgctl, IsLive, Writers
  <2> QED  BY <2>2, <2>3, <2>4, <2>5, <2>6, <2>7 DEF QueueInv
<1>5. ASSUME pc' = [pc EXCEPT ![w] = "unsent"], UNCHANGED <<held, msgs>>
      PROVE  QueueInv'
  <2>1. \A p \in Procs : pc'[p] = IF p = w THEN "unsent" ELSE pc[p]
    BY <1>2, <1>5 DEF QueueInv, Types
  <2>2. Types' /\ Progress' /\ Unmade'
    BY <1>1, <1>2, <1>5, <2>1 DEF QueueInv, Types, Progress, Unmade, Early, Readers, Writers
  <2>3. Queues'
    BY <1>1, <1>5, <2>1 DEF QueueInv, Queues, IsLive
  <2>4. SentFirst'
    BY <1>1, <1>2, <1>5, <2>1 DEF QueueInv, SentFirst, IsLive
  <2>5. NoOrphanQueue'
    BY <1>1, <1>2, <1>5, <2>1 DEF QueueInv, NoOrphanQueue, AtMsgctl, IsLive
  <2> QED  BY <2>2, <2>3, <2>4, <2>5 DEF QueueInv
<1> QED  BY <1>3, <1>4, <1>5 DEF Send, Sent

LEMMA RemoveStep ==
    ASSUME QueueInv, NEW w \in Writers, Remove(w)
    PROVE  QueueInv'
<1> DEFINE q == msqid[w]
<1>1. /\ UNCHANGED <<option, file, key, msqid>>
      /\ Readers' = Readers /\ Writers' = Writers
  BY DEF Remove, Readers, Writers
<1>2. w \in Procs /\ w \notin Readers /\ w \in AtMsgctl /\ q \in Procs
  BY DEF Remove, AtMsgctl, QueueInv, Progress, Readers, Writers
<1>3. /\ pc' = [p \in Procs |-> IF p = w THEN "unlink"
                                ELSE IF p \in Waiting(q) THEN "failed" ELSE pc[p]]
      /\ held' = [p \in Procs |-> IF p \in Waiting(q) THEN None ELSE held[p]]
      /\ live' = [live EXCEPT ![q] = None] /\ msgs' = [msgs EXCEPT ![q] = 0]
  BY DEF Remove
<1>4. \A p \in Waiting(q) : p \in Readers /\ p \notin Writers /\ pc[p] = "waiting"
  BY DEF Waiting, Readers, Writers
<1>5. /\ \A p \in Procs : live'[p] = IF p = q THEN None ELSE live[p]
      /\ \A p \in Procs : msgs'[p] = IF p = q THEN 0 ELSE msgs[p]
  BY <1>2, <1>3 DEF QueueInv, Types
<1>6. Types'
  BY <1>1, <1>2, <1>3 DEF QueueInv, Types, Over
<1>7. Progress'
  BY <1>1, <1>2, <1>3 DEF QueueInv, Progress, Writers
<1>8. Unmade'
  BY <1>1, <1>2, <1>3, <1>5 DEF QueueInv, Unmade, Early
<1>9. Queues'
  <2>1. \A x, y \in Procs : live'[x] # None /\ live'[x] = live'[y] => x = y
    BY <1>5 DEF QueueInv, Queues
  <2>2. \A x \in Procs : live'[x] = None => msgs'[x] = 0
    BY <1>5 DEF QueueInv, Queues, IsLive
  <2>3. ASSUME NEW r \in Procs, pc'[r] = "waiting"
        PROVE  live'[msqid[r]] # None /\ msgs'[msqid[r]] = 0
    <3>1. pc[r] = "waiting" /\ r \notin Waiting(q)
      BY <1>3, <2>3
    <3>2. msqid[r] \in Procs /\ msqid[r] # q
      BY <3>1 DEF QueueInv, Progress, Waiting
    <3> QED  BY <1>5, <3>1, <3>2 DEF QueueInv, Queues, IsLive
  <2> QED  BY <1>1, <2>1, <2>2, <2>3 DEF Queues, IsLive
<1>10. SentFirst'
  <2>1. \A v \in Procs : pc'[v] = "msgctl" => pc[v] = "msgctl" /\ msqid[v] \in Procs
    BY <1>3 DEF QueueInv, Progress
  <2>2. \A r \in Procs : pc[r] = "received" => pc'[r] = "received"
    BY <1>2, <1>3, <1>4 DEF AtMsgctl
  <2> QED  BY <1>1, <1>5, <2>1, <2>2 DEF QueueInv, SentFirst, IsLive
<1>11. NoOrphanQueue'
  <2>1. \A x \in Procs : live'[x] # None => x # q /\ live[x] # None /\ msgs'[x] = msgs[x]
    BY <1>5
  <2>2. \A p \in Procs : msqid[p] # q /\ pc[p] # "unlink" => pc'[p] = pc[p]
    BY <1>3 DEF Waiting
  <2>3. ASSUME NEW x \in Procs, live'[x] # None
        PROVE  /\ \E p \in Procs : msqid[p] = x /\ pc'[p] \in Using
               /\ msgs'[x] > 0 => \E v \in AtMsgctl' : msqid[v] = x
    <3>1. PICK p \in Procs : msqid[p] = x /\ pc[p] \in Using
      BY <2>1, <2>3 DEF QueueInv, NoOrphanQueue, IsLive, Using
    <3>2. pc'[p] = pc[p]
      BY <2>1, <2>2, <2>3, <3>1 DEF Using
    <3>3. ASSUME msgs'[x] > 0 PROVE \E v \in AtMsgctl' : msqid[v] = x
      <4>1. PICK v \in AtMsgctl : msqid[v] = x
        BY <2>1, <2>3, <3>3 DEF QueueInv, NoOrphanQueue, IsLive
      <4>2. v \in Writers /\ v \in Procs /\ pc'[v] = pc[v]
        BY <2>1, <2>2, <2>3, <4>1 DEF AtMsgctl, Writers
      <4> QED  BY <1>1, <4>1, <4>2 DEF AtMsgctl
    <3> QED  BY <3>1, <3>2, <3>3
  <2> QED  BY <1>1, <2>3 DEF NoOrphanQueue, IsLive, Using
<1> QED  BY <1>6, <1>7, <1>8, <1>9, <1>10, <1>11 DEF QueueInv

-----------------------------------------------------------------------------
LEMMA QueueStep == QueueInv /\ [Next]_vars => QueueInv'
<1> SUFFICES ASSUME QueueInv, [Next]_vars PROVE QueueInv'
  OBVIOUS
<1>1. CASE UNCHANGED vars
  BY <1>1 DEF vars, QueueInv, Types, Progress, Unmade, Queues, SentFirst, NoOrphanQueue, AtMsgctl,
     IsLive, Readers, Writers
<1>2. ASSUME NEW p \in Procs, Run(p) PROVE QueueInv'
  BY <1>2, PlainStepKeeps, GetStep, ReceiveStep, SendStep, RemoveStep DEF Run, PlainStep
<1> QED  BY <1>1, <1>2 DEF Next, Quiet

\* The parts together hold in every state.
THEOREM InvariantHolds == Spec => []QueueInv
<1> QED  BY InitQueueInv, QueueStep, PTL DEF Spec

-----------------------------------------------------------------------------
\* Every variable keeps its type, and with it one key has one queue, a queue
\* that is removed is empty, and nobody waits at one that is removed or has a
\* message.
THEOREM TypeCorrect == Spec => []TypeOK
<1>1. QueueInv => TypeOK
  <2> SUFFICES ASSUME QueueInv PROVE TypeOK
    OBVIOUS
  <2>1. ASSUME NEW k \in Keys PROVE Cardinality(WithKey(k)) <= 1
    <3>1. k # None
      BY Assumption
    <3>2. WithKey(k) = {} \/ \E x : WithKey(k) = {x}
      BY <3>1 DEF WithKey, QueueInv, Queues
    <3>3. Cardinality(WithKey(k)) = 0 \/ Cardinality(WithKey(k)) = 1
      BY <3>2, FS_EmptySet, FS_Singleton
    <3> QED  BY <3>3
  <2>2. \A q \in Procs : Waiting(q) # {} => IsLive(q) /\ msgs[q] = 0
    BY DEF Waiting, QueueInv, Queues, Readers
  <2> QED  BY <2>1, <2>2 DEF QueueInv, Types, Queues, TypeOK
<1> QED  BY <1>1, InvariantHolds, PTL

\* No run that ends by itself leaves a queue behind, however many there are,
\* and whichever inodes have one key.
THEOREM NobodyLeavesAQueue == Spec => []NoOrphanQueue
<1> QED  BY InvariantHolds, PTL DEF QueueInv

\* The only reader, once it waits, is failed by the removal of its queue only
\* where the writer that removes it has reported that it could not send.
THEOREM WaiterIsServed == Spec => WaiterServed
<1> DEFINE Unsent(r) == \E w \in Writers : pc[w] = "unsent" /\ msqid[w] = msqid[r]
<1> DEFINE Served == \A r \in Readers :
                       Readers = {r} /\ pc[r] = "waiting" /\ pc'[r] = "failed" => Unsent(r)
<1>1. QueueInv /\ [Next]_vars => [Served]_vars
  <2> SUFFICES ASSUME QueueInv, Next, NEW r \in Readers, Readers = {r}, pc[r] = "waiting",
                      pc'[r] = "failed"
               PROVE  Unsent(r)
    OBVIOUS
  <2> USE DEF Exit
  <2>0. /\ r \in Procs /\ pc \in [Procs -> {"fopen", "create", "ftok", "msgget", "msgrcv",
                                  "waiting", "msgsnd", "msgctl", "unsent", "unlink"} \union Over]
        /\ msgs[msqid[r]] = 0
    BY DEF Readers, QueueInv, Types, Queues
  <2>1. ~Quiet
    BY <2>0 DEF Quiet, vars
  <2>2. ASSUME NEW p \in Procs, PlainStep(p) \/ Get(p) \/ (p \in Readers /\ Receive(p))
        PROVE  FALSE
    <3>1. p # r
      BY <2>2 DEF PlainStep, Open, Create, CreateCrashes, Ftok, Get, GetFails, Receive,
         ReceiveFails, RemoveFails, AtMsgctl, Unlink
    <3>2. pc'[r] = pc[r]
      BY <2>0, <2>2, <3>1
         DEF PlainStep, Open, Create, CreateCrashes, Ftok, Get, GetFails, Receive,
         ReceiveFails, RemoveFails, Unlink
    <3> QED  BY <3>2
  <2>3. ASSUME NEW w \in Writers, Send(w) PROVE FALSE
    <3>1. w # r /\ w \in Procs
      BY DEF Readers, Writers
    <3> QED  BY <2>0, <2>3, <3>1 DEF Send, Sent, Waiting
  <2>4. ASSUME NEW w \in Writers, Remove(w) PROVE Unsent(r)
    <3>1. w # r /\ w \in Procs /\ w \in AtMsgctl /\ IsLive(msqid[w])
      BY <2>4 DEF Remove, Readers, Writers
    <3>2. r \in Waiting(msqid[w])
      BY <2>0, <2>4, <3>1 DEF Remove
    <3>3. msqid[r] = msqid[w]
      BY <3>2 DEF Waiting
    <3>4. pc[w] # "msgctl"
      BY <2>0, <3>1, <3>3 DEF QueueInv, SentFirst
    <3> QED  BY <3>1, <3>3, <3>4 DEF AtMsgctl
  <2> QED  BY <2>1, <2>2, <2>3, <2>4 DEF Next, Run, PlainStep
<1> QED  BY <1>1, InvariantHolds, PTL DEF Spec, WaiterServed

=============================================================================
