-------------------------- MODULE PollServerProofs --------------------------
(***************************************************************************)
(* Proofs about PollServer, for every set of clients, table size and       *)
(* number of messages.  The invariants of the table are not inductive as   *)
(* they stand: that the scan stays inside the table, and that what it has  *)
(* still to visit is live, is Position; that a client is in one place at a *)
(* time is Lifecycle; that the server answers no more than it was sent is  *)
(* Counts; that what poll reported is still true is Fresh.                 *)
(***************************************************************************)
EXTENDS PollServer, TLAPS

Scanning == {"scan", "accept", "recv", "send"}

\* The slots the scan has still to visit.
Ahead == IF pc = "scan" THEN i .. current_size - 1 ELSE i + 1 .. current_size - 1

Position ==
    /\ pc \in Scanning => current_size <= nfds /\ i <= current_size
    /\ pc \in {"accept", "recv", "send"} => i < current_size
    /\ pc = "accept" => fds[i] = ListenSd
    /\ pc \in {"recv", "send"} => fds[i] \in Clients
    /\ pc \in Scanning => \A k \in Ahead : revents[k] = "in" => fds[k] # NoFd
    /\ pc = "optimize" => i <= nfds /\ \A k \in 0 .. i - 1 : fds[k] # NoFd

Lifecycle ==
    /\ pc = "setup" => open = {} /\ nfds = 1
    /\ queued \intersect open = {}
    /\ \A c \in queued \union (open \intersect Clients) : peer[c] # "idle"
    /\ pc \in {"exited", "killed"} => open = {}

Counts ==
    \A c \in Clients :
        replies[c] + unread[c] + (IF pc = "send" /\ fds[i] = c THEN 1 ELSE 0) <= sent[c]

Fresh ==
    pc \in Scanning =>
        \A k \in Ahead : revents[k] = "in" /\ fds[k] \in Clients => Readable(fds[k])

IInv ==
    /\ TypeOK /\ TableExact /\ CompactionComplete /\ EverySlotArmed
    /\ Position /\ Lifecycle /\ Counts /\ Fresh

-----------------------------------------------------------------------------
LEMMA InitIInv == Init => IInv
BY Assumption DEF Init, IInv, TypeOK, TableExact, CompactionComplete,
   EverySlotArmed,
    Position, Lifecycle, Counts, Fresh, Scanning, Looping, Stopped, Slots, Used, Fd

\* Closing the entry the scan is at keeps the table exact.
LEMMA CloseEntryTable ==
    ASSUME IInv, pc \in {"recv", "send"}, CloseEntry PROVE TableExact'
<1> USE Assumption
<1>1. /\ fds' = [fds EXCEPT ![i] = NoFd] /\ open' = open \ {fds[i]}
      /\ nfds' = nfds /\ i \in Used /\ fds[i] \in Clients
  BY DEF IInv, CloseEntry, Position, Scanning, TypeOK, Used
<1>2. \A k \in Used : fds'[k] = IF k = i THEN NoFd ELSE fds[k]
  BY <1>1 DEF IInv, TypeOK, Used, Slots
<1>3. /\ fds[0] = ListenSd
      /\ \A j, k \in Used : fds[j] = fds[k] /\ fds[j] # NoFd => j = k
      /\ Entries = open
  BY DEF IInv, TableExact, Looping
<1>4. LeftInTable' \ {NoFd} = (LeftInTable \ {NoFd}) \ {fds[i]}
  <2>1. \A k \in Used : k # i /\ fds[k] # NoFd => fds[k] # fds[i]
    BY <1>1, <1>3
  <2> QED  BY <1>1, <1>2, <2>1 DEF LeftInTable, Used
<1>5. Entries' = open'
  BY <1>1, <1>3, <1>4 DEF Entries
<1>6. \A j, k \in Used' : fds'[j] = fds'[k] /\ fds'[j] # NoFd => j = k
  BY <1>1, <1>2, <1>3 DEF Used
<1>7. fds'[0] = ListenSd
  BY <1>1, <1>2, <1>3 DEF IInv, Used, TypeOK
<1> QED  BY <1>5, <1>6, <1>7 DEF TableExact

\* Nor does it take a variable out of its type, or the scan out of the table.
LEMMA CloseEntryType ==
    ASSUME IInv, pc \in {"recv", "send"}, CloseEntry
    PROVE  Position' /\ (UNCHANGED <<queued, peer, sent, unread, replies>> => TypeOK')
<1> USE Assumption
<1>1. /\ fds' = [fds EXCEPT ![i] = NoFd] /\ open' \subseteq open /\ pc' = "scan"
      /\ i' = i + 1 /\ i < current_size /\ current_size <= nfds
      /\ UNCHANGED <<events, revents, nfds, new_sd, current_size>>
  BY DEF IInv, CloseEntry, NextEntry, Position, Scanning
<1>2. i + 1 \in 0 .. FdsSize
  BY <1>1 DEF IInv, TypeOK
<1>3. fds' \in [Slots -> Fd]
  BY <1>1 DEF IInv, TypeOK, Fd
<1>4. ASSUME UNCHANGED <<queued, peer, sent, unread, replies>> PROVE TypeOK'
  BY <1>1, <1>2, <1>3, <1>4 DEF IInv, TypeOK, Looping
<1>5. Position'
  BY <1>1, <1>2 DEF IInv, TypeOK, Position, Ahead, Scanning, Slots
<1> QED  BY <1>4, <1>5

LEMMA SetupStep ==
    ASSUME IInv, Setup PROVE IInv'
<1> USE Assumption
<1>1. TypeOK'
  BY DEF IInv, Setup, Armed, scan, net, Looping, Stopped, Fd, TypeOK
<1>2. TableExact'
  BY DEF IInv, Setup, Looping, Used, Slots, TypeOK, TableExact, Lifecycle,
     Entries, LeftInTable
<1>3. CompactionComplete'
  BY DEF IInv, Setup, CompactionComplete, LeftInTable, Lifecycle, Used, Slots,
     TypeOK
<1>4. EverySlotArmed'
  BY DEF IInv, Setup, Armed, Looping, Used, Slots, TypeOK, EverySlotArmed,
     Lifecycle
<1>5. Position'
  BY DEF IInv, Setup, Position, Scanning
<1>6. Lifecycle'
  BY DEF IInv, Setup, net, TypeOK, Lifecycle
<1>7. Counts'
  BY DEF IInv, Setup, net, Counts
<1>8. Fresh'
  BY DEF IInv, Setup, Fresh, Scanning
<1> QED
  BY <1>1, <1>2, <1>3, <1>4, <1>5, <1>6, <1>7, <1>8 DEF IInv

LEMMA PollStep ==
    ASSUME IInv, Poll PROVE IInv'
<1> USE Assumption
<1>1. TypeOK'
  <2>1. \A d : Report(d) \in {"in", "err", "none"}
    BY DEF Report
  <2>2. revents' \in [Slots -> {"in", "err", "none"}]
    BY <2>1 DEF IInv, Poll, scan, TypeOK
  <2> QED
    BY <2>2 DEF IInv, Poll, scan, net, Looping, Stopped, TypeOK
<1>2. TableExact'
  BY DEF IInv, Poll, Stopped, Used, Fd, TypeOK, TableExact, Entries, LeftInTable
<1>3. CompactionComplete'
  BY DEF IInv, Poll, CompactionComplete
<1>4. EverySlotArmed'
  BY DEF IInv, Poll, Stopped, Used, TypeOK, EverySlotArmed
<1>5. Position'
  BY DEF IInv, Poll, Used, TypeOK, Position, CompactionComplete, LeftInTable,
     Scanning, Ahead
<1>6. Lifecycle'
  BY DEF IInv, Poll, net, Lifecycle
<1>7. Counts'
  BY DEF IInv, Poll, net, Counts
<1>8. Fresh'
  <2> SUFFICES ASSUME pc' = "scan", NEW k \in Ahead', revents'[k] = "in", fds[k] \in Clients
                PROVE  Readable(fds[k])
    BY DEF Poll, Fresh, Scanning, Readable, net
  <2>1. k \in Used /\ k \in Slots
    BY DEF IInv, Poll, Ahead, Used, Slots, TypeOK
  <2>2. Report(fds[k]) = "in"
    BY <2>1 DEF Poll
  <2> QED  BY <2>2 DEF Report
<1> QED
  BY <1>1, <1>2, <1>3, <1>4, <1>5, <1>6, <1>7, <1>8 DEF IInv

LEMMA ScanStep ==
    ASSUME IInv, Scan PROVE IInv'
<1> USE Assumption
<1>1. TypeOK'
  BY DEF IInv, Scan, NextEntry, table, net, Looping, TypeOK
<1>2. TableExact'
  BY DEF IInv, Scan, table, Stopped, Used, Fd, TypeOK, TableExact, Entries,
     LeftInTable
<1>3. CompactionComplete'
  BY DEF IInv, Scan, NextEntry, CompactionComplete
<1>4. EverySlotArmed'
  BY DEF IInv, Scan, table, Stopped, Used, TypeOK, EverySlotArmed
<1>5. Position'
  BY DEF IInv, Scan, NextEntry, table, Slots, Fd, TypeOK, Position, Scanning,
     Ahead
<1>6. Lifecycle'
  BY DEF IInv, Scan, NextEntry, net, Lifecycle
<1>7. Counts'
  BY DEF IInv, Scan, NextEntry, net, Counts
<1>8. Fresh'
  BY DEF IInv, Scan, NextEntry, table, net, TypeOK, Fresh, Scanning, Ahead,
     Readable
<1> QED
  BY <1>1, <1>2, <1>3, <1>4, <1>5, <1>6, <1>7, <1>8 DEF IInv

LEMMA AcceptStep ==
    ASSUME NEW c \in Clients, IInv, Accept(c) PROVE IInv'
<1> USE Assumption
<1>1. TypeOK'
  <2>1. Armed(nfds) \in [Slots -> BOOLEAN]
    BY DEF IInv, Armed, TypeOK
  <2>2. pc = "accept" /\ nfds <= FdsSize /\ nfds + 1 \in 1 .. FdsSize + 1
    BY DEF IInv, TypeOK, Accept
  <2>3. CASE nfds \in Slots
    <3>1. nfds + 1 <= FdsSize
      BY <2>3 DEF IInv, TypeOK, Slots
    <3>2. [fds EXCEPT ![nfds] = c] \in [Slots -> Fd]
      BY DEF IInv, TypeOK, Fd
    <3> QED  BY <2>1, <2>2, <2>3, <3>1, <3>2 DEF IInv, Accept, scan, Looping, TypeOK
  <2>4. CASE nfds \notin Slots
    BY <2>2, <2>4 DEF IInv, Accept, scan, Stopped, TypeOK
  <2> QED  BY <2>3, <2>4
<1>2. TableExact'
  <2> SUFFICES ASSUME nfds \in Slots
                PROVE  TableExact'
    BY DEF IInv, Accept, TableExact, Looping, TypeOK
  <2>1. /\ fds' = [fds EXCEPT ![nfds] = c] /\ nfds' = nfds + 1 /\ open' = open \union {c}
        /\ pc' = "accept" /\ pc = "accept" /\ c \in queued
    BY DEF Accept
  <2>2. \A k \in Used : fds'[k] = fds[k] /\ fds[k] # c
    <3>1. \A k \in Used : fds'[k] = fds[k]
      BY <2>1 DEF IInv, TypeOK, Used, Slots
    <3>2. c \notin Entries
      BY <2>1 DEF IInv, Lifecycle, TableExact, Looping
    <3> QED  BY <3>1, <3>2 DEF Entries, LeftInTable
  <2>3. fds'[nfds] = c /\ Used' = Used \union {nfds} /\ nfds \notin Used
    BY <2>1 DEF IInv, TypeOK, Used, Slots
  <2>4. LeftInTable' = LeftInTable \union {c}
    BY <2>2, <2>3 DEF LeftInTable
  <2>5. Entries' = open'
    BY <2>1, <2>4 DEF IInv, TableExact, Entries, Looping
  <2>6. \A j, k \in Used' : fds'[j] = fds'[k] /\ fds'[j] # NoFd => j = k
    BY <2>1, <2>2, <2>3 DEF IInv, TableExact, Looping
  <2>7. fds'[0] = ListenSd
    BY <2>1, <2>2 DEF IInv, TableExact, Looping, Used, TypeOK
  <2> QED  BY <2>5, <2>6, <2>7 DEF TableExact
<1>3. CompactionComplete'
  BY DEF IInv, Accept, CompactionComplete
<1>4. EverySlotArmed'
  <2>1. CASE nfds \in Slots
    <3>1. events' = [events EXCEPT ![nfds] = TRUE] /\ nfds' = nfds + 1 /\ pc = "accept"
      BY <2>1 DEF Accept, Armed
    <3>2. \A k \in Used' : k \in Slots /\ (k = nfds \/ k \in Used)
      BY <2>1, <3>1 DEF IInv, TypeOK, Used, Slots
    <3> QED  BY <3>1, <3>2 DEF IInv, TypeOK, EverySlotArmed, Looping
  <2>2. CASE nfds \notin Slots
    BY <2>2 DEF Accept, EverySlotArmed, Looping
  <2> QED  BY <2>1, <2>2
<1>5. Position'
  BY DEF IInv, Accept, scan, Slots, TypeOK, Position, Scanning, Ahead
<1>6. Lifecycle'
  BY DEF IInv, Accept, Lifecycle
<1>7. Counts'
  BY DEF IInv, Accept, Counts
<1>8. Fresh'
  BY DEF IInv, Accept, scan, Slots, TypeOK, Position, Fresh, Scanning, Ahead,
     Readable
<1> QED
  BY <1>1, <1>2, <1>3, <1>4, <1>5, <1>6, <1>7, <1>8 DEF IInv

LEMMA AcceptEndsStep ==
    ASSUME IInv, AcceptEnds PROVE IInv'
<1> USE Assumption
<1>1. TypeOK'
  BY DEF IInv, AcceptEnds, NextEntry, table, scan, net, Looping, TypeOK,
     Position
<1>2. TableExact'
  BY DEF IInv, AcceptEnds, table, Stopped, Used, Fd, TypeOK, TableExact,
     Entries, LeftInTable
<1>3. CompactionComplete'
  BY DEF IInv, AcceptEnds, NextEntry, CompactionComplete
<1>4. EverySlotArmed'
  BY DEF IInv, AcceptEnds, table, Stopped, Used, TypeOK, EverySlotArmed
<1>5. Position'
  BY DEF IInv, AcceptEnds, NextEntry, table, TypeOK, Position, Scanning, Ahead
<1>6. Lifecycle'
  BY DEF IInv, AcceptEnds, NextEntry, net, Lifecycle
<1>7. Counts'
  BY DEF IInv, AcceptEnds, NextEntry, net, Counts
<1>8. Fresh'
  BY DEF IInv, AcceptEnds, NextEntry, table, net, Fresh, Scanning, Ahead,
     Readable
<1> QED
  BY <1>1, <1>2, <1>3, <1>4, <1>5, <1>6, <1>7, <1>8 DEF IInv

LEMMA RecvDataStep ==
    ASSUME IInv, RecvData PROVE IInv'
<1> USE Assumption
<1>1. TypeOK'
  BY DEF IInv, RecvData, Left, table, scan, Looping, TypeOK, Position
<1>2. TableExact'
  BY DEF IInv, RecvData, table, Stopped, Used, Fd, TypeOK, TableExact,
     Entries, LeftInTable
<1>3. CompactionComplete'
  BY DEF IInv, RecvData, CompactionComplete
<1>4. EverySlotArmed'
  BY DEF IInv, RecvData, table, Stopped, Used, TypeOK, EverySlotArmed
<1>5. Position'
  BY DEF IInv, RecvData, table, scan, Position, Scanning, Ahead
<1>6. Lifecycle'
  BY DEF IInv, RecvData, Lifecycle
<1>7. Counts'
  BY DEF IInv, RecvData, Left, table, scan, TypeOK, Counts
<1>8. Fresh'
  BY DEF IInv, RecvData, table, scan, Stopped, Used, TypeOK, Position,
     TableExact, Fresh, Scanning, Ahead, Readable
<1> QED
  BY <1>1, <1>2, <1>3, <1>4, <1>5, <1>6, <1>7, <1>8 DEF IInv

LEMMA RecvWouldBlockStep ==
    ASSUME IInv, RecvWouldBlock PROVE IInv'
<1> USE Assumption
<1>1. TypeOK'
  BY DEF IInv, RecvWouldBlock, NextEntry, table, net, Looping, TypeOK, Position
<1>2. TableExact'
  BY DEF IInv, RecvWouldBlock, table, Stopped, Used, Fd, TypeOK, TableExact,
     Entries, LeftInTable
<1>3. CompactionComplete'
  BY DEF IInv, RecvWouldBlock, NextEntry, CompactionComplete
<1>4. EverySlotArmed'
  BY DEF IInv, RecvWouldBlock, table, Stopped, Used, TypeOK, EverySlotArmed
<1>5. Position'
  BY DEF IInv, RecvWouldBlock, NextEntry, table, TypeOK, Position, Scanning,
     Ahead
<1>6. Lifecycle'
  BY DEF IInv, RecvWouldBlock, NextEntry, net, Lifecycle
<1>7. Counts'
  BY DEF IInv, RecvWouldBlock, NextEntry, net, Counts
<1>8. Fresh'
  BY DEF IInv, RecvWouldBlock, NextEntry, table, net, Fresh, Scanning, Ahead,
     Readable
<1> QED
  BY <1>1, <1>2, <1>3, <1>4, <1>5, <1>6, <1>7, <1>8 DEF IInv

LEMMA RecvEndsStep ==
    ASSUME IInv, RecvEnds PROVE IInv'
<1> USE Assumption
<1>1. TypeOK'
  BY CloseEntryType DEF RecvEnds, net
<1>2. TableExact'
  BY CloseEntryTable DEF RecvEnds
<1>3. CompactionComplete'
  BY DEF IInv, RecvEnds, CloseEntry, NextEntry, CompactionComplete
<1>4. EverySlotArmed'
  BY DEF IInv, RecvEnds, CloseEntry, Stopped, Used, TypeOK, EverySlotArmed
<1>5. Position'
  BY CloseEntryType DEF RecvEnds
<1>6. Lifecycle'
  BY DEF IInv, RecvEnds, CloseEntry, NextEntry, net, Lifecycle
<1>7. Counts'
  BY DEF IInv, RecvEnds, CloseEntry, NextEntry, net, Counts
<1>8. Fresh'
  BY DEF IInv, RecvEnds, CloseEntry, NextEntry, net, Fresh, Scanning, Ahead,
     Readable
<1> QED
  BY <1>1, <1>2, <1>3, <1>4, <1>5, <1>6, <1>7, <1>8 DEF IInv

LEMMA SendStep ==
    ASSUME IInv, Send PROVE IInv'
<1> USE Assumption
<1>1. TypeOK'
  <2>1. fds[i] \in Clients /\ replies[fds[i]] + 1 \in 0 .. MaxMsgs
    <3>1. fds[i] \in Clients /\ pc = "send"
      BY DEF IInv, Position, Send
    <3>2. replies[fds[i]] + unread[fds[i]] + 1 <= sent[fds[i]]
      BY <3>1 DEF IInv, Counts
    <3> QED  BY <3>1, <3>2 DEF IInv, TypeOK
  <2>2. replies' \in [Clients -> 0 .. MaxMsgs]
    BY <2>1 DEF IInv, TypeOK, Send
  <2>3. peer' \in [Clients -> {"idle", "open", "fin", "answered", "rst"}]
    BY <2>1 DEF IInv, TypeOK, Send
  <2> QED
    BY <2>2, <2>3 DEF IInv, Send, table, scan, Looping, TypeOK
<1>2. TableExact'
  BY DEF IInv, Send, table, Stopped, Used, TypeOK, Position, TableExact,
     Lifecycle, Entries, LeftInTable
<1>3. CompactionComplete'
  BY DEF IInv, Send, CompactionComplete
<1>4. EverySlotArmed'
  BY DEF IInv, Send, table, Stopped, Used, TypeOK, EverySlotArmed
<1>5. Position'
  BY DEF IInv, Send, table, scan, Position, Scanning, Ahead
<1>6. Lifecycle'
  BY DEF IInv, Send, TypeOK, Lifecycle
<1>7. Counts'
  <2> SUFFICES ASSUME NEW d \in Clients
                PROVE  replies'[d] + unread'[d] + 0 <= sent'[d]
    BY DEF Send, Counts
  <2>1. replies[d] + unread[d] + (IF fds[i] = d THEN 1 ELSE 0) <= sent[d]
    BY DEF IInv, Counts, Send
  <2>2. replies'[d] <= replies[d] + (IF fds[i] = d THEN 1 ELSE 0)
    BY DEF IInv, Send, TypeOK
  <2>3. unread' = unread /\ sent' = sent /\ replies'[d] \in Nat
    BY <1>1 DEF Send, TypeOK
  <2> QED  BY <2>1, <2>2, <2>3 DEF IInv, TypeOK
<1>8. Fresh'
  BY DEF IInv, Send, table, scan, TypeOK, Fresh, Scanning, Ahead, Readable
<1> QED
  BY <1>1, <1>2, <1>3, <1>4, <1>5, <1>6, <1>7, <1>8 DEF IInv

LEMMA SendFailsStep ==
    ASSUME IInv, SendFails PROVE IInv'
<1> USE Assumption
<1>1. TypeOK'
  <2>1. CASE CloseEntry
    BY <2>1, CloseEntryType DEF SendFails, net
  <2>2. CASE pc' = "killed" /\ open' = {} /\ UNCHANGED <<table, scan, new_sd>>
    BY <2>2 DEF IInv, SendFails, table, scan, net, Stopped, TypeOK
  <2> QED  BY <2>1, <2>2 DEF SendFails
<1>2. TableExact'
  <2>1. CASE CloseEntry
    BY <2>1, CloseEntryTable DEF SendFails
  <2>2. CASE pc' = "killed"
    BY <2>2 DEF TableExact, Looping
  <2> QED  BY <2>1, <2>2 DEF SendFails
<1>3. CompactionComplete'
  BY DEF IInv, SendFails, CloseEntry, NextEntry, CompactionComplete
<1>4. EverySlotArmed'
  BY DEF IInv, SendFails, CloseEntry, table, Stopped, Used, TypeOK,
     EverySlotArmed
<1>5. Position'
  <2>1. CASE CloseEntry
    BY <2>1, CloseEntryType DEF SendFails
  <2>2. CASE pc' = "killed"
    BY <2>2 DEF Position, Scanning
  <2> QED  BY <2>1, <2>2 DEF SendFails
<1>6. Lifecycle'
  BY DEF IInv, SendFails, CloseEntry, NextEntry, net, Lifecycle
<1>7. Counts'
  BY DEF IInv, SendFails, CloseEntry, NextEntry, net, TypeOK, Counts
<1>8. Fresh'
  BY DEF IInv, SendFails, CloseEntry, NextEntry, net, Slots, TypeOK, Fresh,
     Scanning, Ahead, Readable
<1> QED
  BY <1>1, <1>2, <1>3, <1>4, <1>5, <1>6, <1>7, <1>8 DEF IInv

LEMMA OptimizeStep ==
    ASSUME IInv, Optimize PROVE IInv'
<1> USE Assumption
<1>1. TypeOK'
  <2>1. CASE fds[i] # NoFd
    BY <2>1 DEF IInv, Optimize, net, Looping, TypeOK
  <2>2. CASE fds[i] = NoFd
    <3>1. PICK beyond \in Fd : fds' = Shifted(beyond)
      BY <2>2 DEF Optimize, Fd
    <3>2. fds' \in [Slots -> Fd]
      BY <3>1 DEF IInv, Shifted, Slots, TypeOK
    <3>3. nfds' = nfds - 1 /\ i' = i /\ i # 0 /\ i < nfds
      BY <2>2 DEF IInv, Optimize, AfterRemoval, TableExact, Looping
    <3> QED
      BY <2>2, <3>2, <3>3 DEF IInv, Optimize, net, Looping, TypeOK
  <2> QED  BY <2>1, <2>2
<1>2. TableExact'
  <2> USE DEF Looping
  <2>1. CASE fds[i] # NoFd
    BY <2>1 DEF IInv, Optimize, net, TableExact, Entries, LeftInTable, Used
  <2>2. CASE fds[i] = NoFd
    <3>1. PICK beyond : fds' = Shifted(beyond)
      BY <2>2 DEF Optimize
    <3>2. /\ nfds' = nfds - 1 /\ open' = open /\ i \in 1 .. nfds - 1
          /\ nfds \in 1 .. FdsSize
      BY <2>2 DEF IInv, Optimize, TableExact, TypeOK
    <3> DEFINE from(k) == IF k < i THEN k ELSE k + 1
    <3>3. \A k \in Used' : fds'[k] = fds[from(k)] /\ from(k) \in Used /\ from(k) # i
      BY <3>1, <3>2 DEF Shifted, Slots, Used
    <3>4. \A k \in Used : k # i => \E j \in Used' : from(j) = k
      <4> SUFFICES ASSUME NEW k \in Used, k # i
                    PROVE  \E j \in Used' : from(j) = k
        OBVIOUS
      <4>1. CASE k < i
        BY <4>1, <3>2 DEF Used
      <4>2. CASE k > i
        <5>1. k - 1 \in Used' /\ from(k - 1) = k
          BY <4>2, <3>2 DEF Used
        <5> QED  BY <5>1
      <4> QED  BY <4>1, <4>2, <3>2 DEF Used
    <3>5. Entries' = Entries
      <4> HIDE DEF from
      <4> QED  BY <2>2, <3>3, <3>4 DEF Entries, LeftInTable
    <3>6. \A j, k \in Used' : fds'[j] = fds'[k] /\ fds'[j] # NoFd => j = k
      <4>1. \A j, k \in Used' : from(j) = from(k) => j = k
        BY <3>2 DEF Used
      <4>2. \A j, k \in Used : fds[j] = fds[k] /\ fds[j] # NoFd => j = k
        BY DEF IInv, TableExact, Optimize
      <4> HIDE DEF from
      <4> QED  BY <3>3, <4>1, <4>2
    <3>7. fds'[0] = ListenSd
      BY <3>1, <3>2 DEF IInv, TableExact, Optimize, Shifted, Slots
    <3> QED
      BY <3>2, <3>5, <3>6, <3>7 DEF IInv, TableExact, Optimize
  <2> QED  BY <2>1, <2>2
<1>3. CompactionComplete'
  BY DEF IInv, Optimize, CompactionComplete
<1>4. EverySlotArmed'
  BY DEF IInv, Optimize, Used, TypeOK, EverySlotArmed
<1>5. Position'
  BY DEF IInv, Optimize, Shifted, AfterRemoval, Slots, TypeOK, Position,
     Scanning
<1>6. Lifecycle'
  BY DEF IInv, Optimize, net, Lifecycle
<1>7. Counts'
  BY DEF IInv, Optimize, net, Counts
<1>8. Fresh'
  BY DEF IInv, Optimize, Fresh, Scanning
<1> QED
  BY <1>1, <1>2, <1>3, <1>4, <1>5, <1>6, <1>7, <1>8 DEF IInv

LEMMA OptimizeDoneStep ==
    ASSUME IInv, OptimizeDone PROVE IInv'
<1> USE Assumption
<1>1. TypeOK'
  BY DEF IInv, OptimizeDone, table, scan, net, Looping, TypeOK
<1>2. TableExact'
  BY DEF IInv, OptimizeDone, table, Stopped, Used, Fd, TypeOK, TableExact,
     Entries, LeftInTable
<1>3. CompactionComplete'
  BY DEF IInv, OptimizeDone, table, Used, TypeOK, Position,
     CompactionComplete, LeftInTable
<1>4. EverySlotArmed'
  BY DEF IInv, OptimizeDone, table, Stopped, Used, TypeOK, EverySlotArmed
<1>5. Position'
  BY DEF IInv, OptimizeDone, Position, Scanning
<1>6. Lifecycle'
  BY DEF IInv, OptimizeDone, net, Lifecycle
<1>7. Counts'
  BY DEF IInv, OptimizeDone, net, Counts
<1>8. Fresh'
  BY DEF IInv, OptimizeDone, Fresh, Scanning
<1> QED
  BY <1>1, <1>2, <1>3, <1>4, <1>5, <1>6, <1>7, <1>8 DEF IInv

LEMMA OutStep ==
    ASSUME IInv, Out PROVE IInv'
<1> USE Assumption
<1>1. TypeOK'
  BY DEF IInv, Out, table, scan, net, Stopped, TypeOK
<1>2. TableExact'
  BY DEF IInv, Out, Looping, TableExact
<1>3. CompactionComplete'
  BY DEF IInv, Out, CompactionComplete
<1>4. EverySlotArmed'
  BY DEF IInv, Out, Looping, EverySlotArmed
<1>5. Position'
  BY DEF IInv, Out, Position, Scanning
<1>6. Lifecycle'
  BY DEF IInv, Out, net, Lifecycle, TableExact, Entries
<1>7. Counts'
  BY DEF IInv, Out, net, Counts
<1>8. Fresh'
  BY DEF IInv, Out, Fresh, Scanning
<1> QED
  BY <1>1, <1>2, <1>3, <1>4, <1>5, <1>6, <1>7, <1>8 DEF IInv

LEMMA ConnectStep ==
    ASSUME NEW c \in Clients, IInv, Connect(c) PROVE IInv'
<1> USE Assumption
<1>1. TypeOK'
  BY DEF IInv, Connect, table, scan, TypeOK
<1>2. TableExact'
  BY DEF IInv, Connect, table, Used, Fd, TableExact, Entries, LeftInTable
<1>3. CompactionComplete'
  BY DEF IInv, Connect, table, Used, CompactionComplete, LeftInTable
<1>4. EverySlotArmed'
  BY DEF IInv, Connect, table, Used, EverySlotArmed
<1>5. Position'
  BY DEF IInv, Connect, table, scan, Position, Ahead
<1>6. Lifecycle'
  BY DEF IInv, Connect, TypeOK, Lifecycle
<1>7. Counts'
  BY DEF IInv, Connect, table, scan, Counts
<1>8. Fresh'
  <2>1. \A k \in Used : pc \in Scanning /\ fds[k] \in Clients => peer[fds[k]] # "idle"
    BY DEF IInv, TableExact, Entries, LeftInTable, Lifecycle, Looping, Scanning
  <2>2. pc \in Scanning => Ahead \subseteq Used
    BY DEF IInv, Position, Ahead, Scanning, Used, TypeOK
  <2> QED
    BY <2>1, <2>2 DEF IInv, Connect, table, scan, TypeOK, Fresh, Scanning,
       Ahead, Readable
<1> QED
  BY <1>1, <1>2, <1>3, <1>4, <1>5, <1>6, <1>7, <1>8 DEF IInv

LEMMA ClientSendStep ==
    ASSUME NEW c \in Clients, IInv, ClientSend(c) PROVE IInv'
<1> USE Assumption
<1>1. TypeOK'
  BY DEF IInv, ClientSend, table, scan, TypeOK, Position, Counts
<1>2. TableExact'
  BY DEF IInv, ClientSend, table, Used, Fd, TableExact, Entries, LeftInTable
<1>3. CompactionComplete'
  BY DEF IInv, ClientSend, table, Used, CompactionComplete, LeftInTable
<1>4. EverySlotArmed'
  BY DEF IInv, ClientSend, table, Used, EverySlotArmed
<1>5. Position'
  BY DEF IInv, ClientSend, table, scan, Position, Ahead
<1>6. Lifecycle'
  BY DEF IInv, ClientSend, table, Lifecycle
<1>7. Counts'
  BY DEF IInv, ClientSend, table, scan, TypeOK, Counts
<1>8. Fresh'
  BY DEF IInv, ClientSend, table, scan, TypeOK, Fresh, Ahead, Readable
<1> QED
  BY <1>1, <1>2, <1>3, <1>4, <1>5, <1>6, <1>7, <1>8 DEF IInv

LEMMA ClientEndsStep ==
    ASSUME NEW c \in Clients, IInv, ClientEnds(c) PROVE IInv'
<1> USE Assumption
<1>1. TypeOK'
  BY DEF IInv, ClientEnds, table, scan, TypeOK
<1>2. TableExact'
  BY DEF IInv, ClientEnds, table, Used, Fd, TableExact, Entries, LeftInTable
<1>3. CompactionComplete'
  BY DEF IInv, ClientEnds, table, Used, CompactionComplete, LeftInTable
<1>4. EverySlotArmed'
  BY DEF IInv, ClientEnds, table, Used, EverySlotArmed
<1>5. Position'
  BY DEF IInv, ClientEnds, table, scan, Position, Ahead
<1>6. Lifecycle'
  BY DEF IInv, ClientEnds, table, Lifecycle
<1>7. Counts'
  BY DEF IInv, ClientEnds, table, scan, Counts
<1>8. Fresh'
  BY DEF IInv, ClientEnds, table, scan, Fresh, Ahead, Readable
<1> QED
  BY <1>1, <1>2, <1>3, <1>4, <1>5, <1>6, <1>7, <1>8 DEF IInv

LEMMA StutterStep ==
    ASSUME IInv, UNCHANGED vars PROVE IInv'
BY DEF IInv, vars, table, scan, net, TypeOK, TableExact, CompactionComplete,
   EverySlotArmed,
    Position, Lifecycle, Counts, Fresh, Entries, LeftInTable, Used, Ahead, Readable

LEMMA Inductive == IInv /\ [Next]_vars => IInv'
<1> SUFFICES ASSUME IInv, [Next]_vars PROVE IInv'
  OBVIOUS
<1>1. CASE Server
  BY <1>1, SetupStep, PollStep, ScanStep, AcceptStep, AcceptEndsStep,
     RecvDataStep,
     RecvWouldBlockStep, RecvEndsStep, SendStep, SendFailsStep, OptimizeStep,
     OptimizeDoneStep, OutStep DEF Server
<1>2. CASE Client
  BY <1>2, ConnectStep, ClientSendStep, ClientEndsStep DEF Client
<1>3. CASE Halted \/ UNCHANGED vars
  BY <1>3, StutterStep DEF Halted
<1> QED  BY <1>1, <1>2, <1>3 DEF Next

THEOREM InvariantHolds == Spec => []IInv
BY InitIInv, Inductive, PTL DEF Spec

-----------------------------------------------------------------------------
\* Every variable keeps its type: the scan stays inside the table, nfds is
\* past the array only after the one write past its end, and the receive
\* buffers never go below empty.
THEOREM TypeCorrect == Spec => []TypeOK
<1>1. IInv => TypeOK
  BY DEF IInv
<1> QED  BY <1>1, InvariantHolds, PTL

\* The table holds exactly the descriptors of the process, each once.
THEOREM TableIsExact == Spec => []TableExact
<1>1. IInv => TableExact
  BY DEF IInv
<1> QED  BY <1>1, InvariantHolds, PTL

\* No closed entry survives a compaction, and every used slot asks for
\* POLLIN.
THEOREM AlwaysReadyToPoll == Spec => []ReadyToPoll
<1>1. IInv => ReadyToPoll
  BY DEF IInv, ReadyToPoll
<1> QED  BY <1>1, InvariantHolds, PTL

\* A process that reached the end of main holds no descriptor.
THEOREM NothingLeaks == Spec => []NoLeakAtExit
<1>1. IInv => NoLeakAtExit
  BY DEF IInv, Lifecycle, NoLeakAtExit
<1> QED  BY <1>1, InvariantHolds, PTL

\* The first recv of a pass never comes back empty-handed: what poll reported
\* of an entry is still true when the scan reaches it.
THEOREM FirstRecvIsReady == Spec => FirstRecvReady
<1>1. IInv /\ [Next]_vars => [pc = "scan" /\ pc' = "recv" => Readable(fds[i])]_vars
  <2> SUFFICES ASSUME IInv, Scan, pc = "scan", pc' = "recv"
               PROVE  Readable(fds[i])
    BY DEF Next, Server, Client, Halted, Setup, Poll, Accept, AcceptEnds,
       RecvData,
           RecvWouldBlock, RecvEnds, Send, SendFails, Optimize, OptimizeDone, Out,
           Connect, ClientSend, ClientEnds, vars
  <2>1. i \in Ahead /\ revents[i] = "in" /\ i \in Used /\ fds[i] # ListenSd
    BY Assumption DEF IInv, Scan, Ahead, NextEntry, Position, Scanning,
       TypeOK, Used
  <2>2. fds[i] \in Clients
    BY <2>1, Assumption DEF IInv, Position, Scanning, TypeOK, Used, Slots, Fd
  <2> QED  BY <2>1, <2>2 DEF IInv, Fresh, Scanning
<1> QED  BY <1>1, InvariantHolds, PTL DEF Spec, FirstRecvReady

-----------------------------------------------------------------------------
(* The server implements PollSet.                                          *)

LEMMA SetInit == Init => Set!Init
BY DEF Init, Set!Init, admitted, watched, closed, Looping

LEMMA SetStep == IInv /\ IInv' /\ [Next]_vars => [Set!Next]_(Set!vars)
<1> SUFFICES ASSUME IInv, IInv', [Next]_vars
             PROVE  Set!Next \/ UNCHANGED <<watched, admitted, closed>>
  BY DEF Set!vars
<1>0. /\ watched = IF pc \in Looping \union {"out"} THEN open ELSE {}
      /\ watched' = IF pc' \in Looping \union {"out"} THEN open' ELSE {}
  BY DEF watched, IInv, TableExact
<1>1. ASSUME watched' = {}, admitted' = admitted, open' \subseteq open
      PROVE  Set!Next
  BY <1>1 DEF Set!Next, Set!Stop, closed
<1>2. CASE \/ Poll \/ Scan \/ AcceptEnds \/ RecvData \/ RecvWouldBlock \/ Send
           \/ Optimize \/ OptimizeDone \/ UNCHANGED vars
  <2>1. /\ open' = open /\ queued' = queued
        /\ \A c \in Clients : (peer'[c] = "idle") <=> (peer[c] = "idle")
        /\ (pc' \in Looping \union {"out"}) <=> (pc \in Looping \union {"out"})
    BY <1>2 DEF Poll, Scan, AcceptEnds, RecvData, RecvWouldBlock, Send,
       Optimize,
       OptimizeDone, NextEntry, net, scan, table, vars, Looping, IInv, TypeOK
  <2> QED  BY <1>0, <2>1 DEF admitted, closed
<1>3. CASE Setup
  <2>1. open = {} /\ watched = {} /\ admitted' = admitted
    BY <1>0, <1>3 DEF Setup, IInv, Lifecycle, Looping, net, admitted
  <2>2. CASE pc' = "poll" /\ open' = {ListenSd}
    <3>1. ListenSd \notin admitted
      BY Assumption DEF admitted
    <3>2. closed' = closed /\ watched' = {ListenSd}
      BY <1>0, <2>1, <2>2, <3>1 DEF closed, Looping
    <3> QED  BY <2>1, <3>2 DEF Set!Next, Set!Start
  <2>3. CASE pc' = "exited"
    BY <1>0, <1>1, <1>3, <2>1, <2>3 DEF Setup, Looping
  <2> QED  BY <1>3, <2>2, <2>3 DEF Setup
<1>4. ASSUME NEW c \in Clients, Accept(c)
      PROVE  Set!Next
  <2>1. /\ pc = "accept" /\ c \in queued /\ queued' = queued \ {c}
        /\ open' = open \union {c} /\ peer' = peer /\ pc' \in {"accept", "undefined"}
    BY <1>4 DEF Accept
  <2>2. c \notin admitted /\ admitted' = admitted \union {c} /\ closed' = closed
    BY <2>1 DEF admitted, closed, IInv, Lifecycle
  <2>3. CASE pc' = "accept"
    <3>1. ListenSd \in watched
      BY <1>0, <2>1, Assumption
         DEF IInv, TableExact, TypeOK, watched, Entries, LeftInTable, Used, Looping
    <3> QED  BY <1>0, <2>1, <2>2, <2>3, <3>1 DEF Looping, Set!Next, Set!Admit
  <2>4. CASE pc' = "undefined"
    BY <1>0, <2>2, <2>4 DEF Looping, Set!Next, Set!Stop
  <2> QED  BY <2>1, <2>3, <2>4
<1>5. ASSUME pc \in {"recv", "send"}, CloseEntry, UNCHANGED net
      PROVE  Set!Next
  <2> DEFINE c == fds[i]
  <2>1. c \in Clients /\ c \in open
    <3>1. c \in Clients /\ i \in Used
      BY <1>5, Assumption DEF IInv, Position, TypeOK, Used, Scanning
    <3> QED
      BY <1>5, <3>1, Assumption DEF IInv, TableExact, Entries, LeftInTable,
         Looping
  <2>2. c \in watched /\ watched' = watched \ {c}
    BY <1>0, <1>5, <2>1 DEF CloseEntry, NextEntry, Looping
  <2>3. c \in admitted /\ admitted' = admitted
    BY <1>5, <2>1 DEF IInv, Lifecycle, admitted, net
  <2>4. closed' = closed \union {c}
    BY <1>5, <2>1, <2>3 DEF closed, CloseEntry
  <2> QED  BY <2>1, <2>2, <2>3, <2>4 DEF Set!Next, Set!Retire
<1>6. CASE RecvEnds
  BY <1>5, <1>6 DEF RecvEnds
<1>7. CASE SendFails
  <2>1. CASE CloseEntry
    BY <1>5, <1>7, <2>1 DEF SendFails
  <2>2. CASE pc' = "killed" /\ open' = {}
    BY <1>0, <1>1, <1>7, <2>2 DEF SendFails, net, admitted, Looping
  <2> QED  BY <1>7, <2>1, <2>2 DEF SendFails
<1>8. CASE Out
  BY <1>0, <1>1, <1>8 DEF Out, net, admitted, Looping
<1>9. CASE Client
  <2>1. /\ open' = open /\ pc' = pc
        /\ {d \in Clients : peer'[d] # "idle"} \ queued' = admitted
    BY <1>9 DEF Client, Connect, ClientSend, ClientEnds, admitted, IInv, TypeOK
  <2> QED  BY <1>0, <2>1 DEF admitted, closed
<1> QED
  BY <1>2, <1>3, <1>4, <1>6, <1>7, <1>8, <1>9 DEF Next, Server, Halted

\* The poll table, its compaction and its overflow implement PollSet.
THEOREM Refinement == Spec => RefinesPollSet
BY SetInit, SetStep, InvariantHolds, PTL DEF Spec, RefinesPollSet, Set!Spec

-----------------------------------------------------------------------------
(* Clients that wait for each reply have at most one message under way.    *)

Pending(c) == IF pc = "send" /\ fds[i] = c THEN 1 ELSE 0

Lockstep ==
    \A c \in Clients :
        /\ peer[c] = "idle" => sent[c] = 0 /\ unread[c] = 0 /\ replies[c] = 0
        /\ peer[c] = "open" /\ c \in queued \union open =>
              /\ sent[c] <= replies[c] + 1
              /\ replies[c] + unread[c] + Pending(c) = sent[c]

LEMMA LockstepStep == IInv /\ Lockstep /\ ~Pipelined /\ [Next]_vars => Lockstep'
<1> SUFFICES ASSUME IInv, Lockstep, ~Pipelined, [Next]_vars, NEW c \in Clients
             PROVE  /\ peer'[c] = "idle" => sent'[c] = 0 /\ unread'[c] = 0 /\ replies'[c] = 0
                    /\ peer'[c] = "open" /\ c \in queued' \union open' =>
                         /\ sent'[c] <= replies'[c] + 1
                         /\ replies'[c] + unread'[c] + Pending(c)' = sent'[c]
  BY DEF Lockstep
<1> USE Assumption DEF Pending
<1>0. /\ sent[c] \in Nat /\ unread[c] \in Nat /\ replies[c] \in Nat
      /\ peer[c] = "idle" => sent[c] = 0 /\ unread[c] = 0 /\ replies[c] = 0
      /\ peer[c] = "open" /\ c \in queued \union open =>
            /\ sent[c] <= replies[c] + 1
            /\ replies[c] + unread[c] + Pending(c) = sent[c]
      /\ pc = "setup" => open = {}
      /\ pc \in {"recv", "send"} => fds[i] \in Clients /\ fds[i] \in open
  <2>1. pc \in {"recv", "send"} => i \in Used /\ fds[i] \in Clients
    BY DEF IInv, Position, TypeOK, Scanning, Used
  <2>2. pc \in {"recv", "send"} => fds[i] \in open
    BY <2>1 DEF IInv, TableExact, Entries, LeftInTable, Looping
  <2> QED  BY <2>1, <2>2 DEF IInv, TypeOK, Lockstep, Lifecycle
<1>1. CASE Setup \/ Poll \/ Scan \/ AcceptEnds \/ Optimize \/ OptimizeDone \/ Out
           \/ RecvWouldBlock \/ UNCHANGED vars
  <2>1. /\ UNCHANGED <<queued, peer, sent, unread, replies>> /\ Pending(c)' = Pending(c)
        /\ c \in open' => c \in open
    BY <1>1 DEF Setup, Poll, Scan, AcceptEnds, Optimize, OptimizeDone, Out,
       RecvWouldBlock,
       NextEntry, net, vars, table, scan
  <2> QED  BY <1>0, <2>1
<1>2. ASSUME NEW d \in Clients, Accept(d)
      PROVE  /\ UNCHANGED <<peer, sent, unread, replies>> /\ Pending(c)' = Pending(c)
             /\ queued' \union open' = queued \union open
  BY <1>2 DEF Accept, Looping
<1>3. CASE RecvData
  <2>1. /\ unread' = [unread EXCEPT ![fds[i]] = Left(@)] /\ unread[fds[i]] > 0
        /\ pc = "recv" /\ pc' = "send" /\ UNCHANGED <<fds, i, open, queued, peer, sent, replies>>
    BY <1>3 DEF RecvData, table, scan
  <2>2. CASE fds[i] = c
    <3>1. unread'[c] = Left(unread[c]) /\ unread[c] > 0
      BY <2>1, <2>2 DEF IInv, TypeOK
    <3>2. unread[c] = 1 => unread'[c] = 0
      BY <3>1 DEF Left
    <3>3. peer[c] # "idle"
      BY <1>0, <3>1
    <3> QED  BY <1>0, <2>1, <2>2, <3>1, <3>2, <3>3
  <2>3. CASE fds[i] # c
    <3>1. unread'[c] = unread[c]
      BY <2>1, <2>3 DEF IInv, TypeOK
    <3> QED  BY <1>0, <2>1, <2>3, <3>1
  <2> QED  BY <2>2, <2>3
<1>4. ASSUME pc \in {"recv", "send"}, CloseEntry, UNCHANGED net
      PROVE  /\ UNCHANGED <<queued, peer, sent, unread, replies>> /\ pc' = "scan"
             /\ open' = open \ {fds[i]}
  BY <1>4 DEF CloseEntry, NextEntry, net
<1>5. CASE RecvEnds \/ (SendFails /\ CloseEntry)
  <2>1. /\ UNCHANGED <<queued, peer, sent, unread, replies>> /\ pc' = "scan"
        /\ open' = open \ {fds[i]}
    BY <1>4, <1>5 DEF RecvEnds, SendFails
  <2>2. fds[i] \in open /\ queued \intersect open = {}
    BY <1>0, <1>5 DEF IInv, Lifecycle, RecvEnds, SendFails
  <2> QED  BY <1>0, <2>1, <2>2
<1>6. CASE SendFails /\ pc' = "killed"
  BY <1>0, <1>6 DEF SendFails, net, CloseEntry, NextEntry, IInv, Lifecycle,
     table, scan
<1>7. CASE Send
  BY <1>0, <1>7 DEF Send, table, scan, IInv, TypeOK
<1>8. CASE Client
  <2>1. ASSUME NEW d \in Clients, Connect(d)
        PROVE  /\ UNCHANGED <<pc, fds, i, open, sent, unread, replies>>
               /\ peer[d] = "idle" /\ queued' = queued \union {d}
               /\ peer' = [peer EXCEPT ![d] = "open"]
    BY <2>1 DEF Connect, table, scan
  <2>2. ASSUME NEW d \in Clients, Connect(d)
        PROVE  pc = "send" => fds[i] # d
    BY <1>0, <2>1, <2>2 DEF IInv, Lifecycle
  <2>3. ASSUME NEW d \in Clients, ClientSend(d)
        PROVE  /\ UNCHANGED <<pc, fds, i, open, queued, peer, replies>>
               /\ peer[d] = "open" /\ replies[d] = sent[d]
               /\ sent' = [sent EXCEPT ![d] = @ + 1]
               /\ unread' = [unread EXCEPT ![d] = @ + 1]
    BY <2>3 DEF ClientSend, table, scan
  <2>4. ASSUME NEW d \in Clients, ClientEnds(d)
        PROVE  /\ UNCHANGED <<pc, fds, i, open, queued, sent, unread, replies>>
               /\ peer[d] \in {"open", "answered"}
               /\ \E end \in {"fin", "rst"} : peer' = [peer EXCEPT ![d] = end]
    BY <2>4 DEF ClientEnds, table, scan
  <2> QED
    BY <1>0, <1>8, <2>1, <2>2, <2>3, <2>4 DEF Client, IInv, TypeOK
<1>9. CASE SendFails
  BY <1>5, <1>6, <1>9 DEF SendFails
<1> QED
  BY <1>0, <1>1, <1>2, <1>3, <1>5, <1>7, <1>8, <1>9 DEF Next, Server, Halted

\* Clients that wait get one reply for each message the server has read.
THEOREM OneReplyPerMessage == Spec => [](~Pipelined => EchoPerMessage)
<1>1. Init => (~Pipelined => Lockstep)
  BY DEF Init, Lockstep
<1>2. IInv /\ (~Pipelined => Lockstep) /\ [Next]_vars => (~Pipelined => Lockstep)'
  BY LockstepStep
<1>3. IInv /\ (~Pipelined => Lockstep) => (~Pipelined => EchoPerMessage)
  BY DEF Lockstep, Pending, EchoPerMessage, IInv, TypeOK
<1> QED  BY <1>1, <1>2, <1>3, InvariantHolds, PTL DEF Spec
=============================================================================
