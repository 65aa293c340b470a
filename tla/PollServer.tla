----------------------------- MODULE PollServer -----------------------------
(***************************************************************************)
(* The poll(2) echo server of src/poll_socket.c and the clients it serves. *)
(* The server is one thread that loops over poll, a scan of the reported   *)
(* descriptors and a compaction of the table; clients and kernel act       *)
(* between its system calls.  An action is one system call of the server   *)
(* with the assignments that follow it.                                    *)
(*                                                                         *)
(* A descriptor is named by the client it leads to.  A message is a        *)
(* NUL-terminated string that fits the buffer, and only counted.  revents  *)
(* is "in" (POLLIN alone), "err" (POLLIN with POLLERR or POLLHUP) or       *)
(* "none".  An operator named <name>_<defect> is <name> with a defect,      *)
(* used by the mutation checks only.                                       *)
(***************************************************************************)
EXTENDS Integers

CONSTANTS Clients,             \* each client makes one connection
          ListenSd,            \* listen_sd
          NoFd,                \* the descriptor -1
          FdsSize,             \* the length of fds, 32 in the code
          MaxMsgs,             \* bound: messages a client sends
          BufMsgs,             \* how many messages one recv can return
          AcceptedNonblocking, \* does accept() hand down O_NONBLOCK?
          Pipelined            \* may a client send before it has its reply?

ASSUME Assumption ==
    /\ ListenSd \notin Clients
    /\ NoFd \notin Clients \union {ListenSd}
    /\ FdsSize \in Nat \ {0}
    /\ MaxMsgs \in Nat
    /\ BufMsgs \in Nat \ {0}
    /\ {AcceptedNonblocking, Pipelined} \subseteq BOOLEAN

VARIABLES pc,           \* where main() is
          fds,          \* fds[k].fd
          events,       \* fds[k].events = POLLIN
          revents,      \* fds[k].revents
          nfds, current_size, i,
          new_sd,       \* what accept() returned last: "fd" or "-1"
          open,         \* the descriptors the process holds
          queued,       \* connections that wait for accept()
          peer,         \* what the server's kernel knows of the client's end
          sent,         \* messages the client has sent
          unread,       \* messages in the server's receive buffer
          replies       \* replies the client has got

table == <<fds, events, revents, nfds>>
scan  == <<current_size, i>>
net   == <<queued, peer, sent, unread, replies>>
vars  == <<pc, table, scan, new_sd, open, net>>

Slots   == 0 .. FdsSize - 1
Used    == 0 .. nfds - 1
Looping == {"poll", "scan", "accept", "recv", "send", "optimize"}
Stopped == {"exited", "killed", "undefined"}

\* Unused entries hold 0 after the memset; no step reads them as used ones.
Init ==
    /\ pc = "setup"
    /\ fds = [k \in Slots |-> NoFd]
    /\ events = [k \in Slots |-> FALSE]
    /\ revents = [k \in Slots |-> "none"]
    /\ nfds = 1 /\ current_size = 0 /\ i = 0
    /\ new_sd = "fd"
    /\ open = {} /\ queued = {}
    /\ peer = [c \in Clients |-> "idle"]
    /\ sent = [c \in Clients |-> 0]
    /\ unread = [c \in Clients |-> 0]
    /\ replies = [c \in Clients |-> 0]

-----------------------------------------------------------------------------
\* fds[k].events = POLLIN.
Armed_FirstOnly(k) == [events EXCEPT ![0] = TRUE]
Armed(k) == [events EXCEPT ![k] = TRUE]

\* The listening socket is set up and put in slot 0, or one of the calls
\* fails, what was opened is closed and the process exits.
Setup ==
    /\ pc = "setup"
    /\ \/ /\ pc' = "poll"
          /\ open' = {ListenSd}
          /\ fds' = [fds EXCEPT ![0] = ListenSd]
          /\ events' = Armed(0)
       \/ pc' = "exited" /\ UNCHANGED <<open, fds, events>>
    /\ UNCHANGED <<revents, nfds, scan, new_sd, net>>

\* recv on the connection of c would return at once.
Readable(c) == unread[c] > 0 \/ peer[c] # "open"

\* What poll reports for a descriptor that was asked for POLLIN.
Report(d) ==
    IF d = ListenSd /\ queued # {} THEN "in"
    ELSE IF d \in Clients /\ peer[d] = "rst" THEN "err"
    ELSE IF d \in Clients /\ Readable(d) THEN "in"
    ELSE "none"

\* poll returns, with something ready or after one second, or fails.
Poll ==
    /\ pc = "poll"
    /\ \/ /\ pc' = "scan"
          /\ revents' = [k \in Slots |-> IF k \notin Used THEN revents[k]
                                         ELSE IF events[k] THEN Report(fds[k])
                                         ELSE "none"]
          /\ current_size' = nfds
          /\ i' = 0
       \/ pc' = "out" /\ UNCHANGED <<revents, scan>>
    /\ UNCHANGED <<fds, events, nfds, new_sd, open, net>>

NextEntry == pc' = "scan" /\ i' = i + 1 /\ UNCHANGED current_size

\* Entries whose revents is not exactly POLLIN are skipped.
Scan ==
    /\ pc = "scan"
    /\ IF i >= current_size
       THEN pc' = "optimize" /\ i' = 0
       ELSE \/ /\ revents[i] # "in"
               /\ NextEntry
            \/ /\ revents[i] = "in"
               /\ pc' = IF fds[i] = ListenSd THEN "accept" ELSE "recv"
               /\ UNCHANGED i
    /\ UNCHANGED <<table, current_size, new_sd, open, net>>

\* accept returns a connection, which takes the slot after the last: nothing
\* compares nfds with the length of fds.  With the table full the entry is
\* written past its end, and what the program does then is undefined.
Accept(c) ==
    /\ pc = "accept" /\ new_sd # "-1"
    /\ c \in queued
    /\ queued' = queued \ {c}
    /\ open' = open \union {c}
    /\ nfds' = nfds + 1
    /\ IF nfds \in Slots
       THEN fds' = [fds EXCEPT ![nfds] = c] /\ events' = Armed(nfds) /\ UNCHANGED pc
       ELSE pc' = "undefined" /\ UNCHANGED <<fds, events>>
    /\ UNCHANGED <<revents, scan, new_sd, peer, sent, unread, replies>>

\* The accept loop ends: nothing queued (EWOULDBLOCK), another error, or
\* new_sd is still -1 from an earlier pass and the loop is not entered.
AcceptEnds ==
    /\ pc = "accept"
    /\ \/ new_sd = "-1" /\ NextEntry
       \/ new_sd # "-1" /\ queued = {} /\ NextEntry
       \/ new_sd # "-1" /\ pc' = "out" /\ UNCHANGED scan
    /\ new_sd' = "-1"
    /\ UNCHANGED <<table, open, net>>

\* close_conn is set: the descriptor is closed and its slot marked.
CloseEntry_KeepsSlot ==
    open' = open \ {fds[i]} /\ NextEntry /\ UNCHANGED <<table, new_sd>>

CloseEntry_Forgotten == NextEntry /\ UNCHANGED <<table, new_sd, open>>

CloseEntry ==
    /\ open' = open \ {fds[i]}
    /\ fds' = [fds EXCEPT ![i] = NoFd]
    /\ NextEntry
    /\ UNCHANGED <<events, revents, nfds, new_sd>>

\* What is left of n unread messages once recv has filled the buffer.
Left_FullBuffer(n) == n - BufMsgs
Left(n) == IF n > BufMsgs THEN n - BufMsgs ELSE 0

RecvData ==
    /\ pc = "recv"
    /\ unread[fds[i]] > 0
    /\ unread' = [unread EXCEPT ![fds[i]] = Left(@)]
    /\ pc' = "send"
    /\ UNCHANGED <<table, scan, new_sd, open, queued, peer, sent, replies>>

\* EWOULDBLOCK.  A blocking descriptor waits in recv instead, and then no
\* action of the server is enabled.
RecvWouldBlock ==
    /\ pc = "recv"
    /\ AcceptedNonblocking
    /\ ~Readable(fds[i])
    /\ NextEntry
    /\ UNCHANGED <<table, new_sd, open, net>>

\* recv returns 0 after the client's FIN, or fails after its RST.
Over_OnlyOnError(c) == peer[c] = "rst"
Over(c) == (unread[c] = 0 /\ peer[c] \in {"fin", "answered"}) \/ peer[c] = "rst"

RecvEnds ==
    /\ pc = "recv"
    /\ Over(fds[i])
    /\ CloseEntry
    /\ UNCHANGED net

\* The first string in the buffer is echoed.  The kernel of a client that
\* has closed will answer it with a reset.
Send ==
    /\ pc = "send"
    /\ LET c == fds[i] IN
       \/ /\ peer[c] = "open"
          /\ replies' = [replies EXCEPT ![c] = @ + 1]
          /\ UNCHANGED peer
       \/ /\ peer[c] \in {"fin", "answered"}
          /\ peer' = [peer EXCEPT ![c] = "answered"]
          /\ UNCHANGED replies
    /\ pc' = "recv"
    /\ UNCHANGED <<table, scan, new_sd, open, queued, sent, unread>>

\* send fails: EWOULDBLOCK when the client does not read, ECONNRESET when it
\* has reset the connection.  A reset that answers what was sent after the
\* client's close means EPIPE, which without MSG_NOSIGNAL comes as SIGPIPE.
\* Which of the two resets it was is not kept: both outcomes are possible.
SendFails ==
    /\ pc = "send"
    /\ \/ /\ \/ AcceptedNonblocking /\ peer[fds[i]] = "open"
             \/ peer[fds[i]] = "rst"
          /\ CloseEntry
       \/ /\ peer[fds[i]] = "rst"
          /\ pc' = "killed" /\ open' = {}
          /\ UNCHANGED <<table, scan, new_sd>>
    /\ UNCHANGED net

\* The compaction.  Only fd moves; the inner loop reads one slot past the
\* used ones, which is past the end of fds (any value) in a full table.
Shifted_OffByOne(beyond) ==
    [k \in Slots |-> IF k \in i + 1 .. nfds - 1 /\ k + 1 < FdsSize
                     THEN fds[k + 1] ELSE fds[k]]
Shifted(beyond) ==
    [k \in Slots |-> IF k \notin i .. nfds - 1 THEN fds[k]
                     ELSE IF k + 1 < FdsSize THEN fds[k + 1] ELSE beyond]

\* The shift brought the next entry to slot i: i-- before the loop's i++.
AfterRemoval_NoStepBack == i + 1
AfterRemoval == i

Optimize ==
    /\ pc = "optimize" /\ i < nfds
    /\ \/ /\ fds[i] # NoFd
          /\ i' = i + 1
          /\ UNCHANGED <<fds, nfds>>
       \/ /\ fds[i] = NoFd
          /\ \E beyond \in Clients \union {ListenSd, NoFd} : fds' = Shifted(beyond)
          /\ nfds' = nfds - 1
          /\ i' = AfterRemoval
    /\ UNCHANGED <<pc, events, revents, current_size, new_sd, open, net>>

OptimizeDone_Rescan ==
    /\ pc = "optimize" /\ i >= nfds
    /\ pc' = IF nfds < current_size THEN "scan" ELSE "poll"
    /\ current_size' = nfds /\ i' = 0
    /\ UNCHANGED <<table, new_sd, open, net>>

OptimizeDone ==
    /\ pc = "optimize" /\ i >= nfds
    /\ pc' = "poll"
    /\ UNCHANGED <<table, scan, new_sd, open, net>>

\* out: every descriptor left in the table is closed.
LeftInTable_OffByOne == {fds[k] : k \in 0 .. nfds - 2}
LeftInTable == {fds[k] : k \in Used}

Out ==
    /\ pc = "out"
    /\ open' = open \ LeftInTable
    /\ pc' = "exited"
    /\ UNCHANGED <<table, scan, new_sd, net>>

-----------------------------------------------------------------------------
(* The clients, and the kernel under them: external.                       *)

Connect(c) ==
    /\ ListenSd \in open
    /\ peer[c] = "idle"
    /\ peer' = [peer EXCEPT ![c] = "open"]
    /\ queued' = queued \union {c}
    /\ UNCHANGED <<pc, table, scan, new_sd, open, sent, unread, replies>>

ClientSend(c) ==
    /\ c \in queued \union open
    /\ peer[c] = "open"
    /\ sent[c] < MaxMsgs
    /\ Pipelined \/ replies[c] = sent[c]
    /\ sent' = [sent EXCEPT ![c] = @ + 1]
    /\ unread' = [unread EXCEPT ![c] = @ + 1]
    /\ UNCHANGED <<pc, table, scan, new_sd, open, queued, peer, replies>>

\* The client closes or aborts, or its kernel's answer to data that came
\* after its close arrives.
ClientEnds(c) ==
    /\ c \in queued \union open
    /\ \E end \in {"fin", "rst"} :
         /\ peer[c] = "open" \/ (peer[c] = "answered" /\ end = "rst")
         /\ peer' = [peer EXCEPT ![c] = end]
    /\ UNCHANGED <<pc, table, scan, new_sd, open, queued, sent, unread, replies>>

-----------------------------------------------------------------------------
Server ==
    \/ Setup \/ Poll \/ Scan
    \/ \E c \in Clients : Accept(c)
    \/ AcceptEnds
    \/ RecvData \/ RecvWouldBlock \/ RecvEnds
    \/ Send \/ SendFails
    \/ Optimize \/ OptimizeDone \/ Out

Client == \E c \in Clients : Connect(c) \/ ClientSend(c) \/ ClientEnds(c)

Halted == pc \in Stopped /\ UNCHANGED vars

Next == Server \/ Client \/ Halted

Spec == Init /\ [][Next]_vars

\* The scheduler runs the server; nothing makes a client act.
FairSpec == Spec /\ WF_vars(Server)

-----------------------------------------------------------------------------
Fd == Clients \union {ListenSd, NoFd}
Entries == LeftInTable \ {NoFd}

\* Every variable has its type: no receive buffer goes below empty, the scan
\* stays inside the table, and nfds is never less than 1 nor more than one
\* past fds (poll_socket.c:26): that one is the overflow of AddedToPollList.
TypeOK ==
    /\ pc \in Looping \union Stopped \union {"setup", "out"}
    /\ fds \in [Slots -> Fd]
    /\ events \in [Slots -> BOOLEAN]
    /\ revents \in [Slots -> {"in", "err", "none"}]
    /\ nfds \in 1 .. FdsSize + 1
    /\ pc # "undefined" => nfds <= FdsSize
    /\ current_size \in 0 .. FdsSize
    /\ i \in 0 .. FdsSize
    /\ new_sd \in {"fd", "-1"}
    /\ open \subseteq Clients \union {ListenSd}
    /\ queued \subseteq Clients
    /\ peer \in [Clients -> {"idle", "open", "fin", "answered", "rst"}]
    /\ sent \in [Clients -> 0 .. MaxMsgs]
    /\ unread \in [Clients -> 0 .. MaxMsgs]
    /\ replies \in [Clients -> 0 .. MaxMsgs]

\* The table and the process agree: slot 0 is the listening socket, no
\* descriptor is in two slots, and the descriptors in the table are exactly
\* those the process holds, whatever has been accepted, closed and shifted.
TableExact ==
    pc \in Looping \union {"out"} =>
        /\ fds[0] = ListenSd
        /\ \A j, k \in Used : fds[j] = fds[k] /\ fds[j] # NoFd => j = k
        /\ Entries = open

\* The compaction leaves no closed entry behind, however many connections
\* ended in one scan and wherever they were.
CompactionComplete == pc = "poll" => NoFd \notin LeftInTable

\* Every used slot asks for POLLIN, although the compaction moves only fd.
EverySlotArmed == pc \in Looping => \A k \in Used : events[k]

\* What poll is given whenever it is called: no closed entry and no slot it
\* would not look at, so that it neither spins nor forgets a connection.
ReadyToPoll == CompactionComplete /\ EverySlotArmed

\* A process that reaches the end of main has closed all it opened.
NoLeakAtExit == pc = "exited" => open = {}

\* The first recv of a pass is on a connection that has something for it,
\* though clients and compaction have run since poll said so.
FirstRecvReady == [][pc = "scan" /\ pc' = "recv" => Readable(fds[i])]_vars

\* To a client that waits for each reply, the server has sent one reply for
\* each message it has read, unless it is about to (or the client is gone).
EchoPerMessage ==
    \A c \in Clients \intersect open :
        peer[c] = "open" /\ ~(pc = "send" /\ fds[i] = c)
            => replies[c] = sent[c] - unread[c]

\* A message on an accepted connection is read, unless the connection is
\* closed or reset first: no connection makes the server forget another.
Served ==
    \A c \in Clients :
        (unread[c] > 0 /\ c \in open)
            ~> (unread[c] = 0 \/ c \notin open \/ peer[c] = "rst")

\* The descriptor of a client that has closed is closed by the server.
ClosedPeerReleased ==
    \A c \in Clients : (c \in open /\ peer[c] = "fin") ~> c \notin open

\* What poll_socket.c:104-106 says: the server goes back to poll only with
\* every queued connection accepted.
AcceptsAllQueued ==
    [][pc = "accept" /\ pc' = "scan" => queued = {}]_vars

\* What poll_socket.c:120 says of every connection that accept() returns: it is
\* added at the end of the poll list.
AddedToPollList ==
    [][\A c \in open' \ open : c \in {fds'[k] : k \in Slots}]_vars

\* What poll_socket.c:95 says: an entry is skipped only without POLLIN, so
\* the connection of a client that reset it is looked at, and closed.
ResetPeerReleased ==
    \A c \in Clients : (c \in open /\ peer[c] = "rst") ~> c \notin open

\* The server implements PollSet: the table is the set of its entries.
admitted == {c \in Clients : peer[c] # "idle"} \ queued
watched == IF pc \in Looping \union {"out"} THEN Entries ELSE {}
closed == admitted \ open
Set == INSTANCE PollSet WITH
    watched <- watched, admitted <- admitted, closed <- closed
RefinesPollSet == Set!Spec
=============================================================================
