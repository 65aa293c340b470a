------------------------------ MODULE TcpServer ------------------------------
(***************************************************************************)
(* src/socket_tcp.c: a server that answers one connection at a time with   *)
(* the first line of a file, and the clients the same program runs with    *)
(* -c.  The server keeps one buffer for what it receives and what it       *)
(* sends; the model names each cell of it by where its byte came from.     *)
(***************************************************************************)
EXTENDS Integers, FiniteSets

CONSTANTS Clients,  \* the clients, each named by its connection
          NoFd,     \* the descriptor -1
          MaxFds,   \* descriptors the server may hold besides sfd and stdio
          BufSize   \* the length of buf, 500 in the code

ASSUME Assumption ==
    /\ NoFd \notin Clients
    /\ {NoFd, "blank", "line", "junk"} \intersect Clients = {}
    /\ MaxFds \in Nat /\ BufSize \in Nat \ {0, 1}

VARIABLES file,      \* what the file is: "line", "empty" or "missing"
          pc,        \* where work_as_server() is
          sfd,       \* "none", "bound", "elsewhere" (listens, but on no port
                     \* of ours), "idle" (does not listen) or "closed"
          client_sock_fd,
          held,      \* the connections whose descriptor the server holds
          buf,
          shown,     \* what the server printed for a client: the cells
          why,       \* why the server exited
          cpc,       \* where the client is
          conn,      \* the connection: "none", "refused", "queued", "up", "down"
          arrived,   \* bytes of the client's data that wait in the server
          reply      \* cells of the answer that wait in the client

server  == <<file, pc, sfd, client_sock_fd, held, buf, shown, why>>
clients == <<cpc, conn, arrived, reply>>
vars    == <<server, clients>>

Cells == 0 .. BufSize - 1
Content == Clients \union {"blank", "line", "junk"}

Init ==
    /\ file \in {"line", "empty", "missing"}
    /\ pc = "setup" /\ sfd = "none" /\ client_sock_fd = NoFd /\ held = {}
    /\ buf \in {[k \in Cells |-> "junk"], [k \in Cells |-> "blank"]}
    /\ shown = [c \in Clients |-> {}] /\ why = "running"
    /\ cpc = [c \in Clients |-> "connect"]
    /\ conn = [c \in Clients |-> "none"]
    /\ arrived = [c \in Clients |-> 0]
    /\ reply = [c \in Clients |-> {}]

\* The cells of a string in buf: those before the first blank one.
Text(b) == {b[k] : k \in {k \in Cells : \A j \in 0 .. k : b[j] # "blank"}}

Exit(reason) ==
    /\ pc' = "exited" /\ why' = reason /\ held' = {} /\ sfd' = "closed"
    /\ conn' = [c \in Clients |-> IF conn[c] \in {"queued", "up"} THEN "down" ELSE conn[c]]

-----------------------------------------------------------------------------
\* The addresses are tried in turn.  A socket whose setsockopt failed is used
\* without bind; a failed listen is only reported.
Setup ==
    /\ pc = "setup"
    /\ \/ /\ pc' = "accept"
          /\ sfd' \in {"bound", "elsewhere", "idle"}
          /\ UNCHANGED <<held, why, conn>>
       \/ Exit("setup")
    /\ UNCHANGED <<client_sock_fd, buf, shown, file, cpc, arrived, reply>>

Accept(c) ==
    /\ pc = "accept" /\ sfd = "bound"
    /\ conn[c] = "queued" /\ Cardinality(held) < MaxFds
    /\ conn' = [conn EXCEPT ![c] = "up"]
    /\ held' = held \union {c} /\ client_sock_fd' = c
    /\ pc' = "recv"
    /\ UNCHANGED <<file, sfd, buf, shown, why, cpc, arrived, reply>>

\* accept fails: sfd is closed, and the loop goes on with the descriptor -1.
AcceptFails ==
    /\ pc = "accept"
    /\ sfd' = "closed" /\ client_sock_fd' = NoFd
    /\ conn' = [c \in Clients |-> IF conn[c] = "queued" THEN "down" ELSE conn[c]]
    /\ pc' = "recv"
    /\ UNCHANGED <<file, held, buf, shown, why, cpc, arrived, reply>>

Drop(c) ==
    /\ held' = held \ {c}
    /\ conn' = [conn EXCEPT ![c] = "down"]

\* memset(buf, 0, sizeof(buf))
Cleared_Not(b) == b
Cleared(b) == [k \in Cells |-> "blank"]

\* recv overwrites the start of buf with the n bytes that came, or with none
\* of them at the client's end of stream; the string in buf is printed.
Recv(c) ==
    /\ pc = "recv" /\ client_sock_fd = c
    /\ arrived[c] > 0 \/ cpc[c] = "done"
    /\ LET got == [k \in Cells |-> IF k < arrived[c] THEN c ELSE buf[k]]
       IN  shown' = [shown EXCEPT ![c] = Text(got)] /\ buf' = Cleared(got)
    /\ arrived' = [arrived EXCEPT ![c] = 0]
    /\ pc' = "open"
    /\ UNCHANGED <<file, sfd, client_sock_fd, held, why, cpc, conn, reply>>

RecvFails ==
    /\ pc = "recv"
    /\ \/ client_sock_fd = NoFd /\ UNCHANGED <<held, conn>>
       \/ client_sock_fd # NoFd /\ cpc[client_sock_fd] = "done" /\ Drop(client_sock_fd)
    /\ pc' = "accept"
    /\ UNCHANGED <<file, sfd, client_sock_fd, buf, shown, why, cpc, arrived, reply>>

\* fgets puts the first n bytes and a terminator.
FirstLine(n) ==
    [k \in Cells |-> IF k < n THEN "line" ELSE IF k = n THEN "blank" ELSE buf[k]]

ReadFile ==
    /\ pc = "open" /\ Cardinality(held) < MaxFds
    /\ \/ /\ file = "line"
          /\ \E n \in 1 .. BufSize - 1 :
               buf' = FirstLine(n)
          /\ pc' = "send"
          /\ UNCHANGED <<sfd, held, why, conn>>
       \/ /\ file = "empty"
          /\ pc' = "accept"
          /\ UNCHANGED <<sfd, held, buf, why, conn>>
       \/ /\ file = "missing" /\ Exit("file") /\ UNCHANGED buf
    /\ UNCHANGED <<file, client_sock_fd, shown, cpc, arrived, reply>>

\* No descriptor is left for the file.
OpenFails ==
    /\ pc = "open" /\ Cardinality(held) = MaxFds
    /\ Exit("descriptors")
    /\ UNCHANGED <<file, client_sock_fd, buf, shown, cpc, arrived, reply>>

Send_Skipped ==
    /\ pc = "send" /\ pc' = "accept"
    /\ UNCHANGED <<file, sfd, client_sock_fd, held, buf, shown, why, clients>>

\* The answer is sent; client_sock_fd stays open unless send fails.
Send ==
    /\ pc = "send"
    /\ LET c == client_sock_fd IN
       \/ /\ cpc[c] # "done"
          /\ reply' = [reply EXCEPT ![c] = Text(buf)]
          /\ UNCHANGED <<held, conn>>
       \/ cpc[c] = "done" /\ UNCHANGED <<held, conn, reply>>
       \/ cpc[c] = "done" /\ Drop(c) /\ UNCHANGED reply
    /\ pc' = "accept"
    /\ UNCHANGED <<file, sfd, client_sock_fd, buf, shown, why, cpc, arrived>>

-----------------------------------------------------------------------------
Client(c, from, to) == cpc[c] = from /\ cpc' = [cpc EXCEPT ![c] = to] /\ UNCHANGED server

\* Every client connects from port 9191: while the connection of another is
\* there, and its client too, there can be no second one; and what is left of
\* an earlier one may or may not be in the way.
InUse(d) == conn[d] \in {"queued", "up"} /\ cpc[d] # "done"
Left(d)  == conn[d] \in {"queued", "up", "down"}

Outcomes(c) ==
    CASE sfd # "bound" \/ (\E d \in Clients \ {c} : InUse(d)) -> {"refused"}
      [] sfd = "bound" /\ (\A d \in Clients \ {c} : ~Left(d)) -> {"queued"}
      [] OTHER -> {"queued", "refused"}

\* The result of connect is not looked at.
Connect(c) ==
    /\ Client(c, "connect", "send")
    /\ \E outcome \in Outcomes(c) : conn' = [conn EXCEPT ![c] = outcome]
    /\ UNCHANGED <<arrived, reply>>

\* The client ends short of connect: setsockopt, bind or the address failed,
\* or it was killed.
ClientFails(c) ==
    /\ Client(c, "connect", "done")
    /\ UNCHANGED <<conn, arrived, reply>>

\* Any string of at least one byte that fits the option's buffer.
ClientSend(c) ==
    /\ Client(c, "send", "recv")
    /\ IF conn[c] \in {"queued", "up"}
       THEN \E n \in 1 .. BufSize - 1 : arrived' = [arrived EXCEPT ![c] = n]
       ELSE UNCHANGED arrived
    /\ UNCHANGED <<conn, reply>>

\* recv returns the answer, or fails; the client prints its buffer and ends.
ClientRecv(c) ==
    /\ Client(c, "recv", "done")
    /\ reply[c] # {} \/ conn[c] \in {"refused", "down"}
    /\ reply' = [reply EXCEPT ![c] = IF reply[c] = {} THEN {"junk"} ELSE reply[c]]
    /\ UNCHANGED <<conn, arrived>>

ClientKilled(c) ==
    /\ \E from \in {"send", "recv"} : Client(c, from, "done")
    /\ UNCHANGED <<conn, arrived, reply>>

-----------------------------------------------------------------------------
Server ==
    \/ Setup \/ AcceptFails \/ RecvFails \/ ReadFile \/ OpenFails \/ Send
    \/ \E c \in Clients : Accept(c) \/ Recv(c)

Peer(c) == Connect(c) \/ ClientSend(c) \/ ClientRecv(c)

Ended == pc = "exited" /\ (\A c \in Clients : cpc[c] = "done") /\ UNCHANGED vars

Next == Server \/ Ended \/ \E c \in Clients : Peer(c) \/ ClientFails(c) \/ ClientKilled(c)

Spec == Init /\ [][Next]_vars

\* The scheduler runs server and clients.  accept may fail but need not, and
\* nothing kills a client.
Fairness ==
    /\ WF_vars(Setup \/ RecvFails \/ ReadFile \/ OpenFails \/ Send
               \/ \E c \in Clients : Recv(c))
    /\ \A c \in Clients : SF_vars(Accept(c)) /\ WF_vars(Peer(c))

FairSpec == Spec /\ Fairness

-----------------------------------------------------------------------------
\* Every variable has its type, and the descriptors the server holds are
\* those of the connections it has not closed.
TypeOK ==
    /\ file \in {"line", "empty", "missing"}
    /\ pc \in {"setup", "accept", "recv", "open", "send", "exited"}
    /\ sfd \in {"none", "bound", "elsewhere", "idle", "closed"}
    /\ client_sock_fd \in Clients \union {NoFd}
    /\ held = {c \in Clients : conn[c] = "up"} /\ Cardinality(held) <= MaxFds
    /\ buf \in [Cells -> Content]
    /\ shown \in [Clients -> SUBSET Content]
    /\ why \in {"running", "setup", "file", "descriptors"}
    /\ cpc \in [Clients -> {"connect", "send", "recv", "done"}]
    /\ conn \in [Clients -> {"none", "refused", "queued", "up", "down"}]
    /\ arrived \in [Clients -> Cells]
    /\ reply \in [Clients -> SUBSET Content]

\* Although one buffer serves both directions, and recv neither ends its
\* string nor clears its tail, what a client sent is never printed for another
\* client or sent to one: the tail is the file's line or the initial junk.
NoCrossClientData ==
    \A c \in Clients : shown[c] \union reply[c] \subseteq {c, "line", "junk"}

\* With a line in the file, a client whose connection is made and whose data
\* is sent gets that line, although the descriptors of those before it stay
\* open and their connections linger, as long as one is left for the file:
\* unless the client is killed or the server loses its listening socket.
Unclosed == {c \in Clients : conn[c] \in {"queued", "up"}}

Answered ==
    \A c \in Clients :
        (/\ file = "line" /\ conn[c] = "queued" /\ cpc[c] = "recv"
         /\ Cardinality(Unclosed) < MaxFds)
            ~> (\/ "line" \in reply[c]
                \/ cpc[c] = "done" /\ reply[c] = {}
                \/ sfd = "closed" /\ why = "running")
=============================================================================
