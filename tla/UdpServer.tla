------------------------------ MODULE UdpServer ------------------------------
(***************************************************************************)
(* src/socket_udp.c: a server that answers every datagram with a greeting, *)
(* and the clients the same program runs with -c.  All clients use port    *)
(* 9192, one at a time; each sends one datagram and takes the first one    *)
(* that comes.  The network may lose datagrams, not duplicate them.        *)
(***************************************************************************)
CONSTANT Clients     \* runs of the client

VARIABLES upc,       \* work_as_server(): "setup", "recv", "answer" or "exited"
          sfd,       \* "none", "bound", or "unbound" after a failed setsockopt
          asked,     \* the client whose datagram buf holds
          requests,  \* the clients whose datagrams wait in the server's socket
          cpc,       \* "start", "bound", "wait", "done", "failed" or "gone"
          lost,      \* has the network lost a datagram?
          inbox,     \* answers that wait at port 9192: the clients they answer
          got        \* the client whose answer a client took; itself at first

udpVars == <<upc, sfd, asked, requests, cpc, lost, inbox, got>>

UdpInit ==
    /\ upc = "setup" /\ sfd = "none" /\ asked = {} /\ requests = {}
    /\ cpc = [c \in Clients |-> "start"] /\ lost = FALSE
    /\ inbox = {} /\ got = [c \in Clients |-> c]

\* The addresses are tried in turn; a socket whose setsockopt failed is used
\* without bind, and then nothing ever reaches it.
Setup ==
    /\ upc = "setup"
    /\ \/ upc' = "recv" /\ sfd' \in {"bound", "unbound"}
       \/ upc' = "exited" /\ UNCHANGED sfd
    /\ UNCHANGED <<asked, requests, cpc, lost, inbox, got>>

Left(c) == requests \ {c}

Recv_Dropped ==
    /\ upc = "recv"
    /\ \E c \in requests : requests' = Left(c)
    /\ UNCHANGED <<upc, asked, sfd, cpc, lost, inbox, got>>

Recv ==
    /\ upc = "recv"
    /\ \E c \in requests : asked' = {c} /\ requests' = Left(c)
    /\ upc' = "answer"
    /\ UNCHANGED <<sfd, cpc, lost, inbox, got>>

\* Whoever is at port 9192 now gets the answer, or nobody.
HasPort(c) == cpc[c] \in {"bound", "wait"}

Answer ==
    /\ upc = "answer"
    /\ \/ (\E c \in Clients : HasPort(c)) /\ inbox' = inbox \union asked /\ UNCHANGED lost
       \/ lost' = TRUE /\ UNCHANGED inbox
       \/ (\A c \in Clients : ~HasPort(c)) /\ UNCHANGED <<inbox, lost>>
    /\ asked' = {} /\ upc' = "recv"
    /\ UNCHANGED <<sfd, requests, cpc, got>>

-----------------------------------------------------------------------------
\* bind fails while another client has the port, and may fail without.
PortFree_Shared == TRUE
PortFree == \A d \in Clients : ~HasPort(d)

Bind(c) ==
    /\ cpc[c] = "start"
    /\ \/ PortFree /\ cpc' = [cpc EXCEPT ![c] = "bound"]
       \/ cpc' = [cpc EXCEPT ![c] = "failed"]
    /\ UNCHANGED <<upc, sfd, asked, requests, lost, inbox, got>>

\* Nobody tells the client that a datagram was lost, or that no server was
\* there to take it.
Ask(c) ==
    /\ cpc[c] = "bound"
    /\ cpc' = [cpc EXCEPT ![c] = "wait"]
    /\ \/ sfd = "bound" /\ requests' = requests \union {c} /\ UNCHANGED lost
       \/ lost' = TRUE /\ UNCHANGED requests
    /\ UNCHANGED <<upc, sfd, asked, inbox, got>>

\* The first datagram is taken, whomever it was meant for; closing the socket
\* drops the others.
Take(c) ==
    /\ cpc[c] = "wait"
    /\ \E d \in inbox : got' = [got EXCEPT ![c] = d]
    /\ inbox' = {}
    /\ cpc' = [cpc EXCEPT ![c] = "done"]
    /\ UNCHANGED <<upc, sfd, asked, requests, lost>>

\* A client ends without its answer: it was killed, found no address to ask,
\* or its recvfrom failed, which is only reported.
Gone(c) ==
    /\ HasPort(c)
    /\ cpc' = [cpc EXCEPT ![c] = "gone"] /\ inbox' = {}
    /\ UNCHANGED <<upc, sfd, asked, requests, lost, got>>

-----------------------------------------------------------------------------
Client(c) == Bind(c) \/ Ask(c) \/ Take(c)

\* The server waits for ever when no client is left to ask.
UdpQuiet == requests = {} /\ asked = {} /\ upc # "setup" /\ UNCHANGED udpVars

UdpNext == Setup \/ Recv \/ Answer \/ UdpQuiet \/ \E c \in Clients : Client(c) \/ Gone(c)

UdpSpec == UdpInit /\ [][UdpNext]_udpVars

\* The scheduler runs every process; the kernel's queues are served in turn.
UdpFairness ==
    /\ WF_udpVars(Setup) /\ WF_udpVars(Recv) /\ WF_udpVars(Answer)
    /\ \A c \in Clients : WF_udpVars(Client(c))

UdpFairSpec == UdpSpec /\ UdpFairness

-----------------------------------------------------------------------------
\* Every variable has its type, and the server holds at most one datagram,
\* which is no longer in its socket.
UdpTypeOK ==
    /\ upc \in {"setup", "recv", "answer", "exited"}
    /\ sfd \in {"none", "bound", "unbound"}
    /\ asked \in {{}} \union {{c} : c \in Clients}
    /\ requests \subseteq Clients \ asked /\ inbox \subseteq Clients
    /\ cpc \in [Clients -> {"start", "bound", "wait", "done", "failed", "gone"}]
    /\ lost \in BOOLEAN
    /\ got \in [Clients -> Clients]

\* Clients share one port and an answer does not say whose it is, yet while
\* none ends without its answer each takes the one to its own datagram.
OwnAnswer ==
    (\A c \in Clients : cpc[c] # "gone") => \A c \in Clients : got[c] = c

\* A client that has asked a bound server gets an answer if no datagram is
\* lost, whatever came before it at the port.
Answered ==
    \A c \in Clients :
        (c \in requests /\ cpc[c] = "wait") ~> cpc[c] \in {"done", "gone"} \/ lost
=============================================================================
