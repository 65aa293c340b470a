--------------------------- MODULE UdpServerProofs ---------------------------
(***************************************************************************)
(* Proofs about UdpServer, for every set of clients.  An answer carries no *)
(* name; that it reaches the client it was meant for rests on two facts:   *)
(* one client has the port at a time (OnePort), and while none has gone,   *)
(* what is on its way belongs to a client that still waits (OnTheWay).     *)
(***************************************************************************)
EXTENDS UdpServer, TLAPS

NobodyGone == \A c \in Clients : cpc[c] # "gone"

OnePort == \A c, d \in Clients : HasPort(c) /\ HasPort(d) => c = d

\* Each request is in one place, from Ask to Take.
OnTheWay ==
    NobodyGone =>
        /\ \A c \in requests \union asked \union inbox : cpc[c] = "wait"
        /\ inbox \intersect (requests \union asked) = {}

\* Nothing is on its way for a client that has not asked.
Asked ==
    \A c \in requests \union asked \union inbox : cpc[c] \in {"wait", "done", "gone"}

IInv == UdpTypeOK /\ Asked /\ OnePort /\ OnTheWay /\ OwnAnswer

LEMMA InitIInv == UdpInit => IInv
BY DEF UdpInit, IInv, UdpTypeOK, Asked, OnePort, HasPort, OnTheWay, OwnAnswer

\* Each step keeps each part.
LEMMA Inductive == IInv /\ [UdpNext]_udpVars => IInv'
<1> SUFFICES ASSUME IInv, [UdpNext]_udpVars PROVE IInv'
  OBVIOUS
<1>1. CASE Setup
  <2>1. UdpTypeOK'
    BY <1>1 DEF IInv, Setup, UdpTypeOK
  <2>2. Asked'
    BY <1>1 DEF IInv, Setup, Asked
  <2>3. OnePort'
    BY <1>1 DEF IInv, Setup, OnePort, HasPort
  <2>4. OnTheWay'
    BY <1>1 DEF IInv, Setup, OnTheWay, NobodyGone
  <2>5. OwnAnswer'
    BY <1>1 DEF IInv, Setup, OwnAnswer
  <2> QED  BY <2>1, <2>2, <2>3, <2>4, <2>5 DEF IInv
<1>2. CASE Recv
  <2>1. UdpTypeOK'
    BY <1>2 DEF IInv, Recv, Left, UdpTypeOK
  <2>2. Asked'
    BY <1>2 DEF IInv, Recv, Left, Asked
  <2>3. OnePort'
    BY <1>2 DEF IInv, Recv, OnePort, HasPort
  <2>4. OnTheWay'
    BY <1>2 DEF IInv, Recv, Left, OnTheWay, NobodyGone
  <2>5. OwnAnswer'
    BY <1>2 DEF IInv, Recv, OwnAnswer
  <2> QED  BY <2>1, <2>2, <2>3, <2>4, <2>5 DEF IInv
<1>3. CASE Answer
  <2>1. UdpTypeOK'
    BY <1>3 DEF IInv, Answer, UdpTypeOK
  <2>2. Asked'
    BY <1>3 DEF IInv, Answer, Asked
  <2>3. OnePort'
    BY <1>3 DEF IInv, Answer, OnePort, HasPort
  <2>4. OnTheWay'
    BY <1>3 DEF IInv, Answer, UdpTypeOK, OnTheWay, NobodyGone
  <2>5. OwnAnswer'
    BY <1>3 DEF IInv, Answer, OwnAnswer
  <2> QED  BY <2>1, <2>2, <2>3, <2>4, <2>5 DEF IInv
<1>4. ASSUME NEW c \in Clients, Bind(c) PROVE IInv'
  <2>0. PICK to \in {"bound", "failed"} :
          /\ cpc[c] = "start" /\ cpc' = [cpc EXCEPT ![c] = to] /\ (to = "bound" => PortFree)
          /\ UNCHANGED <<upc, sfd, asked, requests, lost, inbox, got>>
    BY <1>4 DEF Bind
  <2>1. UdpTypeOK'
    BY <2>0 DEF IInv, UdpTypeOK
  <2>2. Asked'
    BY <2>0 DEF IInv, UdpTypeOK, Asked
  <2>3. OnePort'
    BY <2>0 DEF IInv, UdpTypeOK, PortFree, OnePort, HasPort
  <2>4. OnTheWay'
    BY <2>0 DEF IInv, UdpTypeOK, OnTheWay, NobodyGone
  <2>5. OwnAnswer'
    BY <2>0 DEF IInv, UdpTypeOK, OwnAnswer
  <2> QED  BY <2>1, <2>2, <2>3, <2>4, <2>5 DEF IInv
<1>5. ASSUME NEW c \in Clients, Ask(c) PROVE IInv'
  <2>1. UdpTypeOK'
    BY <1>5 DEF IInv, Ask, UdpTypeOK, Asked
  <2>2. Asked'
    BY <1>5 DEF IInv, Ask, UdpTypeOK, Asked
  <2>3. OnePort'
    BY <1>5 DEF IInv, Ask, OnePort, HasPort
  <2>4. OnTheWay'
    BY <1>5 DEF IInv, Ask, UdpTypeOK, OnTheWay, NobodyGone
  <2>5. OwnAnswer'
    BY <1>5 DEF IInv, Ask, OwnAnswer
  <2> QED  BY <2>1, <2>2, <2>3, <2>4, <2>5 DEF IInv
<1>6. ASSUME NEW c \in Clients, Take(c) PROVE IInv'
  <2>1. UdpTypeOK'
    BY <1>6 DEF IInv, Take, UdpTypeOK
  <2>2. Asked'
    BY <1>6 DEF IInv, Take, Asked
  <2>3. OnePort'
    BY <1>6 DEF IInv, Take, OnePort, HasPort
  <2>4. OnTheWay'
    BY <1>6 DEF IInv, Take, UdpTypeOK, OnePort, HasPort, OnTheWay, NobodyGone
  <2>5. OwnAnswer'
    BY <1>6 DEF IInv, Take, UdpTypeOK, OnePort, HasPort, OnTheWay, NobodyGone,
       OwnAnswer
  <2> QED  BY <2>1, <2>2, <2>3, <2>4, <2>5 DEF IInv
<1>7. ASSUME NEW c \in Clients, Gone(c) PROVE IInv'
  <2>1. UdpTypeOK'
    BY <1>7 DEF IInv, Gone, UdpTypeOK
  <2>2. Asked'
    BY <1>7 DEF IInv, Gone, Asked
  <2>3. OnePort'
    BY <1>7 DEF IInv, Gone, OnePort, HasPort
  <2>4. OnTheWay'
    BY <1>7 DEF IInv, Gone, OnTheWay, NobodyGone
  <2>5. OwnAnswer'
    BY <1>7 DEF IInv, Gone, OwnAnswer
  <2> QED  BY <2>1, <2>2, <2>3, <2>4, <2>5 DEF IInv
<1>8. CASE UNCHANGED udpVars
  BY <1>8 DEF udpVars, IInv, UdpTypeOK, Asked, OnePort, HasPort, OnTheWay,
     NobodyGone, OwnAnswer
<1> QED
  BY <1>1, <1>2, <1>3, <1>4, <1>5, <1>6, <1>7, <1>8 DEF UdpNext, Client, UdpQuiet

\* The parts together hold in every state.
THEOREM InvariantHolds == UdpSpec => []IInv
<1> QED  BY InitIInv, Inductive, PTL DEF UdpSpec

\* Every variable keeps its type, and a datagram the server holds is no longer
\* in its socket.
THEOREM TypeCorrect == UdpSpec => []UdpTypeOK
<1>1. IInv => UdpTypeOK
  BY DEF IInv
<1> QED  BY <1>1, InvariantHolds, PTL

\* While no client ends without its answer, each that took an answer took its own, for any
\* number of clients and any loss.
THEOREM AnswersReachTheirClient == UdpSpec => []OwnAnswer
<1>1. IInv => OwnAnswer
  BY DEF IInv
<1> QED  BY <1>1, InvariantHolds, PTL
==============================================================================
