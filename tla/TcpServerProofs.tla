--------------------------- MODULE TcpServerProofs ---------------------------
(***************************************************************************)
(* Proofs about TcpServer, for every set of clients, every limit of        *)
(* descriptors and every length of the buffer.  What one client sent does  *)
(* not reach another because no byte of it outlives its handler (Unowned): *)
(* whatever recv leaves behind a string, none of it is a client's.         *)
(***************************************************************************)
EXTENDS TcpServer, FiniteSetTheorems, TLAPS

\* Between two steps no cell of the buffer came from a client.
Unowned == \A k \in Cells : buf[k] \in {"blank", "line", "junk"}

\* A client has no connection before it connects, and the server does not
\* hold a connection without a client to answer while it answers.
Lifecycle ==
    /\ \A c \in Clients : cpc[c] = "connect" => conn[c] = "none"
    /\ pc \in {"open", "send"} => client_sock_fd \in Clients

\* TypeOK bounds the number of descriptors, which are finitely many.
TcpInv == IsFiniteSet(held) /\ TypeOK /\ Unowned /\ Lifecycle /\ NoCrossClientData

-----------------------------------------------------------------------------
\* A string in the buffer has no cell that ends it, and no cell the buffer
\* does not have.
LEMMA TextCells ==
    ASSUME NEW b, NEW S, \A k \in Cells : b[k] \in S
    PROVE  Text(b) \subseteq S \ {"blank"}
<1> SUFFICES ASSUME NEW k \in Cells, \A j \in 0 .. k : b[j] # "blank"
             PROVE  b[k] \in S \ {"blank"}
  BY DEF Text
<1>1. k \in 0 .. k
  BY Assumption DEF Cells
<1> QED  BY <1>1

\* Closing a connection keeps held the set of the connections that are up.
LEMMA DropKeeps ==
    ASSUME TypeOK, IsFiniteSet(held), NEW c, Drop(c)
    PROVE  /\ IsFiniteSet(held')
           /\ conn' \in [Clients -> {"none", "refused", "queued", "up", "down"}]
           /\ held' = {d \in Clients : conn'[d] = "up"}
           /\ Cardinality(held') <= MaxFds
           /\ \A d \in Clients : conn'[d] = conn[d] \/ d = c
<1>1. IsFiniteSet(held') /\ Cardinality(held') <= Cardinality(held)
  <2>1. held' \subseteq held
    BY DEF Drop
  <2> QED  BY <2>1, FS_Subset
<1>2. Cardinality(held') \in Nat /\ Cardinality(held) \in Nat
  BY <1>1, FS_CardinalityType
<1>3. Cardinality(held') <= MaxFds
  BY <1>1, <1>2, Assumption DEF TypeOK
<1> QED  BY <1>1, <1>3 DEF Drop, TypeOK

\* Leaving the program closes everything.
LEMMA ExitKeeps ==
    ASSUME TypeOK, NEW reason, Exit(reason)
    PROVE  /\ IsFiniteSet(held')
           /\ conn' \in [Clients -> {"none", "refused", "queued", "up", "down"}]
           /\ held' = {d \in Clients : conn'[d] = "up"}
           /\ Cardinality(held') <= MaxFds
           /\ \A d \in Clients : conn[d] = "none" => conn'[d] = "none"
<1>1. IsFiniteSet({}) /\ Cardinality({}) = 0
  BY FS_EmptySet
<1>2. held' = {} /\ conn' = [c \in Clients |-> IF conn[c] \in {"queued", "up"} THEN "down" ELSE conn[c]]
  BY DEF Exit
<1>3. \A d \in Clients : conn'[d] # "up"
  BY <1>2
<1>4. 0 <= MaxFds
  BY Assumption
<1> QED  BY <1>1, <1>2, <1>3, <1>4 DEF TypeOK

-----------------------------------------------------------------------------
LEMMA InitTcpInv == Init => TcpInv
<1> SUFFICES ASSUME Init PROVE TcpInv
  OBVIOUS
<1>1. IsFiniteSet({}) /\ Cardinality({}) = 0
  BY FS_EmptySet
<1>2. IsFiniteSet(held) /\ Cardinality(held) <= MaxFds
  BY <1>1, Assumption DEF Init
<1>3. \A k \in Cells : buf[k] \in {"blank", "line", "junk"}
  BY DEF Init
<1>4. buf \in [Cells -> Content]
  BY DEF Init, Content
<1>5. arrived \in [Clients -> Cells]
  BY Assumption DEF Init, Cells
<1>6. TypeOK
  BY <1>2, <1>4, <1>5 DEF Init, TypeOK
<1> QED  BY <1>2, <1>3, <1>6 DEF Init, TcpInv, Unowned, Lifecycle, NoCrossClientData

LEMMA SetupStep == ASSUME TcpInv, Setup PROVE TcpInv'
<1>1. CASE \E reason : Exit(reason)
  <2>1. PICK reason : Exit(reason)
    BY <1>1
  <2>2. why' = "setup" /\ pc' = "exited" /\ sfd' = "closed"
    BY <1>1 DEF Setup, Exit
  <2> QED  BY <2>1, <2>2, ExitKeeps
            DEF Setup, TcpInv, TypeOK, Unowned, Lifecycle, NoCrossClientData
<1>2. CASE ~\E reason : Exit(reason)
  BY <1>2 DEF Setup, TcpInv, TypeOK, Unowned, Lifecycle, NoCrossClientData
<1> QED  BY <1>1, <1>2

LEMMA AcceptStep == ASSUME TcpInv, NEW c \in Clients, Accept(c) PROVE TcpInv'
<1>1. c \notin held
  BY DEF Accept, TcpInv, TypeOK
<1>2. IsFiniteSet(held') /\ Cardinality(held') = Cardinality(held) + 1
  BY <1>1, FS_AddElement DEF Accept, TcpInv
<1>3. Cardinality(held) \in Nat
  BY FS_CardinalityType DEF TcpInv
<1>4. Cardinality(held') <= MaxFds
  BY <1>2, <1>3, Assumption DEF Accept
<1>5. held' = {d \in Clients : conn'[d] = "up"}
  BY DEF Accept, TcpInv, TypeOK
<1>6. TypeOK'
  BY <1>4, <1>5 DEF Accept, TcpInv, TypeOK
<1>7. Lifecycle'
  BY DEF Accept, TcpInv, Lifecycle
<1> QED  BY <1>2, <1>6, <1>7 DEF Accept, TcpInv, Unowned, NoCrossClientData

LEMMA AcceptFailsStep == ASSUME TcpInv, AcceptFails PROVE TcpInv'
<1>1. held' = {d \in Clients : conn'[d] = "up"}
  BY DEF AcceptFails, TcpInv, TypeOK
<1>2. TypeOK'
  BY <1>1 DEF AcceptFails, TcpInv, TypeOK
<1> QED  BY <1>2 DEF AcceptFails, TcpInv, Unowned, Lifecycle, NoCrossClientData

\* The bytes of the client are printed for it, and cleared.
LEMMA RecvStep == ASSUME TcpInv, NEW c \in Clients, Recv(c) PROVE TcpInv'
<1> DEFINE got == [k \in Cells |-> IF k < arrived[c] THEN c ELSE buf[k]]
<1>1. \A k \in Cells : got[k] \in {c, "blank", "line", "junk"}
  BY DEF TcpInv, Unowned
<1>2. Text(got) \subseteq {c, "blank", "line", "junk"} \ {"blank"}
  <2> HIDE DEF got
  <2> QED  BY <1>1, TextCells
<1>3. shown' = [shown EXCEPT ![c] = Text(got)] /\ buf' = [k \in Cells |-> "blank"]
  BY DEF Recv, Cleared
<1>4. arrived' = [arrived EXCEPT ![c] = 0] /\ 0 \in Cells
  BY Assumption DEF Recv, Cells
<1> HIDE DEF got
<1>5. TypeOK'
  <2>1. shown' \in [Clients -> SUBSET Content]
    BY <1>2, <1>3 DEF TcpInv, TypeOK, Content
  <2>2. buf' \in [Cells -> Content]
    BY <1>3 DEF Content
  <2>3. arrived' \in [Clients -> Cells]
    BY <1>4 DEF TcpInv, TypeOK
  <2> QED  BY <2>1, <2>2, <2>3 DEF Recv, TcpInv, TypeOK
<1>6. Unowned'
  BY <1>3 DEF Unowned
<1>7. Lifecycle'
  BY DEF Recv, TcpInv, Lifecycle
<1>8. NoCrossClientData'
  <2> SUFFICES ASSUME NEW d \in Clients
               PROVE  shown'[d] \union reply'[d] \subseteq {d, "line", "junk"}
    BY DEF NoCrossClientData
  <2>1. reply'[d] \subseteq {d, "line", "junk"}
    BY DEF Recv, TcpInv, NoCrossClientData
  <2>2. shown'[d] = IF d = c THEN Text(got) ELSE shown[d]
    BY <1>3 DEF TcpInv, TypeOK
  <2>3. shown[d] \subseteq {d, "line", "junk"}
    BY DEF TcpInv, NoCrossClientData
  <2> QED  BY <1>2, <2>1, <2>2, <2>3
<1> QED  BY <1>5, <1>6, <1>7, <1>8 DEF Recv, TcpInv

LEMMA RecvFailsStep == ASSUME TcpInv, RecvFails PROVE TcpInv'
<1>1. CASE Drop(client_sock_fd)
  BY <1>1, DropKeeps
     DEF RecvFails, TcpInv, TypeOK, Unowned, Lifecycle, NoCrossClientData
<1>2. CASE UNCHANGED <<held, conn>>
  BY <1>2 DEF RecvFails, TcpInv, TypeOK, Unowned, Lifecycle, NoCrossClientData
<1> QED  BY <1>1, <1>2 DEF RecvFails

LEMMA ReadFileStep == ASSUME TcpInv, ReadFile PROVE TcpInv'
<1>1. CASE Exit("file") /\ UNCHANGED buf
  <2>1. why' = "file" /\ pc' = "exited" /\ sfd' = "closed"
    BY <1>1 DEF Exit
  <2> QED  BY <1>1, <2>1, ExitKeeps
            DEF ReadFile, TcpInv, TypeOK, Unowned, Lifecycle, NoCrossClientData
<1>2. CASE pc' = "accept" /\ UNCHANGED <<sfd, held, buf, why, conn>>
  BY <1>2 DEF ReadFile, TcpInv, TypeOK, Unowned, Lifecycle, NoCrossClientData
<1>3. ASSUME NEW n \in 1 .. BufSize - 1, buf' = FirstLine(n), pc' = "send",
             UNCHANGED <<sfd, held, why, conn>>
      PROVE  TcpInv'
  <2>1. \A k \in Cells : buf'[k] \in {"blank", "line", "junk"}
    BY <1>3 DEF FirstLine, TcpInv, Unowned
  <2>2. buf' \in [Cells -> Content]
    BY <1>3, <2>1 DEF FirstLine, Content
  <2> QED  BY <1>3, <2>1, <2>2
            DEF ReadFile, TcpInv, TypeOK, Unowned, Lifecycle, NoCrossClientData
<1> QED  BY <1>1, <1>2, <1>3 DEF ReadFile

LEMMA OpenFailsStep == ASSUME TcpInv, OpenFails PROVE TcpInv'
<1>1. Exit("descriptors") /\ why' = "descriptors" /\ pc' = "exited" /\ sfd' = "closed"
  BY DEF OpenFails, Exit
<1> QED  BY <1>1, ExitKeeps
         DEF OpenFails, TcpInv, TypeOK, Unowned, Lifecycle, NoCrossClientData

\* What is sent is a string of the buffer, and no cell of that is a client's.
LEMMA SendStep == ASSUME TcpInv, Send PROVE TcpInv'
<1>1. Text(buf) \subseteq {"line", "junk"}
  BY TextCells DEF TcpInv, Unowned
<1>2. reply' = reply \/ reply' = [reply EXCEPT ![client_sock_fd] = Text(buf)]
  BY DEF Send
<1>3. reply' \in [Clients -> SUBSET Content]
  BY <1>1, <1>2 DEF TcpInv, TypeOK, Content
<1>4. NoCrossClientData'
  BY <1>1, <1>2 DEF Send, TcpInv, TypeOK, NoCrossClientData
<1>5. CASE Drop(client_sock_fd)
  BY <1>3, <1>4, <1>5, DropKeeps DEF Send, TcpInv, TypeOK, Unowned, Lifecycle
<1>6. CASE UNCHANGED <<held, conn>>
  BY <1>3, <1>4, <1>6 DEF Send, TcpInv, TypeOK, Unowned, Lifecycle
<1> QED  BY <1>5, <1>6 DEF Send

LEMMA PeerStep ==
    ASSUME TcpInv, NEW c \in Clients, Peer(c) \/ ClientFails(c) \/ ClientKilled(c)
    PROVE  TcpInv'
<1> USE DEF Client, server
<1>1. CASE Connect(c)
  <2>0. PICK outcome \in {"queued", "refused"} : conn' = [conn EXCEPT ![c] = outcome]
    <3>1. Outcomes(c) \subseteq {"queued", "refused"}
      BY DEF Outcomes
    <3> QED  BY <1>1, <3>1 DEF Connect
  <2>1. held' = {d \in Clients : conn'[d] = "up"}
    BY <1>1, <2>0 DEF Connect, TcpInv, TypeOK, Lifecycle
  <2>2. TypeOK'
    BY <1>1, <2>0, <2>1 DEF Connect, TcpInv, TypeOK
  <2> QED  BY <1>1, <2>0, <2>2 DEF Connect, TcpInv, TypeOK, Unowned, Lifecycle, NoCrossClientData
<1>2. CASE ClientSend(c)
  <2>1. arrived' \in [Clients -> Cells]
    BY <1>2, Assumption DEF ClientSend, TcpInv, TypeOK, Cells
  <2> QED  BY <1>2, <2>1
            DEF ClientSend, TcpInv, TypeOK, Unowned, Lifecycle, NoCrossClientData
<1>3. CASE ClientRecv(c)
  BY <1>3 DEF ClientRecv, TcpInv, TypeOK, Content, Unowned, Lifecycle, NoCrossClientData
<1>4. CASE ClientKilled(c)
  BY <1>4 DEF ClientKilled, TcpInv, TypeOK, Unowned, Lifecycle, NoCrossClientData
<1>5. CASE ClientFails(c)
  BY <1>5 DEF ClientFails, TcpInv, TypeOK, Unowned, Lifecycle, NoCrossClientData
<1> QED  BY <1>1, <1>2, <1>3, <1>4, <1>5 DEF Peer

\* The parts together hold in every state.
THEOREM InvariantHolds == Spec => []TcpInv
<1>1. TcpInv /\ [Next]_vars => TcpInv'
  <2> SUFFICES ASSUME TcpInv, [Next]_vars PROVE TcpInv'
    OBVIOUS
  <2>1. CASE UNCHANGED vars
    BY <2>1 DEF vars, server, clients, TcpInv, TypeOK, Unowned, Lifecycle, NoCrossClientData
  <2> QED  BY <2>1, SetupStep, AcceptStep, AcceptFailsStep, RecvStep, RecvFailsStep,
            ReadFileStep, OpenFailsStep, SendStep, PeerStep DEF Next, Server, Ended
<1> QED  BY InitTcpInv, <1>1, PTL DEF Spec

\* Every variable keeps its type: the server holds the connections that are
\* up and never more descriptors than it may.
THEOREM TypeCorrect == Spec => []TypeOK
<1>1. TcpInv => TypeOK
  BY DEF TcpInv
<1> QED  BY <1>1, InvariantHolds, PTL

\* What a client sent is shown for and sent to nobody else, for any number of
\* clients served through the one buffer.
THEOREM ClientsAreApart == Spec => []NoCrossClientData
<1>1. TcpInv => NoCrossClientData
  BY DEF TcpInv
<1> QED  BY <1>1, InvariantHolds, PTL
==============================================================================
