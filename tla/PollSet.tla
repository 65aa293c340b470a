------------------------------- MODULE PollSet -------------------------------
(* What the poll table of src/poll_socket.c promises, without the table: a  *)
(* connection is watched from the moment it is accepted until the moment    *)
(* its descriptor is closed, once.  PollServer implements this module.      *)
CONSTANTS Clients,   \* the clients, each named by the one connection it makes
          ListenSd   \* the listening socket

VARIABLES watched,   \* the descriptors the server watches
          admitted,  \* the clients whose connection was accepted
          closed     \* those whose descriptor was closed

vars == <<watched, admitted, closed>>

Init == watched = {} /\ admitted = {} /\ closed = {}

Start ==
    /\ watched = {}
    /\ watched' = {ListenSd}
    /\ UNCHANGED <<admitted, closed>>

Admit(c) ==
    /\ ListenSd \in watched
    /\ c \notin admitted
    /\ watched' = watched \union {c}
    /\ admitted' = admitted \union {c}
    /\ UNCHANGED closed

Retire(c) ==
    /\ c \in watched
    /\ watched' = watched \ {c}
    /\ closed' = closed \union {c}
    /\ UNCHANGED admitted

\* The server is gone, perhaps while it was accepting a connection.
Stop ==
    /\ watched' = {}
    /\ admitted \subseteq admitted'
    /\ closed \subseteq closed'

Next == Start \/ Stop \/ \E c \in Clients : Admit(c) \/ Retire(c)

Spec == Init /\ [][Next]_vars
=============================================================================
