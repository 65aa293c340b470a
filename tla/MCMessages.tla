------------------------------ MODULE MCMessages ------------------------------
(***************************************************************************)
(* The programs that pass messages over a queue or as datagrams for TLC,   *)
(* in one run.  They share nothing: a behaviour is one of the program      *)
(* chosen at first; the other is over, and its variables stay as they are. *)
(***************************************************************************)
EXTENDS MsgQueue, UdpServer

VARIABLE program

\* Each program where nothing of it is left to run.
QueueOver == Init /\ file = None /\ option = [p \in Procs |-> "h"]

UdpOver ==
    /\ upc = "exited" /\ sfd = "none" /\ asked = {} /\ requests = {}
    /\ cpc = [c \in Clients |-> "failed"] /\ lost = FALSE
    /\ inbox = {} /\ got = [c \in Clients |-> c]

MCInit ==
    \/ program = "ipc_msgqueue" /\ Init /\ UdpOver
    \/ program = "socket_udp" /\ UdpInit /\ QueueOver

MCNext ==
    /\ \/ program = "ipc_msgqueue" /\ Next /\ UNCHANGED udpVars
       \/ program = "socket_udp" /\ UdpNext /\ UNCHANGED vars
    /\ UNCHANGED program

\* The fairness of a program that is over asks for nothing.
MCSpec ==
    /\ MCInit /\ [][MCNext]_<<program, vars, udpVars>>
    /\ Fairness /\ UdpFairness
=============================================================================
