------------------------------ MODULE MCStreams ------------------------------
(***************************************************************************)
(* The programs that pass bytes over a TCP connection or a fifo for TLC,   *)
(* in one run.  They share nothing: a behaviour is one of the program      *)
(* chosen at first; the other is over, and its variables stay as they are. *)
(***************************************************************************)
EXTENDS TcpServer, Fifo

VARIABLE program

\* Each program where nothing of it is left to run.
TcpOver ==
    /\ file = "missing" /\ pc = "exited" /\ sfd = "closed" /\ client_sock_fd = NoFd
    /\ held = {} /\ buf = [k \in Cells |-> "blank"] /\ why = "setup"
    /\ shown = [c \in Clients |-> {}] /\ cpc = [c \in Clients |-> "done"]
    /\ conn = [c \in Clients |-> "none"]
    /\ arrived = [c \in Clients |-> 0] /\ reply = [c \in Clients |-> {}]

FifoOver == FifoInit /\ name = None /\ option = [p \in Procs |-> "h"]

MCInit ==
    \/ program = "socket_tcp" /\ Init /\ FifoOver
    \/ program = "ipc_fifo" /\ FifoInit /\ TcpOver

MCNext ==
    /\ \/ program = "socket_tcp" /\ Next /\ UNCHANGED fifoVars
       \/ program = "ipc_fifo" /\ FifoNext /\ UNCHANGED vars
    /\ UNCHANGED program

\* The fairness of a program that is over asks for nothing.
MCSpec ==
    /\ MCInit /\ [][MCNext]_<<program, vars, fifoVars>>
    /\ Fairness /\ FifoFairness
=============================================================================
