------------------------------- MODULE CondVar -------------------------------
(***************************************************************************)
(* src/thread_conditionvariable.c: a receiver sets is_packet_received and  *)
(* signals cond1; a sender waits for that at most five seconds and consumes *)
(* it; main starts both and joins them.  What a thread does while it holds *)
(* the mutex is one action, for nothing of it is seen before the unlock.   *)
(***************************************************************************)
EXTENDS Integers

VARIABLES main,     \* where main() is
          rpc,      \* where receiver() is
          spc,      \* where sender() is
          lock,     \* the holder of the mutex: "none", "receiver" or "sender"
          is_packet_received,
          copy,     \* is_packet_received_copy
          expired,  \* ts has passed
          signalled \* the wait was ended by pthread_cond_signal

vars == <<main, rpc, spc, lock, is_packet_received, copy, expired, signalled>>

Init ==
    /\ main = "create1" /\ rpc = "none" /\ spc = "none" /\ lock = "none"
    /\ is_packet_received = FALSE /\ copy = FALSE
    /\ expired = FALSE /\ signalled = FALSE

Live == main \notin {"done", "crashed"}

\* A create that fails is not noticed: the thread is missing, and its tid was
\* never set.
Create(from, to, pc) ==
    main = from /\ main' = to /\ pc' \in {"start", "none"}

\* What a join of such a tid does is undefined: it may return an error at
\* once, or crash the process with all its threads.
Join(from, to, pc) ==
    /\ main = from
    /\ \/ pc = "done" /\ main' = to
       \/ pc = "none" /\ main' \in {to, "crashed"}
    /\ UNCHANGED <<rpc, spc>>

Main ==
    /\ \/ Create("create1", "sleep", rpc) /\ UNCHANGED spc
       \/ main = "sleep" /\ main' = "create2" /\ UNCHANGED <<rpc, spc>>
       \/ Create("create2", "join1", spc) /\ UNCHANGED rpc
       \/ Join("join1", "join2", rpc)
       \/ Join("join2", "done", spc)
    /\ UNCHANGED <<lock, is_packet_received, copy, expired, signalled>>

-----------------------------------------------------------------------------
Lock_Barging(t) == lock' = t
Lock(t) == lock = "none" /\ lock' = t

Unlock_Forgotten == UNCHANGED lock
Unlock == lock' = "none"

\* A signal that nobody waits for is lost.
Signal_Lost == UNCHANGED <<spc, signalled>>
Signal == IF spc = "waiting" THEN spc' = "woken" /\ signalled' = TRUE
                             ELSE UNCHANGED <<spc, signalled>>

Receive(from, to) ==
    Live /\ rpc = from /\ rpc' = to /\ UNCHANGED <<main, copy, expired>>

RLock == /\ Receive("start", "deliver") /\ Lock("receiver")
         /\ UNCHANGED <<spc, is_packet_received, signalled>>

RDeliver == /\ Receive("deliver", "unlock")
            /\ is_packet_received' = TRUE
            /\ Signal
            /\ UNCHANGED lock

RUnlock == /\ Receive("unlock", "done") /\ Unlock
           /\ UNCHANGED <<spc, is_packet_received, signalled>>

-----------------------------------------------------------------------------
Send(from, to) == Live /\ spc = from /\ spc' = to /\ UNCHANGED <<main, rpc>>

\* ts is set, and from then on may come to pass.
SClock == Send("start", "lock") /\ UNCHANGED <<lock, is_packet_received, copy, expired, signalled>>

Expire == /\ Live /\ spc \notin {"none", "start", "done"} /\ ~expired /\ expired' = TRUE
          /\ UNCHANGED <<main, rpc, spc, lock, is_packet_received, copy, signalled>>

SLock == /\ Send("lock", "test") /\ Lock("sender")
         /\ UNCHANGED <<is_packet_received, copy, expired, signalled>>

\* The timed wait releases the mutex as it starts.
STest == /\ \/ is_packet_received /\ Send("test", "copy") /\ UNCHANGED lock
            \/ ~is_packet_received /\ Send("test", "waiting") /\ lock' = "none"
         /\ UNCHANGED <<is_packet_received, copy, expired, signalled>>

Timeout == /\ expired /\ Send("waiting", "woken")
           /\ UNCHANGED <<lock, is_packet_received, copy, expired, signalled>>

\* POSIX lets the wait return for no reason.
Spurious == /\ Send("waiting", "woken")
            /\ UNCHANGED <<lock, is_packet_received, copy, expired, signalled>>

\* The wait returns with the mutex held, and the test is not repeated.
SRelock == /\ Send("woken", "copy") /\ Lock("sender")
           /\ UNCHANGED <<is_packet_received, copy, expired, signalled>>

SCopy == /\ Send("copy", "clear") /\ copy' = is_packet_received
         /\ UNCHANGED <<lock, is_packet_received, expired, signalled>>

SClear_Forgotten == /\ Send("clear", "unlock")
                    /\ UNCHANGED <<lock, is_packet_received, copy, expired, signalled>>
SClear == /\ Send("clear", "unlock") /\ is_packet_received' = FALSE
          /\ UNCHANGED <<lock, copy, expired, signalled>>

SUnlock == /\ Send("unlock", "done") /\ Unlock
           /\ UNCHANGED <<is_packet_received, copy, expired, signalled>>

-----------------------------------------------------------------------------
Receiver == RLock \/ RDeliver \/ RUnlock
Sender == SClock \/ SLock \/ STest \/ Timeout \/ SRelock \/ SCopy \/ SClear \/ SUnlock
Ended == ~Live /\ UNCHANGED vars

Next == Main \/ Receiver \/ Sender \/ Expire \/ Spurious \/ Ended

Spec == Init /\ [][Next]_vars

\* Every thread gets the processor and time passes; nothing makes the wait
\* end early.
FairSpec == Spec /\ WF_vars(Main) /\ WF_vars(Receiver) /\ WF_vars(Sender) /\ WF_vars(Expire)

-----------------------------------------------------------------------------
\* Every variable has its type, and a thread between its lock and its unlock
\* is the holder of the mutex.
TypeOK ==
    /\ main \in {"create1", "sleep", "create2", "join1", "join2", "done", "crashed"}
    /\ rpc \in {"none", "start", "deliver", "unlock", "done"}
    /\ spc \in {"none", "start", "lock", "test", "waiting", "woken", "copy", "clear", "unlock", "done"}
    /\ lock \in {"none", "receiver", "sender"}
    /\ rpc \in {"deliver", "unlock"} <=> lock = "receiver"
    /\ spc \in {"test", "copy", "clear", "unlock"} <=> lock = "sender"
    /\ {is_packet_received, copy, expired, signalled} \subseteq BOOLEAN

\* Once the receiver has delivered, the packet is in exactly one place: still
\* in the flag, or taken by the sender.  No order of the two threads, timeout
\* or spurious wakeup loses it or delivers it twice.
Conservation ==
    rpc \in {"unlock", "done"} /\ spc # "clear" => is_packet_received # copy

\* No wakeup is lost: with the mutex free, a sender waits only while there is
\* no packet.
NoLostWakeup == lock = "none" /\ spc = "waiting" => ~is_packet_received

\* Both threads end and main joins them, whoever runs first.
Termination == <>~Live
=============================================================================
