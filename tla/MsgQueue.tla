------------------------------- MODULE MsgQueue -------------------------------
(***************************************************************************)
(* src/ipc_msgqueue.c: each run makes sure that a file exists, turns its   *)
(* inode into a key and the key into a System V queue.  A reader takes one *)
(* message; a writer sends one, removes the queue and then the file.  A    *)
(* queue is named here by the process whose msgget made it.                *)
(***************************************************************************)
EXTENDS Naturals, FiniteSets

CONSTANTS Procs,    \* runs of the program
          Inodes,   \* bound: as many as runs, so that one is always free
          KeyMod,   \* ftok takes the low 16 bits of the inode
          None      \* no file, no key, no queue

Keys == 0..KeyMod - 1

ASSUME Assumption == /\ Inodes \subseteq Nat /\ KeyMod \in Nat \ {0}
                     /\ None \notin Procs \union Inodes \union Keys

VARIABLES option, \* what the options of a run ask for: "r", "w" or "h"
          file,   \* the inode of "msgqueue", or None
          pc,     \* where each run is
          held,   \* fs: the inode of the file a run opened and did not close
          key,    \* what ftok returned
          live,   \* live[q] is the key of the queue q, or None: no such queue
          msqid,  \* the queue a run uses
          msgs    \* messages in each queue

vars == <<option, file, pc, held, key, live, msqid, msgs>>

Readers == {p \in Procs : option[p] = "r"}
Writers == {p \in Procs : option[p] = "w"}

Init ==
    /\ option \in [Procs -> {"r", "w", "h"}]
    /\ file \in Inodes \union {None}
    /\ pc = [p \in Procs |-> IF option[p] = "h" THEN "failed" ELSE "fopen"]
    /\ held = [p \in Procs |-> None] /\ key = [p \in Procs |-> None]
    /\ live = [p \in Procs |-> None] /\ msqid = [p \in Procs |-> None]
    /\ msgs = [p \in Procs |-> 0]

\* The end of a run closes the file.
Exit(p, how) == pc' = [pc EXCEPT ![p] = how] /\ held' = [held EXCEPT ![p] = None]

-----------------------------------------------------------------------------
\* A file opened for reading stays open: only the other branch has fclose.
Open(p) ==
    /\ pc[p] = "fopen"
    /\ pc' = [pc EXCEPT ![p] = IF file = None THEN "create" ELSE "ftok"]
    /\ held' = [held EXCEPT ![p] = file]
    /\ UNCHANGED <<option, file, key, live, msqid, msgs>>

\* A number is given again once no name and no open file has it.
Create(p) ==
    /\ pc[p] = "create"
    /\ pc' = [pc EXCEPT ![p] = "ftok"]
    /\ IF file # None THEN UNCHANGED file
       ELSE file' \in Inodes \ {held[q] : q \in Procs}
    /\ UNCHANGED <<option, held, key, live, msqid, msgs>>

\* fclose(NULL) after the perror of fopen.
CreateCrashes(p) ==
    /\ pc[p] = "create" /\ file = None /\ Exit(p, "crashed")
    /\ UNCHANGED <<option, file, key, live, msqid, msgs>>

\* Two inodes may have one key.
Ftok(p) ==
    /\ pc[p] = "ftok"
    /\ \/ file # None /\ key' = [key EXCEPT ![p] = file % KeyMod]
          /\ pc' = [pc EXCEPT ![p] = "msgget"] /\ UNCHANGED held
       \/ file = None /\ Exit(p, "failed") /\ UNCHANGED key
    /\ UNCHANGED <<option, file, live, msqid, msgs>>

\* IPC_CREAT: the queue of this key, or a new one.
WithKey(k) == {q \in Procs : live[q] = k}

Get_AlwaysNew(p) ==
    /\ pc[p] = "msgget"
    /\ pc' = [pc EXCEPT ![p] = IF p \in Readers THEN "msgrcv" ELSE "msgsnd"]
    /\ msqid' = [msqid EXCEPT ![p] = p] /\ live' = [live EXCEPT ![p] = key[p]]
    /\ UNCHANGED <<option, file, held, key, msgs>>
Get_RemovesFirst(p) ==
    /\ pc[p] = "msgget"
    /\ pc' = [pc EXCEPT ![p] = IF p \in Readers THEN "msgrcv" ELSE "msgctl"]
    /\ \/ \E q \in WithKey(key[p]) : msqid' = [msqid EXCEPT ![p] = q] /\ UNCHANGED live
       \/ /\ WithKey(key[p]) = {}
          /\ msqid' = [msqid EXCEPT ![p] = p] /\ live' = [live EXCEPT ![p] = key[p]]
    /\ UNCHANGED <<option, file, held, key, msgs>>
Get(p) ==
    /\ pc[p] = "msgget"
    /\ pc' = [pc EXCEPT ![p] = IF p \in Readers THEN "msgrcv" ELSE "msgsnd"]
    /\ \/ \E q \in WithKey(key[p]) : msqid' = [msqid EXCEPT ![p] = q] /\ UNCHANGED live
       \/ /\ WithKey(key[p]) = {}
          /\ msqid' = [msqid EXCEPT ![p] = p] /\ live' = [live EXCEPT ![p] = key[p]]
    /\ UNCHANGED <<option, file, held, key, msgs>>

GetFails(p) ==
    /\ pc[p] = "msgget" /\ WithKey(key[p]) = {} /\ Exit(p, "failed")
    /\ UNCHANGED <<option, file, key, live, msqid, msgs>>

IsLive(q) == live[q] # None

-----------------------------------------------------------------------------
Receive(r) ==
    /\ pc[r] = "msgrcv" /\ IsLive(msqid[r])
    /\ \/ msgs[msqid[r]] > 0 /\ msgs' = [msgs EXCEPT ![msqid[r]] = @ - 1] /\ Exit(r, "received")
       \/ msgs[msqid[r]] = 0 /\ pc' = [pc EXCEPT ![r] = "waiting"] /\ UNCHANGED <<held, msgs>>
    /\ UNCHANGED <<option, file, key, live, msqid>>

ReceiveFails(r) ==
    /\ pc[r] = "msgrcv" /\ ~IsLive(msqid[r]) /\ Exit(r, "failed")
    /\ UNCHANGED <<option, file, key, live, msqid, msgs>>

Waiting(q) == {r \in Readers : pc[r] = "waiting" /\ msqid[r] = q}

\* A message goes straight to a reader that waits.
Sent(w) ==
    LET q == msqid[w]
    IN  /\ IsLive(q)
        /\ \/ /\ \E r \in Waiting(q) :
                    /\ pc' = [pc EXCEPT ![w] = "msgctl", ![r] = "received"]
                    /\ held' = [held EXCEPT ![r] = None]
              /\ UNCHANGED msgs
           \/ /\ Waiting(q) = {}
              /\ msgs' = [msgs EXCEPT ![q] = @ + 1]
              /\ pc' = [pc EXCEPT ![w] = "msgctl"] /\ UNCHANGED held
        /\ UNCHANGED <<option, file, key, live, msqid>>

\* msgsnd may fail, at a queue that is removed and at one that is there.  The
\* failure is only reported: the run goes on, "unsent", to msgctl.
Send_ExitsOnError(w) ==
    /\ pc[w] = "msgsnd"
    /\ \/ Sent(w)
       \/ Exit(w, "failed") /\ UNCHANGED <<option, file, key, live, msqid, msgs>>
Send(w) ==
    /\ pc[w] = "msgsnd"
    /\ \/ Sent(w)
       \/ /\ pc' = [pc EXCEPT ![w] = "unsent"]
          /\ UNCHANGED <<option, file, held, key, live, msqid, msgs>>

AtMsgctl == {w \in Writers : pc[w] \in {"msgctl", "unsent"}}

\* IPC_RMID drops what is in the queue, and those who wait fail with EIDRM.
Remove_Forgotten(w) ==
    /\ w \in AtMsgctl /\ pc' = [pc EXCEPT ![w] = "unlink"]
    /\ UNCHANGED <<option, file, held, key, live, msqid, msgs>>
Remove(w) ==
    /\ w \in AtMsgctl /\ IsLive(msqid[w])
    /\ LET out == Waiting(msqid[w])
       IN  /\ pc' = [p \in Procs |-> IF p = w THEN "unlink"
                                     ELSE IF p \in out THEN "failed" ELSE pc[p]]
           /\ held' = [p \in Procs |-> IF p \in out THEN None ELSE held[p]]
    /\ live' = [live EXCEPT ![msqid[w]] = None]
    /\ msgs' = [msgs EXCEPT ![msqid[w]] = 0]
    /\ UNCHANGED <<option, file, key, msqid>>

\* Another writer has removed the queue: exit without unlink.
RemoveFails(w) ==
    /\ w \in AtMsgctl /\ ~IsLive(msqid[w]) /\ Exit(w, "failed")
    /\ UNCHANGED <<option, file, key, live, msqid, msgs>>

Unlink(w) ==
    /\ pc[w] = "unlink" /\ file' = None /\ Exit(w, "done")
    /\ UNCHANGED <<option, key, live, msqid, msgs>>

-----------------------------------------------------------------------------
Over == {"crashed", "failed", "received", "done"}

Run(p) ==
    \/ Open(p) \/ Create(p) \/ CreateCrashes(p) \/ Ftok(p) \/ Get(p) \/ GetFails(p)
    \/ p \in Readers /\ (Receive(p) \/ ReceiveFails(p))
    \/ p \in Writers /\ (Send(p) \/ Remove(p) \/ RemoveFails(p) \/ Unlink(p))

\* A reader may wait for a message that nobody is left to send.
Quiet == (\A p \in Procs : pc[p] \in Over \union {"waiting"}) /\ UNCHANGED vars

Next == Quiet \/ \E p \in Procs : Run(p)

Spec == Init /\ [][Next]_vars

\* The scheduler runs every process.
Fairness == \A p \in Procs : WF_vars(Run(p))
FairSpec == Spec /\ Fairness

-----------------------------------------------------------------------------
\* Every variable has its type; one key has one queue, a queue that is removed
\* is empty, and nobody waits at a queue that is removed or has a message.
TypeOK ==
    /\ option \in [Procs -> {"r", "w", "h"}]
    /\ file \in Inodes \union {None}
    /\ pc \in [Procs -> {"fopen", "create", "ftok", "msgget", "msgrcv", "waiting",
                         "msgsnd", "msgctl", "unsent", "unlink"} \union Over]
    /\ held \in [Procs -> Inodes \union {None}]
    /\ {key, live} \subseteq [Procs -> Keys \union {None}]
    /\ msqid \in [Procs -> Procs \union {None}]
    /\ msgs \in [Procs -> Nat]
    /\ \A q \in Procs : ~IsLive(q) => msgs[q] = 0
    /\ \A k \in Keys : Cardinality(WithKey(k)) <= 1
    /\ \A q \in Procs : Waiting(q) # {} => IsLive(q) /\ msgs[q] = 0

\* A queue outlives every process until it is removed.  Yet in every order of
\* the runs one that is there has a run that uses it, and one with messages a
\* writer that will remove it: no end that a run comes to by itself leaves a
\* queue behind.
NoOrphanQueue ==
    \A q \in Procs : IsLive(q) =>
        /\ \E p \in Procs :
              msqid[p] = q /\ pc[p] \in {"msgrcv", "waiting", "msgsnd", "msgctl", "unsent"}
        /\ msgs[q] > 0 => \E w \in AtMsgctl : msqid[w] = q

\* Writers remove the queue as soon as they have sent, and yet a single reader
\* that waits is answered by EIDRM only on account of a msgsnd that failed at
\* its queue: any other writer that removes it has sent to it before.
WaiterServed ==
    [][\A r \in Readers : Readers = {r} /\ pc[r] = "waiting" /\ pc'[r] = "failed" =>
           \E w \in Writers : pc[w] = "unsent" /\ msqid[w] = msqid[r]]_vars

\* A reader that has the same queue as a writer ends, with the message or with
\* an error: the removal leaves nobody waiting at that queue.
NobodyLeftWaiting ==
    \A r, w \in Procs :
        (/\ r \in Readers /\ w \in Writers /\ pc[w] \in {"msgsnd", "msgctl", "unsent"}
         /\ IsLive(msqid[w]) /\ msqid[r] = msqid[w])
            ~> pc[r] \in Over
=============================================================================
