--------------------------------- MODULE Fifo ---------------------------------
(***************************************************************************)
(* src/ipc_fifo.c: each run makes "myfifo" if it is not there, opens it as *)
(* a reader or as a writer, passes one message and removes the name.  The  *)
(* name may mean different fifos to different runs.  A fifo is named here  *)
(* by the process that made it.                                            *)
(***************************************************************************)
EXTENDS Naturals, FiniteSets

CONSTANTS Procs,         \* runs of the program
          None, Earlier  \* no fifo; the fifo an interrupted run left behind

ASSUME FifoAssumption ==
    IsFiniteSet(Procs) /\ None # Earlier /\ {None, Earlier} \intersect Procs = {}

VARIABLES option, \* what the options of a run ask for: "r", "w" or "h"
          name,  \* the fifo "myfifo" is, or None
          fpc,   \* where each run is
          end,   \* the fifo a run has open, or None
          pipe,  \* messages in each fifo
          got    \* what a reader's read returned: "-", "message" or "nothing"

fifoVars == <<option, name, fpc, end, pipe, got>>

Fifos == Procs \union {Earlier}
Readers == {p \in Procs : option[p] = "r"}
Writers == {p \in Procs : option[p] = "w"}

FifoInit ==
    /\ option \in [Procs -> {"r", "w", "h"}]
    /\ name \in {None, Earlier}
    /\ fpc = [p \in Procs |-> IF option[p] = "h" THEN "failed" ELSE "mkfifo"]
    /\ end = [p \in Procs |-> None]
    /\ pipe = [f \in Fifos |-> 0]
    /\ got = [p \in Procs |-> "-"]

\* The options of a run do not change.
Go(p, to) == fpc' = [fpc EXCEPT ![p] = to] /\ UNCHANGED option
Others(p) == IF p \in Readers THEN Writers ELSE Readers
At(f, S) == {p \in S : end[p] = f}

-----------------------------------------------------------------------------
\* The result of mkfifo is not looked at: it fails when the name is there.
Mkfifo(p) ==
    /\ fpc[p] = "mkfifo" /\ Go(p, "open")
    /\ name' = IF name = None THEN p ELSE name
    /\ UNCHANGED <<end, pipe, got>>

\* open waits for the other end, and wakes those who wait for this one.
Met_NonBlock(p, q, peers) == q = p
Met(p, q, peers) == \/ q = p /\ peers # {}
                    \/ q \in peers /\ fpc[q] = "opening"

Open(p) ==
    /\ fpc[p] = "open" /\ name # None
    /\ LET peers == At(name, Others(p))
       IN  fpc' = [q \in Procs |-> IF Met(p, q, peers) THEN "opened"
                                  ELSE IF q = p THEN "opening" ELSE fpc[q]]
    /\ end' = [end EXCEPT ![p] = name]
    /\ UNCHANGED <<option, name, pipe, got>>

\* The name was removed after mkfifo: return 2.
NameGone(p) ==
    /\ fpc[p] = "open" /\ name = None /\ Go(p, "failed")
    /\ UNCHANGED <<name, end, pipe, got>>

\* A fifo that nobody has open forgets what is in it.
Shut(p) ==
    /\ end' = [end EXCEPT ![p] = None]
    /\ pipe' = IF At(end[p], Procs) = {p} THEN [pipe EXCEPT ![end[p]] = 0] ELSE pipe

Read_Impatient(r) ==
    /\ fpc[r] = "opened" /\ Go(r, "close")
    /\ got' = [got EXCEPT ![r] = IF pipe[end[r]] > 0 THEN "message" ELSE "nothing"]
    /\ UNCHANGED <<name, end, pipe>>

\* 100 bytes are written and read in one piece; a read ends without any when
\* no writer is left.
Read(r) ==
    /\ fpc[r] = "opened" /\ Go(r, "close")
    /\ \/ pipe[end[r]] > 0 /\ got' = [got EXCEPT ![r] = "message"]
          /\ pipe' = [pipe EXCEPT ![end[r]] = @ - 1]
       \/ pipe[end[r]] = 0 /\ At(end[r], Writers) = {}
          /\ got' = [got EXCEPT ![r] = "nothing"] /\ UNCHANGED pipe
    /\ UNCHANGED <<name, end>>

Write(w) ==
    /\ fpc[w] = "opened" /\ At(end[w], Readers) # {} /\ Go(w, "close")
    /\ pipe' = [pipe EXCEPT ![end[w]] = @ + 1]
    /\ UNCHANGED <<name, end, got>>

\* With no reader left the write is answered by SIGPIPE, which ends the run.
BrokenPipe(w) ==
    /\ fpc[w] = "opened" /\ At(end[w], Readers) = {} /\ Go(w, "sigpipe")
    /\ Shut(w)
    /\ UNCHANGED <<name, got>>

Close(p) ==
    /\ fpc[p] = "close" /\ Go(p, "unlink")
    /\ Shut(p)
    /\ UNCHANGED <<name, got>>

Removed_Kept == name
Removed == None

\* The name is removed, whichever fifo it is by now.
Unlink(p) ==
    /\ fpc[p] = "unlink" /\ Go(p, "done") /\ name' = Removed
    /\ UNCHANGED <<end, pipe, got>>

-----------------------------------------------------------------------------
Over == {"done", "failed", "sigpipe", "killed"}

Killed(p) ==
    /\ fpc[p] \notin Over /\ Go(p, "killed")
    /\ IF end[p] = None THEN UNCHANGED <<end, pipe>> ELSE Shut(p)
    /\ UNCHANGED <<name, got>>

Run(p) ==
    \/ Mkfifo(p) \/ Open(p) \/ NameGone(p)
    \/ p \in Readers /\ Read(p)
    \/ p \in Writers /\ (Write(p) \/ BrokenPipe(p))
    \/ Close(p) \/ Unlink(p)

\* A run with nobody to meet waits in open for ever.
Quiet == (\A p \in Procs : fpc[p] \in Over \union {"opening"}) /\ UNCHANGED fifoVars

FifoNext == Quiet \/ \E p \in Procs : Run(p) \/ Killed(p)

FifoSpec == FifoInit /\ [][FifoNext]_fifoVars

\* The scheduler runs every process.
FifoFairness == \A p \in Procs : WF_fifoVars(Run(p))
FifoFairSpec == FifoSpec /\ FifoFairness

-----------------------------------------------------------------------------
\* Every variable has its type; a run has a fifo open exactly between open
\* and close, and a fifo that nobody has open is empty.
FifoTypeOK ==
    /\ name \in Fifos \union {None}
    /\ fpc \in [Procs -> {"mkfifo", "open", "opening", "opened", "close", "unlink"} \union Over]
    /\ end \in [Procs -> Fifos \union {None}]
    /\ \A p \in Procs : end[p] # None <=> fpc[p] \in {"opening", "opened", "close"}
    /\ pipe \in [Fifos -> Nat]
    /\ \A f \in Fifos : At(f, Procs) = {} => pipe[f] = 0
    /\ option \in [Procs -> {"r", "w", "h"}]
    /\ got \in [Procs -> {"-", "message", "nothing"}]

SomeKilled == \E p \in Procs : fpc[p] = "killed"

\* Unless a run is killed, none leaves the name for others to clean up, be it
\* its own or that of an earlier fifo: while the name is there, a run is still
\* on its way to that fifo, has it open, or is about to remove the name.  That
\* a writer dies of SIGPIPE short of its unlink makes no difference.
NameHasItsUser ==
    name # None /\ ~SomeKilled /\ Readers \union Writers # {} =>
        \E p \in Readers \union Writers :
            fpc[p] \in {"mkfifo", "open", "unlink"} \/ end[p] = name

\* A single reader never reads nothing, however many writers come and go on
\* however many fifos: its open has met a writer, and each writes before it
\* closes.
SomethingToRead ==
    Cardinality(Readers) = 1 /\ ~SomeKilled => \A r \in Readers : got[r] # "nothing"

\* A single writer is never ended by SIGPIPE, however many readers there are:
\* none closes before it has read the message or seen the writer close.
SomebodyReads ==
    Cardinality(Writers) = 1 /\ ~SomeKilled => \A w \in Writers : fpc[w] # "sigpipe"

\* Neither end of a fifo is left by the other: a single run of a kind has
\* always met the partner it opened the fifo for.
NeitherAlone == SomethingToRead /\ SomebodyReads

\* One reader and one writer pass the message, end and leave no name, in
\* whatever order they start and also over a fifo that an interrupted run left
\* behind, unless one of them is killed.
Delivered ==
    Cardinality(Readers) = 1 /\ Cardinality(Writers) = 1 =>
        \/ <>[](/\ name = None
                /\ \A p \in Readers \union Writers : fpc[p] = "done"
                /\ \A r \in Readers : got[r] = "message")
        \/ <>SomeKilled
=============================================================================
