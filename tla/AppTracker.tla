------------------------------ MODULE AppTracker ------------------------------
(***************************************************************************)
(* src/fork-pipe-exec.c: a tracker that starts a program with its stdin    *)
(* and stdout on two pipes, copies what the program prints, and ends from  *)
(* the SIGCHLD handler collect_zombie or at the end of main.               *)
(*                                                                         *)
(* The handler interrupts main between any two steps; main does not go on, *)
(* for the handler always exits.  The program is any program: it prints,   *)
(* may close stdout, may read stdin to its end, exits, and may be stopped  *)
(* and continued from outside.  Bytes are counted, not named.              *)
(***************************************************************************)
EXTENDS Integers

CONSTANTS MaxBytes,  \* bound: bytes the program prints
          PipeSize,  \* the capacity of a pipe
          MaxStops   \* bound: times the program is stopped

ASSUME Assumption == MaxBytes \in Nat /\ PipeSize \in Nat \ {0} /\ MaxStops \in Nat

VARIABLES pc,        \* where main() is
          hpc,       \* collect_zombie: "idle", or "caught" before its waitpid
          childpid,  \* "unset" (0) or "set"
          status,    \* how the tracker ended: "none", an exit status, "segv"
          endedBy,   \* "none", "main" or "handler"
          pending,   \* SIGCHLD waits to be delivered
          child,     \* the program's process
          stops,     \* how often it was stopped
          written,   \* bytes the program has printed
          pipe,      \* bytes in readpipe
          stream,    \* bytes in the buffer of stream, of read_from_pipe
          printed,   \* bytes given to putchar
          writers,   \* the processes that hold CHILD_WRITE (or stdout on it)
          readers,   \* those that hold PARENT_READ
          feeders    \* those that hold PARENT_WRITE

tracker == <<pc, hpc, childpid, status, endedBy>>
data    == <<written, pipe, stream, printed>>
ends    == <<writers, readers, feeders>>
vars    == <<tracker, pending, child, stops, data, ends>>

Alive == {"forked", "ready", "running", "reading", "stopped"}

Init ==
    /\ pc = "setup" /\ hpc = "idle" /\ childpid = "unset"
    /\ status = "none" /\ endedBy = "none"
    /\ pending = FALSE /\ child = "none" /\ stops = 0
    /\ written = 0 /\ pipe = 0 /\ stream = 0 /\ printed = 0
    /\ writers = {} /\ readers = {} /\ feeders = {}

\* Every descriptor of a process is closed when it ends.
Without(p) ==
    /\ writers' = writers \ {p} /\ readers' = readers \ {p} /\ feeders' = feeders \ {p}

Exit(st, by) ==
    /\ pc' = "exited" /\ hpc' = "idle"
    /\ status' = st /\ endedBy' = by
    /\ Without("tracker")
    /\ UNCHANGED childpid

-----------------------------------------------------------------------------
Main(at) == pc = at /\ hpc = "idle"

Goto(next) == pc' = next /\ UNCHANGED <<hpc, childpid, status, endedBy>>

\* The pipes exist and args_dup holds copies of the arguments.
Setup ==
    /\ Main("setup")
    /\ Goto("fork")
    /\ writers' = {"tracker"} /\ readers' = {"tracker"} /\ feeders' = {"tracker"}
    /\ UNCHANGED <<pending, child, stops, data>>

\* print_error_and_exit.  Before args_dup is allocated (no argument given, a
\* pipe or the first calloc failed) dealloc_all dereferences its NULL.
SetupFails ==
    /\ Main("setup")
    /\ \E st \in {"segv", "1", "2"} : Exit(st, "main")
    /\ UNCHANGED <<pending, child, stops, data>>

\* The child runs before its pid is stored in childpid.
Fork ==
    /\ Main("fork")
    /\ \/ /\ Goto("store")
          /\ child' = "forked"
          /\ writers' = writers \union {"child"}
          /\ readers' = readers \union {"child"}
          /\ feeders' = feeders \union {"child"}
       \/ /\ \E st \in {"1", "2"} : Exit(st, "main")
          /\ UNCHANGED child
    /\ UNCHANGED <<pending, stops, data>>

Store ==
    /\ Main("store")
    /\ childpid' = "set" /\ pc' = "close"
    /\ UNCHANGED <<hpc, status, endedBy, pending, child, stops, data, ends>>

\* The parent closes the child's ends.
ParentCloses_KeepsWrite ==
    Main("close") /\ Goto("open") /\ UNCHANGED <<pending, child, stops, data, ends>>

ParentCloses ==
    /\ Main("close") /\ Goto("open")
    /\ writers' = writers \ {"tracker"}
    /\ UNCHANGED <<pending, child, stops, data, readers, feeders>>

\* fdopen in read_from_pipe: a NULL stream is not tested, and fgetc crashes.
OpenStream ==
    /\ Main("open")
    /\ \/ Goto("read") /\ UNCHANGED ends
       \/ Exit("segv", "main")
    /\ UNCHANGED <<pending, child, stops, data>>

\* fgetc with an empty buffer reads what the pipe holds; it waits while the
\* pipe is empty and has a writer, and without a writer that is the end.
AtEof_WhenEmpty == pipe = 0
AtEof == pipe = 0 /\ writers = {}

Fill_Rereads ==
    /\ Main("read") /\ stream = 0
    /\ pipe > 0
    /\ stream' = pipe
    /\ UNCHANGED <<tracker, pending, child, stops, written, printed, pipe, ends>>

Fill ==
    /\ Main("read") /\ stream = 0
    /\ pipe > 0
    /\ stream' = pipe /\ pipe' = 0
    /\ UNCHANGED <<tracker, pending, child, stops, written, printed, ends>>

Putchar ==
    /\ Main("read") /\ stream > 0
    /\ stream' = stream - 1 /\ printed' = printed + 1
    /\ UNCHANGED <<tracker, pending, child, stops, written, pipe, ends>>

Eof ==
    /\ Main("read") /\ stream = 0
    /\ AtEof
    /\ Goto("sleep")
    /\ readers' = readers \ {"tracker"}
    /\ UNCHANGED <<pending, child, stops, data, writers, feeders>>

\* sleep(10) is over; main closes its descriptors and returns.
Return ==
    /\ Main("sleep")
    /\ Exit("0", "main")
    /\ UNCHANGED <<pending, child, stops, data>>

-----------------------------------------------------------------------------
\* SIGCHLD is delivered: collect_zombie interrupts main.
Catch ==
    /\ pending /\ hpc = "idle" /\ pc # "exited"
    /\ pending' = FALSE /\ hpc' = "caught"
    /\ UNCHANGED <<pc, childpid, status, endedBy, child, stops, data, ends>>

\* waitpid(childpid, &status, WNOHANG) = childpid.  While childpid is 0 the
\* call waits for any child, and a child that has not ended makes it 0.
WaitedFor_Untraced == child \in {"zombie", "stopped"} <=> childpid = "set"
WaitedFor == child = "zombie" <=> childpid = "set"

Collect ==
    /\ hpc = "caught"
    /\ child' = IF child = "zombie" THEN "reaped" ELSE child
    /\ \/ WaitedFor /\ Exit("0", "handler")
       \/ ~WaitedFor /\ \E st \in {"1", "2"} : Exit(st, "handler")
    /\ UNCHANGED <<pending, stops, data>>

-----------------------------------------------------------------------------
Process(next) == child' = next /\ UNCHANGED <<tracker, stops>>

\* The child's half of main up to execvp: it keeps its own ends only.
ChildSetup_KeepsRead ==
    /\ child = "forked" /\ Process("ready")
    /\ feeders' = feeders \ {"child"}
    /\ UNCHANGED <<pending, data, writers, readers>>

ChildSetup ==
    /\ child = "forked" /\ Process("ready")
    /\ feeders' = feeders \ {"child"} /\ readers' = readers \ {"child"}
    /\ UNCHANGED <<pending, data, writers>>

\* execvp fails and the child exits, or the program ends, or is killed.
ChildEnds ==
    /\ child \in {"ready", "running"}
    /\ Process("zombie")
    /\ pending' = TRUE
    /\ Without("child")
    /\ UNCHANGED data

Exec == child = "ready" /\ Process("running") /\ UNCHANGED <<pending, data, ends>>

\* The program prints.  With nobody to read, SIGPIPE ends it.
Output ==
    /\ child = "running" /\ "child" \in writers
    /\ \/ /\ readers # {} /\ pipe < PipeSize /\ written < MaxBytes
          /\ written' = written + 1 /\ pipe' = pipe + 1
          /\ UNCHANGED <<tracker, pending, child, stops, stream, printed, ends>>
       \/ /\ readers = {}
          /\ Process("zombie") /\ pending' = TRUE /\ Without("child")
          /\ UNCHANGED data

CloseStdout ==
    /\ child = "running" /\ writers' = writers \ {"child"} /\ writers # writers'
    /\ UNCHANGED <<tracker, pending, child, stops, data, readers, feeders>>

\* The program reads stdin, to which nobody writes, until its end.
ReadStdin == child = "running" /\ Process("reading") /\ UNCHANGED <<pending, data, ends>>

StdinEnds ==
    /\ child = "reading" /\ feeders = {}
    /\ Process("running")
    /\ UNCHANGED <<pending, data, ends>>

\* A stop from outside, and the continue after it, raise SIGCHLD too:
\* SA_NOCLDSTOP is not set.
Stop ==
    /\ child = "running" /\ stops < MaxStops
    /\ child' = "stopped" /\ stops' = stops + 1 /\ pending' = TRUE
    /\ UNCHANGED <<tracker, data, ends>>

Continue ==
    /\ child = "stopped"
    /\ Process("running") /\ pending' = TRUE
    /\ UNCHANGED <<data, ends>>

-----------------------------------------------------------------------------
Tracker == \/ Setup \/ SetupFails \/ Fork \/ Store \/ ParentCloses \/ OpenStream
           \/ Fill \/ Putchar \/ Eof \/ Return \/ Catch \/ Collect

Child == \/ ChildSetup \/ ChildEnds \/ Exec \/ Output \/ CloseStdout
         \/ ReadStdin \/ StdinEnds

Outside == Stop \/ Continue

\* Nothing is left to run; or the program waits for the end of its stdin,
\* the tracker for the end of the program, and both for ever.
Quiet ==
    /\ \/ pc = "exited" /\ child \notin Alive
       \/ pc = "read" /\ hpc = "idle" /\ child = "reading" /\ "tracker" \in feeders
    /\ UNCHANGED vars

Next == Tracker \/ Child \/ Outside \/ Quiet

Spec == Init /\ [][Next]_vars

\* The scheduler runs the tracker; nothing makes the program do anything.
FairSpec == Spec /\ WF_vars(Tracker)

-----------------------------------------------------------------------------
\* Every variable has its type; the pipe is within its capacity.
TypeOK ==
    /\ pc \in {"setup", "fork", "store", "close", "open", "read", "sleep", "exited"}
    /\ hpc \in {"idle", "caught"}
    /\ childpid \in {"unset", "set"}
    /\ status \in {"none", "0", "1", "2", "segv"}
    /\ endedBy \in {"none", "main", "handler"}
    /\ pending \in BOOLEAN
    /\ child \in Alive \union {"none", "zombie", "reaped"}
    /\ stops \in 0 .. MaxStops
    /\ written \in 0 .. MaxBytes
    /\ pipe \in 0 .. PipeSize
    /\ stream \in 0 .. PipeSize
    /\ printed \in 0 .. MaxBytes
    /\ {writers, readers, feeders} \subseteq SUBSET {"tracker", "child"}

\* A tracker that saw the end of the pipe has printed all the program ever
\* printed, and the program can print no more (read_from_pipe returned).
EofMeansAll ==
    pc = "sleep" \/ (pc = "exited" /\ endedBy = "main" /\ status = "0")
        => printed = written /\ "child" \notin writers

\* The handler's verdict: status 0 says that the child was waited for, and a
\* failed waitpid is blamed on nothing but a stop of the child, except when
\* the handler overtakes the store of childpid (fork-pipe-exec.c:165).
HandlerVerdict ==
    endedBy = "handler" /\ childpid = "set" =>
        /\ status = "0" => child = "reaped"
        /\ status # "0" => stops > 0

\* Once the program has ended, or only closed its stdout, the tracker ends.
TrackerEnds == (child # "none" /\ "child" \notin writers) ~> pc = "exited"

\* A program the tracker leaves behind is not stuck on the pipes: reading, it
\* sees the end of its stdin; printing, it gets SIGPIPE.
OrphanNotStuck ==
    pc = "exited" =>
        /\ child = "reading" => feeders = {}
        /\ child = "running" => readers = {}

\* What fork-pipe-exec.c:183-184 says: what the program prints is seen by
\* the tracker, so when it reports success everything has been printed.
OutputComplete == pc = "exited" /\ status = "0" => printed = written
=============================================================================
