# A verification project for linux-c-practice

The repository is a collection of small, independent C programs, each built
from one file by the `Makefile` (`gcc -O0`), that exercise one part of the
Linux interface: sockets and `poll`, pipes and signals, fifos, message queues,
threads. This directory holds TLA+ models of those programs that keep state
across steps or share it with other processes, threads or the kernel, TLC runs
that check them on small instances, and TLAPS proofs about all of them.

## 1. Inventory

The programs share no state and do not call each other; what interacts is the
processes and threads of one program, and the kernel between them.

| Component (source) | State it keeps | Operations | What is hard | What makes it correct | Module |
|---|---|---|---|---|---|
| Poll echo server (`poll_socket.c`) | `fds`, `nfds`, `current_size`, `i`, `new_sd`; open descriptors; the kernel's queues | set-up, `poll`, scan, accept loop, recv/send loop, compaction, clean-up | clients act between any two calls; several connections end in one scan; a full table; resets | table = open descriptors, no entry lost in a shift, each client served and released | `PollServer`, `PollSet` |
| Application tracker (`fork-pipe-exec.c`) | `childpid`, two pipes and who holds their ends, stdio buffer, handler | set-up, fork, copy, SIGCHLD handler, exit | the handler between any two steps of `main`; stop and continue; who still holds a pipe end | all output copied, child reaped, always ends | `AppTracker` |
| Condition variable (`thread_conditionvariable.c`) | flag, copy, mutex, deadline | receiver, sender, main | lost wakeups, timeout racing delivery, spurious wakeups, a thread that was not created | packet in one place, no wakeup lost, both threads end | `CondVar` |
| TCP server and client (`socket_tcp.c`) | one buffer, `client_sock_fd`, descriptors | set-up, accept, recv, read file, send; connect, send, recv | stale buffer, leaked descriptors, failing calls that `continue`, one source port for all clients | nothing of one client reaches another; each is answered | `TcpServer` |
| UDP server and client (`socket_udp.c`) | one datagram at a time; one shared client port | recvfrom, sendto; bind, sendto, recvfrom | loss, clients that end early, answers for whoever has the port | each client takes its own answer | `UdpServer` |
| Fifo (`ipc_fifo.c`) | the name `myfifo`, both ends, the pipe | mkfifo, open, read/write, close, unlink | the name changes its fifo under other runs; kills; SIGPIPE | nobody leaves the name; a pair passes its message | `Fifo` |
| Message queue (`ipc_msgqueue.c`) | the file, its inode, the key, the queue | fopen, ftok, msgget, msgrcv / msgsnd, IPC_RMID, unlink | the queue is removed right after the send, also one that failed; inodes are given again, and two may have one key | no queue is left behind, a waiting reader is served, nobody is left waiting | `MsgQueue` |
| Mutex counter (`thread_mutex.c`) | counter, mutex, a buffer per thread | threads: lock, add, print, malloc, unlock; main: create, join, free, destroy | load, store and print are three steps; an error exits while the mutex is held | printed 1, 2, 3, ...; a clean exit; no deadlock | `MutexCounter` |
| Semaphore threads (`thread_sem_detached.c`) | semaphore, what each sleeps still | three detached threads, main | `sem_destroy` under waiting threads; a sleep in the place of a join | every thread has finished at exit | `SemThreads` |
| Signals (`sigaction.c`) | registered handlers, mask, pending signals, nested handlers | registration, block, kill, calamity; handler with trace and `addr2line` | a handler interrupts main and other handlers at any step; one alternate stack and one array for all traces; no memory for a trace | each calamity is reported; the blocked signal waits; traces do not mix | `Signals` |
| Sort and search (`sortandsearch.c`) | buffer, key, the range searched | getentropy, qsort, bsearch | a comparison that overflows, and is then no order | sorted and found where it is an order; never found wrongly | `SortSearch` |
| Binary search tree (`binarysearchtree.c`) | tree, the keys in memory | tsearch, twalk, tdelete, tdestroy | a failure in the middle | each key freed once; walks in order | `KeyTree` |
| Time (`time.c`) | what the clock showed | read, print, sleep | casts that bind before `%` | the parts add up to the time | `ClockDisplay` |
| Poll timer (`poll_timer.c`) | timeout, start of the interval | poll of stdin, report | whole seconds are subtracted; suspended machines; stdin is not read; an int timeout | the reports add up | `PollTimer` |
| Tail queue, hash table, random numbers, memory map (`tailq.c`, `hash.c`, `random.c`, `mmap.c`) | a fixed sequence of calls | | | one behaviour | not modelled |
| File I/O, options, bit macros, string, memory, variadic, function pointer and `popen` samples | none worth a model | straight-line calls | | | not modelled |

Each hazard of these programs is listed at its line in `PROJECT.json`.

## 2. The modules

Conventions used in all of them: an action is one system call, or one step
between two points where another process can act, with every assignment that
follows it. Data is abstracted to what the properties tell apart. A definition
named `Name_Defect` is `Name` with a plausible bug; nothing uses it except the
mutation checks, which put it in the place of `Name` and expect the property to
fail. "Quiet", "Halted" and "Ended" disjuncts of a `Next` stutter where the
program really stops or waits for ever, so deadlock is checked everywhere else.

### PollServer and PollSet (`poll_socket.c`)

`pc` is where `main` is: `setup`, `poll`, `scan` (the `for` over the table),
`accept`, `recv` and `send` (inside it), `optimize` (the compaction), `out`, and
three ends: `exited`, `killed` by SIGPIPE, and `undefined` once `fds` was
written past its end: `Accept` counts `nfds` up there too, as the code does,
and nothing is modelled after it. The table is `fds`, `events`, `revents` and `nfds`, slot by
slot as in the code. A descriptor is named by the client it leads to, so that
"the table is exact" can be said at all. `Optimize` is one pass of the outer
loop; its inner loop, which reads one entry past the used ones, is `Shifted`.

Clients and the kernel under them (`Connect`, `ClientSend`, `ClientEnds`, `Report`,
`Readable`) are the environment: a client connects once, sends, closes (`fin`) or
resets (`rst`), and its kernel answers data that arrives after a close with a
reset (`answered`, then `rst`).

Two constants say what the code leaves to its platform and clients:
`AcceptedNonblocking` is whether `accept` hands the flag O_NONBLOCK down (the
comment at lines 43-48 assumes it, Linux does not do it), and `Pipelined` is
whether a client may send before it has its last reply.

`PollSet` is the abstract specification: a set of watched descriptors, to which
a connection is added once and from which it is removed once. The refinement maps
`watched` to the entries of the table, `admitted` to the connections accepted, and
`closed` to those the server closed again. An overflow of the table is `Stop`, for
after it nothing is promised.

### AppTracker (`fork-pipe-exec.c`)

`Setup` to `Return` are `main` of the parent, `ChildSetup` to `ChildEnds` the child
up to and including `execvp`. `Catch` and `Collect` are `collect_zombie`: caught
between any two steps of `main`, which does not go on because the handler always
exits. The pipes are who holds their ends (`writers`, `readers`, `feeders`), since
that decides every end of file and SIGPIPE; bytes are counted, in the pipe, in
the stdio buffer and printed. `OpenStream` is the `fdopen`, whose NULL crashes the
tracker in `fgetc`. The program started is any program: it prints,
may close stdout, may read stdin to its end, ends, and is stopped and continued.

### CondVar (`thread_conditionvariable.c`)

The steps of `receiver`, `sender` and `main`, the mutex as its holder, the wait
that gives it back, the signal that is lost when nobody waits, the deadline that
may pass at any time after it was set, and the spurious wakeup that POSIX allows.
A `pthread_create` may fail, which main does not look at (`Create`); the join of a
tid that was never set then returns an error or crashes the process (`Join`).

### TcpServer (`socket_tcp.c`) and UdpServer (`socket_udp.c`)

In `TcpServer` each cell of the buffer is named by where its byte came from (a
client, the file, the initial content), which is what `NoCrossClientData` needs;
`held` are the descriptors the loop never closes; `Setup` has the outcomes of the
loop over the addresses, among them the socket used without `bind` after a failed
`setsockopt`. The file has a line, is empty, or is missing. Every client is bound
to port 9191 (lines 40-50): while the connection of another client is there a
second is refused, and what an earlier one left may or may not be in the way
(`Outcomes`); before that a client may return or exit (`ClientFails`). In `UdpServer`
the network may lose a datagram (`lost` remembers that it did) and a client may end
without its answer (`Gone`: killed, without an address, or after a failed
`recvfrom`); the inbox belongs to port 9192, not to a client.

### Fifo (`ipc_fifo.c`) and MsgQueue (`ipc_msgqueue.c`)

Each process is a run of the program with the role its options ask for, or with
options that end it. In `Fifo` a name leads to a fifo, which is named by the run
that made it, because `unlink` and `mkfifo` of other runs change what the name
means; `Open` waits for the other end and wakes those who wait for this one. In
`MsgQueue` a file has an inode, `ftok` turns it into the key, and `msgget` finds the
queue of the key or makes it; an inode number is given again once no name and no
open file has it, and the file opened with "r" stays open (line 59 has no
`fclose` when it succeeds), which is why `held` is part of the state. `ftok` takes 16
bits of the inode (`KeyMod`), so that two inodes may have one key. A `msgsnd` may
fail, at a queue that is there too; the run reports it and goes on, `unsent`, to
remove the queue.

### MutexCounter (`thread_mutex.c`) and SemThreads (`thread_sem_detached.c`)

`MutexCounter` has N threads, of which the program has two. What one does between
lock and unlock is five steps, so that a lock that does not lock would show;
an error in any thread ends the process, with the mutex held. Each thread's
buffer goes from `malloc` to the `free` of the main thread that joins it. In
`SemThreads` time passes in seconds: `mleft` and `dleft` count down what a sleep
has left, and go below 0, to at most `-Lag`, for a step that is due and late, so
that "thirty seconds are enough" is a statement about the code's own numbers.

### Signals (`sigaction.c`)

`Order` is the order of the registrations. `frames` is the stack of handlers that
run; main goes on only while it is empty, and a signal is delivered when it is
neither in main's mask nor that of a handler in `frames` (`Mask`). A handler
reports, fills the array of addresses all handlers share (`stack_traces` is whose
addresses it holds), turns it into lines (`Symbols`), calls `system` for a line with
an address, during which SIGINT is ignored, and exits. Without memory for the lines
(`SymbolsFail`) it reads through NULL: SIGSEGV, which kills the process where it is
blocked and enters the handler again where it is not. `calamity` is the line of `cause_calamity` that is not
commented out: the source offers six. `AltFrames` is how many handlers fit the
alternate stack; `overrun` is the outcome of one more. Calls of the C library
are not interrupted in the middle: what `fprintf` inside `fprintf` does is not
modelled.

### SortSearch, KeyTree, ClockDisplay, PollTimer

The programs of one thread. In `SortSearch` an int is one of
`-IntHalf..IntHalf - 1`, and `qsort` returns any permutation, in order if the
comparison is an order on the numbers; `bsearch` is its own steps. `KeyTree` has the eleven keys of the source, each
pointer named by the index of its key, and the tree as the set of the pointers in
it. `ClockDisplay` has the casts and the `%` of C at an int of
`-ClockHalf..ClockHalf - 1`.
`PollTimer` has a clock that goes on while the machine is suspended and a poll that
does not; `Typed` makes stdin readable, and it stays so.

### MCPollServer, MCPrograms, MCHandlers, MCStreams, MCMessages

`MCPollServer` names the sets and the symmetry of the poll server's runs.
The others check several modules in one run: these programs share nothing, so a
behaviour chooses one (`program`) at first and leaves the variables of the others
alone. In `MCStreams` (`TcpServer`, `Fifo`) and `MCMessages` (`MsgQueue`, `UdpServer`) the
other program starts where nothing of it is left to run, so that its fairness asks
for nothing. The states are the sum of the programs' states, not their
product.

## 3. The runs

| Run | Bounds | What it shows |
|---|---|---|
| `poll_table` | 3 interchangeable clients, table of 3, 1 message | `TypeOK`, `TableExact`, `ReadyToPoll`, `NoLeakAtExit`, `FirstRecvReady`, `RefinesPollSet` |
| `poll_liveness` | 2 clients that wait for their replies, 2 messages | `EchoPerMessage`, `Served`, `ClosedPeerReleased` |
| `poll_accept_all` | 2 clients | violated: `AcceptsAllQueued` |
| `poll_overflow` | 2 clients, table of 2 | violated: `AddedToPollList` |
| `poll_reset` | 1 client | violated: `ResetPeerReleased` |
| `poll_blocking` | 2 clients, blocking accepted sockets | violated: `Served` |
| `handlers` | tracker: 4 bytes, pipe of 2, 2 stops; signals: 3 of others, 2 handlers on the stack, traces of 2 | `TypeOK` (of `AppTracker`), `EofMeansAll`, `HandlerVerdict`, `OrphanNotStuck`, `TrackerEnds`; `Usr1Waits`, `TraceIsItsOwn`, `FailsLoudly` |
| `tracker_output` | 2 bytes, no stop | violated: `OutputComplete` |
| `trace_memory` | 2 calamities, 1 signal of others | violated: `TraceNeverFaults` |
| `programs` | 3 counting threads; lateness of 3 s; ints from -4 to 3, 3 of 4 lengths; a clock's int of 2^18 values; 9 ticks, 3 a second | `TypeOK` (of `CondVar`), `Conservation`, `NoLostWakeup`; `PrintedInOrder`, `CleanExit`; `AllFinished`; `SearchIsRight`; `KeysAccounted`; `ClockReads`; `ReportsAddUp`; `ProgramsEnd` of all that are to end |
| `streams` | TCP: 3 clients, 3 descriptors, buffer of 3; fifo: 3 runs of any roles | `NameHasItsUser`, `NeitherAlone`, `Delivered` (of `Fifo`); `NoCrossClientData`, `Answered` (of `TcpServer`) |
| `messages` | queue: 3 runs of any roles, 3 inodes, 2 keys; UDP: 3 clients | `TypeOK`, `NoOrphanQueue`, `WaiterServed`, `NobodyLeftWaiting` (of `MsgQueue`); `OwnAnswer`, `Answered` (of `UdpServer`) |

Why the bounds are enough. With three slots, one of them the listening socket's,
three clients overflow the table, two connections end in one scan in adjacent
slots or at its ends, and a connection is accepted in the scan in which another
ends; the proofs below remove these bounds for the safety properties. One message
per client suffices for the table, two for the replies. A client makes one
connection; a further one of the same client is one of another client. In
`handlers` the pipe fills, is emptied in parts, and the program is stopped before
and after `childpid` is known. In `streams` a client of the TCP server finds what the
one before left in the buffer, is answered while the descriptors of others are
still held, and the third takes the last descriptor, so that none is left for the
file. In the fifo and the message queue three runs contain every mix of readers and writers in which one finds a name, a
fifo or a queue of which another has removed something; four would only add a
second independent pair. Inodes 1 and 3 have one key, inode 2 has another.

With two handlers on the alternate stack and three signals of others beside the
calamity's own, handlers nest to the limit and one beyond it, which is the only
way beside a trace without memory in which `FailsLoudly` allows a calamity to end
unreported. Three counting threads give
one that waits while another holds the mutex and a third has finished. A lateness
of three seconds for each step is the most at which thirty seconds still suffice
for three threads with one place; four make `AllFinished` fail. Ints from -4 to 3 have every
pair of numbers with an overflowing difference, and three numbers every way for the
comparison not to be transitive; the length 4 stands for those `getentropy`
refuses. An int of 2^18 values has room for a day and a half, so that the cast
wraps after days do. Nine ticks are three seconds, reports of a timeout of one
or four ticks, and the timeouts 15 and 18 are negative and small as ints from -8 to 7.

What a bound hides: `MaxMsgs` excludes a client that never stops sending, which
would hold the poll server in its recv loop for ever; messages fit the 64-byte
buffer with their terminator; a client of the TCP server sends once. `EchoPerMessage`
speaks of clients that wait for each reply, `Answered` of connections that were made
and, in `UdpServer`, of datagrams that were not lost: what the others meet is in the
models, and the notes of `PROJECT.json` say so hazard by hazard.

### Fairness

`WF` is given to the program's own processes and threads, as the scheduler gives it:
`Server`, `Tracker`, each thread, each run, and in `Signals` the process and the
kernel that delivers to it. Nothing makes a client of the poll
server send or close, a program under the tracker do anything, accept, msgsnd or a
client of the socket programs fail, a run be killed, others send signals, or a wait
end spuriously. The one strong fairness, on `Accept(c)` in
`TcpServer`, is the kernel's first-in-first-out backlog: a connection that is at
the head of the queue again and again is taken. `WF_vars(Expire)` in `CondVar` and
the fairness of `SemNext` are that time passes. Nothing is asked of `time.c`, which
runs for ever, and of the timer, which spins once a line is typed.

### What the violated properties say

 - `AcceptsAllQueued` (poll_socket.c:104-106, "Accept all incoming connections that
   are queued up ..."): `new_sd` keeps the -1 that ended the first accept loop, so
   the loop is never entered again and later connections are never accepted.
 - `ResetPeerReleased` (line 95, "skip if there is no POLLIN"): `!= POLLIN` also
   skips POLLIN with POLLERR or POLLHUP, so a reset connection stays in the table.
 - `Served` with blocking sockets (lines 43-48): one silent client stops all.
 - `AddedToPollList` (line 120, "added end of the poll list"): nothing compares `nfds`
   with the 32 slots, so that the connection after the last slot is written behind
   the array.
 - `TraceNeverFaults` (sigaction.c:83, `if (messages)`): that `backtrace_symbols` may
   return NULL is provided for after the loop that has read every line through it.
 - `OutputComplete` (fork-pipe-exec.c:183-184): the SIGCHLD handler exits with
   status 0 while output of the child is still in the pipe or in the buffer.

Disagreements seen while modelling that no run is kept for: two messages that
arrive in one `recv` get one reply (`EchoPerMessage` is therefore stated for clients
that wait); `socket_tcp.c:203` speaks of echoing but sends the file's line; a failed
`setsockopt` in both socket programs leaves the loop as if `bind` had succeeded;
the timed wait is not repeated, so a spurious wakeup is reported as a timeout;
`sortandsearch.c:31` gives 256 as the longest buffer, but `getentropy` fails above 64
ints (line 45), and with numbers whose differences overflow "NOT found" (line 74)
is printed of a key that is in the buffer (the last part of `SearchIsRight` says
what is left); `random.c:19` speaks of 100 to 10000 and prints 100 to 10099; every
entry of `hash.c` points to the same loop variable (line 35).

## 4. The proofs

Each is for every value of the constants, under the `Assumption` its module
states (TLC evaluates it in the runs).

| Module | Theorem | Statement |
|---|---|---|
| `PollServerProofs` | `TypeCorrect` | `Spec => []TypeOK` |
| | `TableIsExact` | `Spec => []TableExact` |
| | `AlwaysReadyToPoll` | `Spec => []ReadyToPoll` |
| | `NothingLeaks` | `Spec => []NoLeakAtExit` |
| | `FirstRecvIsReady` | `Spec => FirstRecvReady` |
| | `OneReplyPerMessage` | `Spec => [](~Pipelined => EchoPerMessage)` |
| | `Refinement` | `Spec => RefinesPollSet` |
| `HandlersProofs` | `TrackerTypeCorrect` | `Spec => []TypeOK` (`AppTracker`) |
| | `EofIsTheEnd` | `Spec => []EofMeansAll` |
| | `VerdictIsRight` | `Spec => []HandlerVerdict` |
| | `OrphansAreFree` | `Spec => []OrphanNotStuck` |
| | `SigTypeCorrect` | `SigSpec => []SigTypeOK` (`Signals`) |
| | `TracesDoNotMix` | `SigSpec => []TraceIsItsOwn` |
| | `Usr1StaysPending` | `SigSpec => []Usr1Waits` |
| `ThreadsProofs` | `PacketTypeCorrect` | `Spec => []TypeOK` (`CondVar`) |
| | `PacketIsConserved` | `Spec => []Conservation` |
| | `WakeupsAreNotLost` | `Spec => []NoLostWakeup` |
| | `MutexTypeCorrect` | `MutexSpec => []MutexTypeOK` |
| | `CounterInOrder` | `MutexSpec => []PrintedInOrder` |
| | `MainEndsClean` | `MutexSpec => []CleanExit` |
| | `SemTypeCorrect` | `SemSpec => []SemTypeOK` |
| | `ThirtySecondsAreEnough` | `SemSpec => []AllFinished`, assuming `Lag <= 3` |
| `UdpServerProofs` | `TypeCorrect` | `UdpSpec => []UdpTypeOK` |
| | `AnswersReachTheirClient` | `UdpSpec => []OwnAnswer` |
| `TcpServerProofs` | `TypeCorrect` | `Spec => []TypeOK` |
| | `ClientsAreApart` | `Spec => []NoCrossClientData` |
| `FifoProofs` | `TypeCorrect` | `FifoSpec => []FifoTypeOK` |
| | `NameIsNotLeft` | `FifoSpec => []NameHasItsUser` |
| | `NoEndIsLeftAlone` | `FifoSpec => []NeitherAlone` |
| `MsgQueueProofs` | `TypeCorrect` | `Spec => []TypeOK` |
| | `NobodyLeavesAQueue` | `Spec => []NoOrphanQueue` |
| | `WaiterIsServed` | `Spec => WaiterServed` |
| `AlgorithmProofs` | `ClockIsRight` | `ClockSpec => []ClockReads` |
| | `TimerAddsUp` | `TimerSpec => []ReportsAddUp` |
| | `SearchCorrect` | `SortSpec => []SearchIsRight` |
| | `EveryKeyAccounted` | `TreeSpec => []KeysAccounted` |

So every safety property that a passing run checks is also a theorem.

Each program has an inductive invariant (`IInv` of the poll and UDP servers, `TcpInv`, `FifoInv` and `NameInv`,
`QueueInv`, `TrackerInv`, `SigInv`, `PacketInv`, `MutexInv`, `SemTypeOK` with `Enough`, `SearchInv`,
`TreeInv`, `ClockInv`, `TimerInv`), a proof that the initial states satisfy it and that
each action keeps each of its parts, and the theorems as consequences. What the invariant adds to
the properties, and why it is needed:

PollServer. `TableExact` after a close needs that the scan is inside the table and
at a connection, and that needs that what the scan has still to visit was not
closed meanwhile.

 - `Position`: where `i` and `current_size` are in each phase, what the current entry
   is, and that entries the compaction has passed are live;
 - `Lifecycle`: a connection is queued or open, not both, and not before it
   connected; a process that ended holds nothing;
 - `Counts`: replies sent, messages unread and the one in hand are no more than the
   messages sent, so that no counter leaves its type;
 - `Fresh`: an entry that poll reported as readable, and the scan has still to
   visit, is readable still, although clients and the server have acted since.

There is one lemma per action (`SetupStep` ... `ClientEndsStep`) with one step per
conjunct, lemmas for closing an entry, and `InvariantHolds` combines them.
`OneReplyPerMessage` adds an invariant for clients that wait: they have at most one
message outstanding. The refinement maps each step to a step of `PollSet` or to a
stutter, under `IInv`.

AppTracker. `Conserved`: a byte the program printed is in the pipe, in the stream's
buffer or given to putchar, so an end of file, at which the first two are empty,
means all. `Ends`: who holds which end of which pipe, from where the two processes
are. `Caused`: a SIGCHLD comes from the end of the child or from a stop.

CondVar. `Taken`: the sender has its copy only after it took it, and nobody waits
while there is a packet; with the mutual exclusion in `TypeOK`, the receiver cannot
deliver between the sender's copy and its reset of the flag. `Started`: a thread
does nothing before it is created.

UdpServer. `OnePort`: one client has the port at a time. `OnTheWay`: while none has
gone, a request or answer on its way belongs to a client that still waits, and
is in one place. `Asked`: nothing is on its way for a client that has not asked.

TcpServer. `Unowned`: between two steps no cell of the buffer came from a client,
since `recv` and the `memset` after the print are one step of the server. What is
printed for a client is then the client's own bytes and what was there before, and
what is sent has no client's at all. `Lifecycle`: a client without a `connect` has no
connection, so that none is up twice.

Fifo. `ReaderMet` and `WriterMet` are what the blocking `open` gives a single run of a
kind: it has met somebody who has still to write, or has written what is still in
the fifo; who has still to read. Both need the other's place in the program
(nobody is past `open` at a fifo before the single run has opened it), and that a fifo
is emptied only by its last end (`ShutKeeps`). For the name, `Fresh` says that the fifo
a run may make is not there before it does, so that a fifo that lost the name does
not get it back; and `MetByReader` that a writer past its open, at the fifo that has
the name, has met a reader that has not removed it yet. It is that reader that makes
good for a writer that dies of SIGPIPE short of its `unlink`. That there are finitely
many runs is an assumption of `Fifo`.

MutexCounter. `Counted`: the counter is the number of values printed, or one more
between a store and its print, and what a thread has loaded is still the counter.
`EachOnce` counts the threads that printed, and `Lifecycle` says which threads exist
and whose buffers are there for each place of main.

Signals. The array is the last handler's while it has still to be read, because a
handler that filled it over another's never returns to that one. `Usr1Blocked`: once main has blocked SIGUSR1, no handler of it runs or will.
`Usr1Pending`: once it is sent, nothing takes it. `Registering`: main does not
register past the end of `Order`.

MsgQueue. `Unmade`: a queue is named by the run that made it, and nothing leads to
one that is not made yet, so that a new queue is empty and nobody's. `Queues` says
that an inode that was given again still leads to one queue only. `SentFirst` is what
`WaiterServed` rests on: a writer about to remove a queue that is there, and that did
not report a failed `msgsnd`, has sent to it, so that the only reader has received or
there is a message in the queue, and by `Queues` it does not wait then. That a queue
has a run that uses it (`NoOrphanQueue`) is inductive with these: a run that leaves a
queue without removing it has received, and then a writer is still about to remove
the queue, or has found it removed.

SemThreads. `Work` is the time the threads may still take one after the other, each
its four seconds and a lateness for `sem_wait` and for `sem_post`; `Until` is the time
main still gives them, at least. `Enough`: as long as a thread is unfinished, `Work` is
less than `Until`, or will be: main counts down while the threads stand still only if
nobody is between wait and post, that is for `Lag` seconds at a time (the credit `c`,
which is back at 0 when a thread goes in). `Tick` lowers both, and what is left is the
start, 3 * (4 + 2 * Lag) < 34, which is `Lag <= 3`: the assumption of the theorem, and
TLC finds `AllFinished` violated at 4. The theorem is for any number of permits.

SortSearch. Where all differences fit, `comparison` has the sign of the difference
(`ComparisonIsExact`), so the buffer is in order after `qsort`, whichever permutation
that makes. `SearchInv`: while `bsearch` runs and the comparison is an order, the key is
in the range not searched yet; `Halves` is the arithmetic of the middle.

KeyTree. Its constants are those of the source. `Places`: in a walk, the place of a
key is the number of keys before it, which is an injection into as many places as there
are keys, hence onto them; so a walk prints each key and in order (`WalkIsRight`).
`TreeInv`: the pointers in the tree are those allocated, but for the one deleted
between the walks, whose memory nothing leads to any more.

ClockDisplay. `CastKeeps`: what is less than `ClockHalf` stays what it is in the cast,
which the hours and minutes are since a day is (the assumption), and the seconds
are as long as the whole time is.

PollTimer. `DueInTime`: poll times out at its deadline at the earliest, and the clock
that goes on in a suspended machine has gone on at least as far. `Reported`: the sum
of the reports is the whole seconds of the last start less those of the first, for the
differences of whole seconds telescope.

Only model-checked is all liveness (fairness and ENABLED are beyond the prover):
`Served`, `ClosedPeerReleased`, `TrackerEnds`, `FailsLoudly`, `Delivered`,
`NobodyLeftWaiting`, `Answered` and `ProgramsEnd`.

## 5. Plan and limits

Done: every program that keeps state across steps of several processes, threads or
handlers, and the single-threaded ones whose result depends on their input, with
the proofs of section 4.

Next:

 1. The state of the C library inside a call, for the handlers that call it
    (`fork-pipe-exec.c:48`, `sigaction.c`).
 2. Abstract specifications for the programs beside the poll server, with the
    refinement proved: the mutex counter as a counter that is added to in one step, the
    condition variable as a place for one packet.

Not modelled:

 - `tailq.c`, `hash.c`, `random.c`, `mmap.c`: one fixed sequence of calls without input or
   partner. There is one behaviour, which one run of the program shows, and no state
   that a second step could find wrong. What was seen reading them is in section 3.
 - `getopt.c`, `embeddedc.c`, `file_io.c`, `file_stream.c`, and the string, memory,
   variadic, function pointer and `popen` samples: library calls on constants, printed.
 - In the socket programs, the options of `main` and the order in which `getaddrinfo`
   returns addresses; in the message queue, the bytes and the type of a message
   (`ipc_msgqueue.c:91` passes a string literal for a `msgbuf`; the crash that may follow
   is an action of the model); in `time.c`, `localtime`; in the tree, the depths printed.
