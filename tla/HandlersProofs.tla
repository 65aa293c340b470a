--------------------------- MODULE HandlersProofs ---------------------------
(***************************************************************************)
(* Proofs about the programs that live by their signal handlers.           *)
(* AppTracker, for every number of bytes, capacity of the pipes and number *)
(* of stops: no byte is lost inside the tracker (Conserved); who holds     *)
(* which end of a pipe follows from where the two processes are (Ends);    *)
(* and SIGCHLD has a cause (Caused).  Signals, for every choice of         *)
(* calamities, every set of signals sent, every size of the alternate      *)
(* stack and every length of a trace: handlers are entered one on top of   *)
(* the other and never left, so that none reads the array of addresses     *)
(* after another has filled it, and what main has blocked stays blocked.   *)
(***************************************************************************)
EXTENDS AppTracker, Signals, TLAPS

-----------------------------------------------------------------------------
(* AppTracker *)

\* A byte the program has printed is in the pipe, in the stream's buffer, or
\* given to putchar.
Conserved == written = printed + stream + pipe

Ends ==
    /\ "tracker" \in writers <=> pc \in {"fork", "store", "close"}
    /\ "tracker" \in readers <=> pc \in {"fork", "store", "close", "open", "read"}
    /\ "tracker" \in feeders <=> pc \in {"fork", "store", "close", "open", "read", "sleep"}
    /\ "child" \in writers => child \in Alive
    /\ "child" \in readers \union feeders => child = "forked"
    /\ pc \in {"setup", "fork"} => child = "none"
    /\ pc \in {"setup", "fork", "store"} => childpid = "unset"
    /\ pc \in {"setup", "fork", "store", "close", "open"} => stream = 0
    /\ pc # "exited" => endedBy = "none"

\* A handler that is about to run was woken by the end of the child or by a
\* stop, and the child is not reaped before the handler has run.
Caused ==
    /\ pending \/ hpc = "caught" => child = "zombie" \/ stops > 0 \/ pc = "exited"
    /\ child = "stopped" => stops > 0
    /\ pc # "exited" => child # "reaped"
    /\ pc = "exited" => hpc = "idle"

TrackerInv == TypeOK /\ Conserved /\ Ends /\ Caused /\ EofMeansAll /\ HandlerVerdict

LEMMA TrackerStarts == Init => TrackerInv
<1> SUFFICES ASSUME Init PROVE TrackerInv
  OBVIOUS
<1>1. TypeOK
  <2>1. {writers, readers, feeders} \subseteq SUBSET {"tracker", "child"}
    <3>1. writers = {} /\ readers = {} /\ feeders = {}
      BY DEF Init
    <3> QED  BY <3>1
  <2>2. /\ stops \in 0 .. MaxStops /\ written \in 0 .. MaxBytes /\ pipe \in 0 .. PipeSize
        /\ stream \in 0 .. PipeSize /\ printed \in 0 .. MaxBytes
    BY Assumption DEF Init
  <2> QED  BY <2>1, <2>2 DEF Init, TypeOK
<1>2. Conserved /\ Ends /\ Caused /\ EofMeansAll /\ HandlerVerdict
  BY DEF Init, Conserved, Ends, Caused, EofMeansAll, HandlerVerdict
<1> QED  BY <1>1, <1>2 DEF TrackerInv

\* Each step keeps each part.
LEMMA TrackerStep == TrackerInv /\ [Next]_vars => TrackerInv'
<1> SUFFICES ASSUME TrackerInv, [Next]_vars PROVE TrackerInv'
  OBVIOUS
<1> USE Assumption
<1>1. CASE Setup
  <2>1. TypeOK'
    BY <1>1 DEF TrackerInv, Setup, Goto, data, TypeOK
  <2>2. Conserved'
    BY <1>1 DEF TrackerInv, Setup, data, Conserved
  <2>3. Ends'
    BY <1>1 DEF TrackerInv, Setup, Main, Goto, data, Ends
  <2>4. Caused'
    BY <1>1 DEF TrackerInv, Setup, Main, Goto, Caused
  <2>5. EofMeansAll'
    BY <1>1 DEF Setup, Goto, EofMeansAll
  <2>6. HandlerVerdict'
    BY <1>1 DEF TrackerInv, Setup, Goto, HandlerVerdict
  <2> QED  BY <2>1, <2>2, <2>3, <2>4, <2>5, <2>6 DEF TrackerInv
<1>2. CASE SetupFails
  <2>1. TypeOK'
    BY <1>2 DEF TrackerInv, SetupFails, Exit, Without, data, TypeOK
  <2>2. Conserved'
    BY <1>2 DEF TrackerInv, SetupFails, data, Conserved
  <2>3. Ends'
    BY <1>2 DEF TrackerInv, SetupFails, Exit, Without, Ends
  <2>4. Caused'
    BY <1>2 DEF TrackerInv, SetupFails, Exit, Caused
  <2>5. EofMeansAll'
    BY <1>2 DEF TrackerInv, SetupFails, Main, Exit, Ends, EofMeansAll
  <2>6. HandlerVerdict'
    BY <1>2 DEF SetupFails, Exit, HandlerVerdict
  <2> QED  BY <2>1, <2>2, <2>3, <2>4, <2>5, <2>6 DEF TrackerInv
<1>3. CASE Fork
  <2>1. TypeOK'
    BY <1>3 DEF TrackerInv, Fork, Goto, Exit, Without, data, Alive, TypeOK
  <2>2. Conserved'
    BY <1>3 DEF TrackerInv, Fork, data, Conserved
  <2>3. Ends'
    BY <1>3 DEF TrackerInv, Fork, Main, Goto, Exit, Without, data, Alive, Ends
  <2>4. Caused'
    BY <1>3 DEF TrackerInv, Fork, Main, Goto, Exit, Ends, Caused
  <2>5. EofMeansAll'
    BY <1>3 DEF TrackerInv, Fork, Main, Goto, Exit, Ends, EofMeansAll
  <2>6. HandlerVerdict'
    BY <1>3 DEF TrackerInv, Fork, Main, Goto, Exit, Ends, HandlerVerdict
  <2> QED  BY <2>1, <2>2, <2>3, <2>4, <2>5, <2>6 DEF TrackerInv
<1>4. CASE Store
  <2>1. TypeOK'
    BY <1>4 DEF TrackerInv, Store, data, ends, TypeOK
  <2>2. Conserved'
    BY <1>4 DEF TrackerInv, Store, data, Conserved
  <2>3. Ends'
    BY <1>4 DEF TrackerInv, Store, Main, data, ends, Ends
  <2>4. Caused'
    BY <1>4 DEF TrackerInv, Store, Main, Caused
  <2>5. EofMeansAll'
    BY <1>4 DEF Store, EofMeansAll
  <2>6. HandlerVerdict'
    BY <1>4 DEF TrackerInv, Store, Main, Ends, HandlerVerdict
  <2> QED  BY <2>1, <2>2, <2>3, <2>4, <2>5, <2>6 DEF TrackerInv
<1>5. CASE ParentCloses
  <2>1. TypeOK'
    BY <1>5 DEF TrackerInv, ParentCloses, Goto, data, TypeOK
  <2>2. Conserved'
    BY <1>5 DEF TrackerInv, ParentCloses, data, Conserved
  <2>3. Ends'
    BY <1>5 DEF TrackerInv, ParentCloses, Main, Goto, data, Alive, Ends
  <2>4. Caused'
    BY <1>5 DEF TrackerInv, ParentCloses, Main, Goto, Caused
  <2>5. EofMeansAll'
    BY <1>5 DEF ParentCloses, Goto, EofMeansAll
  <2>6. HandlerVerdict'
    BY <1>5 DEF TrackerInv, ParentCloses, Goto, HandlerVerdict
  <2> QED  BY <2>1, <2>2, <2>3, <2>4, <2>5, <2>6 DEF TrackerInv
<1>6. CASE Fill
  <2>1. TypeOK'
    BY <1>6 DEF TrackerInv, Fill, tracker, ends, TypeOK
  <2>2. Conserved'
    BY <1>6 DEF TrackerInv, Fill, TypeOK, Conserved
  <2>3. Ends'
    BY <1>6 DEF TrackerInv, Fill, Main, tracker, ends, Ends
  <2>4. Caused'
    BY <1>6 DEF TrackerInv, Fill, tracker, Caused
  <2>5. EofMeansAll'
    BY <1>6 DEF Fill, Main, tracker, EofMeansAll
  <2>6. HandlerVerdict'
    BY <1>6 DEF TrackerInv, Fill, tracker, HandlerVerdict
  <2> QED  BY <2>1, <2>2, <2>3, <2>4, <2>5, <2>6 DEF TrackerInv
<1>7. CASE Putchar
  <2>1. TypeOK'
    BY <1>7 DEF TrackerInv, Putchar, tracker, ends, TypeOK, Conserved
  <2>2. Conserved'
    BY <1>7 DEF TrackerInv, Putchar, TypeOK, Conserved
  <2>3. Ends'
    BY <1>7 DEF TrackerInv, Putchar, tracker, ends, Ends
  <2>4. Caused'
    BY <1>7 DEF TrackerInv, Putchar, tracker, Caused
  <2>5. EofMeansAll'
    BY <1>7 DEF Putchar, Main, tracker, EofMeansAll
  <2>6. HandlerVerdict'
    BY <1>7 DEF TrackerInv, Putchar, tracker, HandlerVerdict
  <2> QED  BY <2>1, <2>2, <2>3, <2>4, <2>5, <2>6 DEF TrackerInv
<1>8. CASE Eof
  <2>1. TypeOK'
    BY <1>8 DEF TrackerInv, Eof, Goto, data, TypeOK
  <2>2. Conserved'
    BY <1>8 DEF TrackerInv, Eof, data, Conserved
  <2>3. Ends'
    BY <1>8 DEF TrackerInv, Eof, Main, Goto, Ends
  <2>4. Caused'
    BY <1>8 DEF TrackerInv, Eof, Main, Goto, Caused
  <2>5. EofMeansAll'
    BY <1>8 DEF TrackerInv, Eof, AtEof, data, TypeOK, Conserved, EofMeansAll
  <2>6. HandlerVerdict'
    BY <1>8 DEF TrackerInv, Eof, Goto, HandlerVerdict
  <2> QED  BY <2>1, <2>2, <2>3, <2>4, <2>5, <2>6 DEF TrackerInv
<1>9. CASE Return
  <2>1. TypeOK'
    BY <1>9 DEF TrackerInv, Return, Exit, Without, data, TypeOK
  <2>2. Conserved'
    BY <1>9 DEF TrackerInv, Return, data, Conserved
  <2>3. Ends'
    BY <1>9 DEF TrackerInv, Return, Exit, Without, Ends
  <2>4. Caused'
    BY <1>9 DEF TrackerInv, Return, Exit, Caused
  <2>5. EofMeansAll'
    BY <1>9 DEF TrackerInv, Return, Main, Exit, Without, data, EofMeansAll
  <2>6. HandlerVerdict'
    BY <1>9 DEF Return, Exit, HandlerVerdict
  <2> QED  BY <2>1, <2>2, <2>3, <2>4, <2>5, <2>6 DEF TrackerInv
<1>10. CASE Catch
  <2>1. TypeOK'
    BY <1>10 DEF TrackerInv, Catch, data, ends, TypeOK
  <2>2. Conserved'
    BY <1>10 DEF TrackerInv, Catch, data, Conserved
  <2>3. Ends'
    BY <1>10 DEF TrackerInv, Catch, data, ends, Ends
  <2>4. Caused'
    BY <1>10 DEF TrackerInv, Catch, Caused
  <2>5. EofMeansAll'
    BY <1>10 DEF TrackerInv, Catch, data, ends, EofMeansAll
  <2>6. HandlerVerdict'
    BY <1>10 DEF TrackerInv, Catch, HandlerVerdict
  <2> QED  BY <2>1, <2>2, <2>3, <2>4, <2>5, <2>6 DEF TrackerInv
<1>11. CASE Collect
  <2>1. TypeOK'
    BY <1>11 DEF TrackerInv, Collect, Exit, Without, data, TypeOK
  <2>2. Conserved'
    BY <1>11 DEF TrackerInv, Collect, data, Conserved
  <2>3. Ends'
    BY <1>11 DEF TrackerInv, Collect, Exit, Without, Alive, Ends
  <2>4. Caused'
    BY <1>11 DEF TrackerInv, Collect, Exit, Caused
  <2>5. EofMeansAll'
    BY <1>11 DEF Collect, Exit, EofMeansAll
  <2>6. HandlerVerdict'
    <3>1. childpid = "set" => childpid' = "set" /\ (status' = "0" <=> child = "zombie")
      BY <1>11 DEF Collect, WaitedFor, Exit
    <3>2. child = "zombie" => child' = "reaped"
      BY <1>11 DEF Collect
    <3>3. child = "zombie" \/ stops > 0
      BY <1>11 DEF TrackerInv, Collect, Caused
    <3> QED  BY <1>11, <3>1, <3>2, <3>3 DEF Collect, Exit, HandlerVerdict
  <2> QED  BY <2>1, <2>2, <2>3, <2>4, <2>5, <2>6 DEF TrackerInv
<1>12. CASE ChildSetup
  <2>1. TypeOK'
    BY <1>12 DEF TrackerInv, ChildSetup, Process, tracker, data, Alive, TypeOK
  <2>2. Conserved'
    BY <1>12 DEF TrackerInv, ChildSetup, data, Conserved
  <2>3. Ends'
    BY <1>12 DEF TrackerInv, ChildSetup, Process, tracker, data, Alive, Ends
  <2>4. Caused'
    BY <1>12 DEF TrackerInv, ChildSetup, Process, tracker, Caused
  <2>5. EofMeansAll'
    BY <1>12 DEF TrackerInv, ChildSetup, Process, tracker, data, EofMeansAll
  <2>6. HandlerVerdict'
    BY <1>12 DEF TrackerInv, ChildSetup, Process, tracker, HandlerVerdict
  <2> QED  BY <2>1, <2>2, <2>3, <2>4, <2>5, <2>6 DEF TrackerInv
<1>13. CASE ChildEnds
  <2>1. TypeOK'
    BY <1>13 DEF TrackerInv, ChildEnds, Process, Without, tracker, data, TypeOK
  <2>2. Conserved'
    BY <1>13 DEF TrackerInv, ChildEnds, data, Conserved
  <2>3. Ends'
    BY <1>13 DEF TrackerInv, ChildEnds, Process, Without, tracker, data, Ends
  <2>4. Caused'
    BY <1>13 DEF TrackerInv, ChildEnds, Process, tracker, Caused
  <2>5. EofMeansAll'
    BY <1>13 DEF TrackerInv, ChildEnds, Process, Without, tracker, data, EofMeansAll
  <2>6. HandlerVerdict'
    BY <1>13 DEF TrackerInv, ChildEnds, Process, tracker, HandlerVerdict
  <2> QED  BY <2>1, <2>2, <2>3, <2>4, <2>5, <2>6 DEF TrackerInv
<1>14. CASE Exec
  <2>1. TypeOK'
    BY <1>14 DEF TrackerInv, Exec, Process, tracker, data, ends, Alive, TypeOK
  <2>2. Conserved'
    BY <1>14 DEF TrackerInv, Exec, data, Conserved
  <2>3. Ends'
    BY <1>14 DEF TrackerInv, Exec, Process, tracker, data, ends, Alive, Ends
  <2>4. Caused'
    BY <1>14 DEF TrackerInv, Exec, Process, tracker, Caused
  <2>5. EofMeansAll'
    BY <1>14 DEF TrackerInv, Exec, Process, tracker, data, ends, EofMeansAll
  <2>6. HandlerVerdict'
    BY <1>14 DEF TrackerInv, Exec, Process, tracker, HandlerVerdict
  <2> QED  BY <2>1, <2>2, <2>3, <2>4, <2>5, <2>6 DEF TrackerInv
<1>15. CASE Output
  <2>1. TypeOK'
    <3>1. CASE readers # {}
      <4>1. pipe + 1 \in 0 .. PipeSize /\ written + 1 \in 0 .. MaxBytes
        BY <1>15, <3>1 DEF TrackerInv, Output, TypeOK
      <4> QED  BY <1>15, <3>1, <4>1 DEF TrackerInv, Output, tracker, ends, TypeOK
    <3>2. CASE readers = {}
      BY <1>15, <3>2 DEF TrackerInv, Output, Process, Without, tracker, data, TypeOK
    <3> QED  BY <3>1, <3>2
  <2>2. Conserved'
    BY <1>15 DEF TrackerInv, Output, data, TypeOK, Conserved
  <2>3. Ends'
    BY <1>15 DEF TrackerInv, Output, Process, Without, tracker, ends, Ends
  <2>4. Caused'
    BY <1>15 DEF TrackerInv, Output, Process, tracker, Caused
  <2>5. EofMeansAll'
    BY <1>15 DEF TrackerInv, Output, Process, tracker, EofMeansAll
  <2>6. HandlerVerdict'
    BY <1>15 DEF TrackerInv, Output, Process, tracker, HandlerVerdict
  <2> QED  BY <2>1, <2>2, <2>3, <2>4, <2>5, <2>6 DEF TrackerInv
<1>16. CASE CloseStdout
  <2>1. TypeOK'
    BY <1>16 DEF TrackerInv, CloseStdout, tracker, data, TypeOK
  <2>2. Conserved'
    BY <1>16 DEF TrackerInv, CloseStdout, data, Conserved
  <2>3. Ends'
    BY <1>16 DEF TrackerInv, CloseStdout, tracker, data, Ends
  <2>4. Caused'
    BY <1>16 DEF TrackerInv, CloseStdout, tracker, Caused
  <2>5. EofMeansAll'
    BY <1>16 DEF TrackerInv, CloseStdout, tracker, EofMeansAll
  <2>6. HandlerVerdict'
    BY <1>16 DEF TrackerInv, CloseStdout, tracker, HandlerVerdict
  <2> QED  BY <2>1, <2>2, <2>3, <2>4, <2>5, <2>6 DEF TrackerInv
<1>17. CASE ReadStdin
  <2>1. TypeOK'
    BY <1>17 DEF TrackerInv, ReadStdin, Process, tracker, data, ends, Alive, TypeOK
  <2>2. Conserved'
    BY <1>17 DEF TrackerInv, ReadStdin, data, Conserved
  <2>3. Ends'
    BY <1>17 DEF TrackerInv, ReadStdin, Process, tracker, data, ends, Alive, Ends
  <2>4. Caused'
    BY <1>17 DEF TrackerInv, ReadStdin, Process, tracker, Caused
  <2>5. EofMeansAll'
    BY <1>17 DEF TrackerInv, ReadStdin, Process, tracker, data, ends, EofMeansAll
  <2>6. HandlerVerdict'
    BY <1>17 DEF TrackerInv, ReadStdin, Process, tracker, HandlerVerdict
  <2> QED  BY <2>1, <2>2, <2>3, <2>4, <2>5, <2>6 DEF TrackerInv
<1>18. CASE StdinEnds
  <2>1. TypeOK'
    BY <1>18 DEF TrackerInv, StdinEnds, Process, tracker, data, ends, Alive, TypeOK
  <2>2. Conserved'
    BY <1>18 DEF TrackerInv, StdinEnds, data, Conserved
  <2>3. Ends'
    BY <1>18 DEF TrackerInv, StdinEnds, Process, tracker, ends, Alive, Ends
  <2>4. Caused'
    BY <1>18 DEF TrackerInv, StdinEnds, Process, tracker, Caused
  <2>5. EofMeansAll'
    BY <1>18 DEF TrackerInv, StdinEnds, Process, tracker, data, ends, EofMeansAll
  <2>6. HandlerVerdict'
    BY <1>18 DEF TrackerInv, StdinEnds, Process, tracker, HandlerVerdict
  <2> QED  BY <2>1, <2>2, <2>3, <2>4, <2>5, <2>6 DEF TrackerInv
<1>19. CASE Stop
  <2>1. TypeOK'
    BY <1>19 DEF TrackerInv, Stop, tracker, data, ends, Alive, TypeOK
  <2>2. Conserved'
    BY <1>19 DEF TrackerInv, Stop, data, Conserved
  <2>3. Ends'
    BY <1>19 DEF TrackerInv, Stop, tracker, data, ends, Alive, Ends
  <2>4. Caused'
    BY <1>19 DEF TrackerInv, Stop, tracker, TypeOK, Caused
  <2>5. EofMeansAll'
    BY <1>19 DEF TrackerInv, Stop, tracker, data, ends, EofMeansAll
  <2>6. HandlerVerdict'
    BY <1>19 DEF TrackerInv, Stop, tracker, TypeOK, HandlerVerdict
  <2> QED  BY <2>1, <2>2, <2>3, <2>4, <2>5, <2>6 DEF TrackerInv
<1>20. CASE Continue
  <2>1. TypeOK'
    BY <1>20 DEF TrackerInv, Continue, Process, tracker, data, ends, Alive, TypeOK
  <2>2. Conserved'
    BY <1>20 DEF TrackerInv, Continue, data, Conserved
  <2>3. Ends'
    BY <1>20 DEF TrackerInv, Continue, Process, tracker, data, ends, Alive, Ends
  <2>4. Caused'
    BY <1>20 DEF TrackerInv, Continue, Process, tracker, Caused
  <2>5. EofMeansAll'
    BY <1>20 DEF TrackerInv, Continue, Process, tracker, data, ends, EofMeansAll
  <2>6. HandlerVerdict'
    BY <1>20 DEF TrackerInv, Continue, Process, tracker, HandlerVerdict
  <2> QED  BY <2>1, <2>2, <2>3, <2>4, <2>5, <2>6 DEF TrackerInv
<1>21. CASE OpenStream
  <2>1. TypeOK'
    BY <1>21 DEF TrackerInv, OpenStream, Goto, Exit, Without, data, ends, TypeOK
  <2>2. Conserved'
    BY <1>21 DEF TrackerInv, OpenStream, data, Conserved
  <2>3. Ends'
    BY <1>21 DEF TrackerInv, OpenStream, Main, Goto, Exit, Without, data, ends, Ends
  <2>4. Caused'
    BY <1>21 DEF TrackerInv, OpenStream, Main, Goto, Exit, Caused
  <2>5. EofMeansAll'
    BY <1>21 DEF TrackerInv, OpenStream, Main, Goto, Exit, Ends, EofMeansAll
  <2>6. HandlerVerdict'
    BY <1>21 DEF TrackerInv, OpenStream, Main, Goto, Exit, Ends, HandlerVerdict
  <2> QED  BY <2>1, <2>2, <2>3, <2>4, <2>5, <2>6 DEF TrackerInv
<1>22. CASE UNCHANGED vars
  BY <1>22 DEF vars, tracker, data, ends, TrackerInv, TypeOK, Conserved, Ends, Caused,
     EofMeansAll, HandlerVerdict
<1> QED
  BY <1>1, <1>2, <1>3, <1>4, <1>5, <1>6, <1>7, <1>8, <1>9, <1>10, <1>11, <1>12,
     <1>13, <1>14, <1>15, <1>16, <1>17, <1>18, <1>19, <1>20, <1>21, <1>22 DEF Next,
     Tracker, Child, Outside, Quiet

\* The parts together hold in every state.
THEOREM TrackerInvariant == Spec => []TrackerInv
<1> QED  BY TrackerStarts, TrackerStep, PTL DEF Spec

\* Every variable keeps its type: the pipe and the stream's buffer stay within
\* their capacity and no more is printed than was written.
THEOREM TrackerTypeCorrect == Spec => []TypeOK
<1>1. TrackerInv => TypeOK
  BY DEF TrackerInv
<1> QED  BY <1>1, TrackerInvariant, PTL

\* A tracker that has seen the end of the pipe has printed everything, and no
\* writer is left.
THEOREM EofIsTheEnd == Spec => []EofMeansAll
<1>1. TrackerInv => EofMeansAll
  BY DEF TrackerInv
<1> QED  BY <1>1, TrackerInvariant, PTL

\* With childpid stored, the handler reports success only for a child it has
\* reaped, and failure only after a stop.
THEOREM VerdictIsRight == Spec => []HandlerVerdict
<1>1. TrackerInv => HandlerVerdict
  BY DEF TrackerInv
<1> QED  BY <1>1, TrackerInvariant, PTL

\* A program that outlives the tracker does not wait on its pipes.
THEOREM OrphansAreFree == Spec => []OrphanNotStuck
<1>1. TrackerInv => OrphanNotStuck
  BY DEF TrackerInv, TypeOK, Ends, OrphanNotStuck
<1> QED  BY <1>1, TrackerInvariant, PTL

-----------------------------------------------------------------------------
(* Signals *)

Frame == [sig : Signals, at : Places, left : 0..MaxTrace]

AfterKill == {"check", "calamity", "stricken", "exhausted"}

\* Once main has blocked SIGUSR1 it stays blocked, and no handler of it runs
\* that was entered before.
Usr1Blocked ==
    sigpc \in {"kill"} \union AfterKill =>
        /\ "USR1" \in blocked
        /\ \A k \in DOMAIN frames : frames[k].sig # "USR1"

\* Once main has sent it, it is pending.
Usr1Pending == sigpc \in AfterKill => "USR1" \in sigpending

\* A signal is left to register until main goes on.
Registering == sigpc \in {"altstack", "register"} => registered < Len(Order)

SigInv == SigTypeOK /\ TraceIsItsOwn /\ Usr1Blocked /\ Usr1Pending /\ Registering

LEMMA SigStarts == SigInit => SigInv
BY SignalsAssumption DEF SigInit, SigInv, SigTypeOK, Order, TraceIsItsOwn, Usr1Blocked,
   Usr1Pending, AfterKill, Registering

LEMMA SevenSignals ==
    /\ Len(Order) = 7
    /\ Signals = {"SEGV", "FPE", "INT", "ILL", "TERM", "ABRT", "USR1"}
<1>1. Len(Order) = 7
  BY DEF Order
<1>2. \A s : s \in Signals <=> \E k \in 1..7 : s = Order[k]
  BY <1>1 DEF Signals
<1> QED  BY <1>1, <1>2 DEF Order

\* The step of a handler changes its own frame only, and not its signal.
LEMMA SameSignals ==
    ASSUME SigTypeOK, frames # <<>>, NEW at \in Places, NEW left \in 0..MaxTrace,
           Moves(at, left)
    PROVE  /\ frames' \in Seq(Frame)
           /\ DOMAIN frames' = DOMAIN frames /\ Len(frames') = Len(frames)
           /\ frames'[Len(frames)].at = at /\ Len(frames) \in Nat
           /\ \A k \in DOMAIN frames : frames'[k].sig = frames[k].sig
<1>1. frames \in Seq(Frame) /\ Len(frames) \in DOMAIN frames
  BY DEF SigTypeOK, Frame
<1> DEFINE top == [frames[Len(frames)] EXCEPT !.at = at, !.left = left]
<1>2. frames' = [frames EXCEPT ![Len(frames)] = top]
  BY <1>1 DEF Moves
<1>3. frames[Len(frames)] \in Frame
  BY <1>1
<1>4. top \in Frame /\ top.sig = frames[Len(frames)].sig /\ top.at = at
  BY <1>3 DEF Frame
<1> HIDE DEF top
<1>5. DOMAIN frames' = DOMAIN frames /\ \A k \in DOMAIN frames :
        frames'[k] = IF k = Len(frames) THEN top ELSE frames[k]
  BY <1>1, <1>2
<1>6. frames' \in Seq(Frame)
  BY <1>1, <1>2, <1>4
<1> QED  BY <1>1, <1>4, <1>5, <1>6

-----------------------------------------------------------------------------
LEMMA MainStep ==
    ASSUME SigInv, SigMain
    PROVE  SigInv'
<1>1. CASE SetAltStack
  BY <1>1 DEF inHandler, SigInv, SetAltStack, InMain, Fails, SigTypeOK, TraceIsItsOwn, Usr1Blocked,
     Usr1Pending, AfterKill, Registering
<1>2. CASE Register
  <2>1. CASE Fails
    BY <1>2, <2>1 DEF inHandler, SigInv, Fails, SigTypeOK, TraceIsItsOwn, Usr1Blocked, Usr1Pending,
       Registering
  <2>2. CASE ~Fails
    <3>1. registered < 7 /\ registered' = registered + 1 /\ registered' \in 0..7
      BY <1>2, <2>2, SevenSignals DEF SigInv, Register, InMain, SigTypeOK, Registering
    <3>2. sigpc' \in {"register", "block"} /\ (sigpc' = "register" => registered' < 7)
      BY <1>2, <2>2, <3>1, SevenSignals DEF Register
    <3>3. UNCHANGED <<calamity, blocked, frames, stack_traces, sigpending, outcome>>
      BY <1>2, <2>2 DEF Register, inHandler
    <3>4. SigTypeOK'
      BY <3>1, <3>2, <3>3, SevenSignals DEF SigInv, SigTypeOK
    <3> QED
      BY <3>2, <3>3, <3>4, SevenSignals DEF SigInv, TraceIsItsOwn, Usr1Blocked, Usr1Pending,
         AfterKill, Registering
  <2> QED  BY <2>1, <2>2
<1>3. CASE BlockUsr1
  BY <1>3, SevenSignals DEF inHandler, SigInv, BlockUsr1, InMain, SigTypeOK, TraceIsItsOwn,
     Usr1Blocked, Usr1Pending, AfterKill, Registering
<1>4. CASE KillSelf
  BY <1>4, SevenSignals DEF inHandler, SigInv, KillSelf, InMain, SigTypeOK, TraceIsItsOwn,
     Usr1Blocked, Usr1Pending, AfterKill, Registering
<1>5. CASE CheckPending
  BY <1>5 DEF inHandler, SigInv, CheckPending, InMain, SigTypeOK, TraceIsItsOwn, Usr1Blocked,
     Usr1Pending, AfterKill, Registering
<1>6. CASE CauseCalamity
  <2>1. calamity \in DOMAIN Raised
    BY <1>6, SignalsAssumption DEF SigInv, CauseCalamity, SigTypeOK
  <2>2. Raised[calamity] \in Signals
    BY <2>1, SevenSignals DEF Raised
  <2> QED
    BY <1>6, <2>2 DEF inHandler, SigInv, CauseCalamity, InMain, SigTypeOK, TraceIsItsOwn,
       Usr1Blocked, Usr1Pending, AfterKill, Registering
<1> QED
  BY <1>1, <1>2, <1>3, <1>4, <1>5, <1>6 DEF SigMain

LEMMA HandlerStep ==
    ASSUME SigInv, SigHandler
    PROVE  SigInv'
<1>0. /\ frames # <<>> /\ frames \in Seq(Frame) /\ frames[Len(frames)] \in Frame
      /\ UNCHANGED <<calamity, sigpc, registered, blocked>>
  <2>1. \E at \in Places : Handling(at)
    BY DEF SigHandler, Report, Symbols, SymbolsFail, TraceLine, Addr2line, Addr2lineEnds,
       ExitHandler, Places
  <2>2. frames # <<>> /\ UNCHANGED <<calamity, sigpc, registered, blocked>>
    BY <2>1 DEF Handling
  <2>3. frames \in Seq(Frame)
    BY DEF SigInv, SigTypeOK, Frame
  <2> QED  BY <2>2, <2>3
<1>1. ASSUME NEW at \in Places, NEW left \in 0..MaxTrace, Moves(at, left),
             sigpending' \in {sigpending, sigpending \ {"INT"}, sigpending \union {"SEGV"}},
             outcome' \in {outcome, "SEGV"}, stack_traces' \in {stack_traces, Len(frames)},
             at = "symbols" => stack_traces' = Len(frames)
      PROVE  SigInv'
  <2>1. /\ frames' \in Seq(Frame) /\ DOMAIN frames' = DOMAIN frames
        /\ Len(frames') = Len(frames) /\ frames'[Len(frames)].at = at /\ Len(frames) \in Nat
        /\ \A k \in DOMAIN frames : frames'[k].sig = frames[k].sig
    BY <1>0, <1>1, SameSignals DEF SigInv
  <2>2. SigTypeOK'
    BY <1>0, <1>1, <2>1, SevenSignals DEF SigInv, SigTypeOK, Frame
  <2>3. TraceIsItsOwn'
    BY <1>1, <2>1 DEF TraceIsItsOwn
  <2>4. Usr1Blocked'
    BY <1>0, <2>1 DEF SigInv, Usr1Blocked
  <2>5. Usr1Pending' /\ Registering'
    BY <1>0, <1>1 DEF SigInv, Usr1Pending, Registering
  <2> QED  BY <2>2, <2>3, <2>4, <2>5 DEF SigInv
<1>2. Left \in 0..MaxTrace /\ (Left > 0 => Left - 1 \in 0..MaxTrace)
  BY <1>0, SignalsAssumption DEF Left, Frame
<1>3. CASE Report
  BY <1>1, <1>3 DEF Report, Proceed, Places
<1>4. CASE Symbols
  BY <1>1, <1>2, <1>4 DEF Symbols, Proceed, Places
<1>5. CASE SymbolsFail
  BY <1>1, <1>2, <1>5 DEF SymbolsFail, Places
<1>6. CASE TraceLine
  BY <1>1, <1>2, <1>6 DEF TraceLine, Proceed, Places
<1>7. CASE Addr2line
  BY <1>1, <1>2, <1>7 DEF Addr2line, Proceed, Places
<1>8. CASE Addr2lineEnds
  BY <1>1, <1>2, <1>8 DEF Addr2lineEnds, Proceed, Places
<1>9. CASE ExitHandler
  BY <1>0, <1>9 DEF SigInv, ExitHandler, SigTypeOK, TraceIsItsOwn, Usr1Blocked, Usr1Pending,
     Registering
<1> QED
  BY <1>3, <1>4, <1>5, <1>6, <1>7, <1>8, <1>9 DEF SigHandler

LEMMA DeliverStep ==
    ASSUME SigInv, NEW s \in Signals, Deliver(s)
    PROVE  SigInv'
<1>0. s \notin Mask /\ UNCHANGED <<calamity, sigpc, registered, blocked>>
  BY DEF Deliver
<1>1. s \notin blocked /\ \A k \in DOMAIN frames : frames[k].sig # s
  BY <1>0 DEF Mask
<1>2. Usr1Pending' /\ Registering'
  BY <1>0, <1>1 DEF SigInv, Usr1Blocked, Usr1Pending, Registering, Deliver
<1>3. CASE s \in Caught /\ HasRoom
  <2> DEFINE new == [sig |-> s, at |-> "report", left |-> 0]
  <2>1. frames' = Append(frames, new) /\ outcome' = outcome /\ stack_traces' = stack_traces
    BY <1>3 DEF Deliver
  <2>2. frames \in Seq(Frame) /\ new \in Frame
    BY SignalsAssumption DEF SigInv, SigTypeOK, Frame, Places
  <2>3. new.sig = s /\ new.at = "report"
    OBVIOUS
  <2> HIDE DEF new
  <2>4. /\ frames' \in Seq(Frame) /\ Len(frames') = Len(frames) + 1
        /\ DOMAIN frames = 1..Len(frames) /\ DOMAIN frames' = 1..Len(frames) + 1
        /\ frames'[Len(frames) + 1] = new
        /\ \A k \in DOMAIN frames : frames'[k] = frames[k]
    BY <2>1, <2>2
  <2>5. SigTypeOK'
    <3>1. stack_traces \in 0..Len(frames) /\ Len(frames) \in Nat
      BY <2>2 DEF SigInv, SigTypeOK
    <3>2. stack_traces' \in 0..Len(frames')
      BY <2>1, <2>4, <3>1
    <3> QED  BY <1>0, <2>1, <2>4, <3>2 DEF SigInv, SigTypeOK, Frame, Places, Deliver
  <2>6. TraceIsItsOwn'
    BY <2>3, <2>4 DEF TraceIsItsOwn
  <2>7. Usr1Blocked'
    BY <1>0, <1>1, <2>2, <2>3, <2>4 DEF SigInv, Usr1Blocked
  <2> QED  BY <1>2, <2>5, <2>6, <2>7 DEF SigInv
<1>4. CASE ~(s \in Caught /\ HasRoom)
  BY <1>0, <1>2, <1>4 DEF SigInv, Deliver, SigTypeOK, TraceIsItsOwn, Usr1Blocked
<1> QED  BY <1>3, <1>4

\* The parts together hold in every state.
THEOREM SigInvariant == SigSpec => []SigInv
<1>1. ASSUME SigInv, NEW s \in Sent, Send(s) PROVE SigInv'
  BY <1>1, SignalsAssumption DEF inHandler, SigInv, Send, SigTypeOK, TraceIsItsOwn, Usr1Blocked,
     Usr1Pending, Registering
<1>2. SigInv /\ UNCHANGED sigVars => SigInv'
  BY DEF inHandler, sigVars, SigInv, SigTypeOK, TraceIsItsOwn, Usr1Blocked, Usr1Pending, Registering
<1>3. SigInv /\ [SigNext]_sigVars => SigInv'
  BY <1>1, <1>2, MainStep, HandlerStep, DeliverStep
     DEF SigNext, Kernel, InfiniteLoop, Ending
<1> QED  BY SigStarts, <1>3, PTL DEF SigSpec

-----------------------------------------------------------------------------
\* Every variable keeps its type.
THEOREM SigTypeCorrect == SigSpec => []SigTypeOK
<1>1. SigInv => SigTypeOK
  BY DEF SigInv
<1> QED  BY <1>1, SigInvariant, PTL

\* No handler reads the backtrace of another from the array they share: one
\* that was interrupted while the array was its own never goes on.
THEOREM TracesDoNotMix == SigSpec => []TraceIsItsOwn
<1>1. SigInv => TraceIsItsOwn
  BY DEF SigInv
<1> QED  BY <1>1, SigInvariant, PTL

\* The signal the program sent itself stays pending to the end.
THEOREM Usr1StaysPending == SigSpec => []Usr1Waits
<1>1. SigInv => Usr1Waits
  BY DEF SigInv, Usr1Blocked, Usr1Pending, AfterKill, Usr1Waits
<1> QED  BY <1>1, SigInvariant, PTL
=============================================================================
