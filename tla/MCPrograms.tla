------------------------------ MODULE MCPrograms ------------------------------
(***************************************************************************)
(* The programs without partners for TLC, in one run: those of threads and *)
(* those of one.  They share nothing: a behaviour is one of the program    *)
(* chosen at first, and the variables of the others stay as they are.      *)
(***************************************************************************)
EXTENDS CondVar, MutexCounter, SemThreads, SortSearch, KeyTree, ClockDisplay, PollTimer

VARIABLE program

\* Around a minute, an hour, a day, and the last second of an int.
MCInstants ==
    UNION {{n - 1, n, n + 1} : n \in {60, 3600, 86400, 90000, ClockHalf, 2 * ClockHalf}}

MCInit ==
    /\ program \in {"conditionvariable", "mutex", "sem_detached", "sortandsearch",
                    "binarysearchtree", "time", "poll_timer"}
    /\ Init /\ MutexInit /\ SemInit
    /\ SortInit /\ TreeInit /\ ClockInit
    /\ TimerInit
    /\ program # "poll_timer" => now = 0

\* The programs of one thread.
oneVars == <<sortVars, treeVars, clockVars, timerVars>>

Finished ==
    CASE program = "conditionvariable" -> ~Live
      [] program = "mutex" -> ~Running
      [] program = "sem_detached" -> mstep \in {"exited", "failure"}
      [] program = "sortandsearch" -> sortpc \in {"done", "failure"}
      [] program = "binarysearchtree" -> treepc \in {"exited", "crashed"}
      [] program = "time" -> clockpc = "failure"
      [] program = "poll_timer" -> timerpc \in {"exited", "failure"}

Over == Finished /\ UNCHANGED <<vars, mutexVars, semVars, oneVars>>

MCNext ==
    /\ \/ program = "conditionvariable" /\ Next /\ UNCHANGED <<mutexVars, semVars, oneVars>>
       \/ program = "mutex" /\ MutexNext /\ UNCHANGED <<vars, semVars, oneVars>>
       \/ program = "sem_detached" /\ SemNext /\ UNCHANGED <<vars, mutexVars, oneVars>>
       \/ /\ program = "sortandsearch" /\ SortNext
          /\ UNCHANGED <<vars, mutexVars, semVars, treeVars, clockVars, timerVars>>
       \/ /\ program = "binarysearchtree" /\ TreeNext
          /\ UNCHANGED <<vars, mutexVars, semVars, sortVars, clockVars, timerVars>>
       \/ /\ program = "time" /\ ClockNext
          /\ UNCHANGED <<vars, mutexVars, semVars, sortVars, treeVars, timerVars>>
       \/ /\ program = "poll_timer" /\ TimerNext
          /\ UNCHANGED <<vars, mutexVars, semVars, sortVars, treeVars, clockVars>>
       \/ Over
    /\ UNCHANGED program

\* The scheduler runs every thread, and time passes.
MCSpec ==
    /\ MCInit /\ [][MCNext]_<<program, vars, mutexVars, semVars, oneVars>>
    /\ program = "conditionvariable" =>
         WF_vars(Main) /\ WF_vars(Receiver) /\ WF_vars(Sender) /\ WF_vars(Expire)
    /\ program = "mutex" =>
         WF_mutexVars(CounterMain) /\ \A t \in Threads : WF_mutexVars(CounterThread(t))
    /\ program = "sem_detached" => WF_semVars(SemNext)
    /\ program = "sortandsearch" => WF_sortVars(SortNext)
    /\ program = "binarysearchtree" => WF_treeVars(TreeNext)

\* Each program that is to end does so, and main with it, whichever thread
\* runs first and wherever an error ends it.
ProgramsEnd == program \notin {"time", "poll_timer"} => <>Finished
=============================================================================
