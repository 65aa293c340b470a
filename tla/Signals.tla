------------------------------- MODULE Signals -------------------------------
(***************************************************************************)
(* src/sigaction.c: a program that registers one handler for seven         *)
(* signals on an alternate stack, blocks SIGUSR1 and sends it to itself,   *)
(* and then meets a calamity of its user's choosing.  The handler prints a *)
(* stack trace, through addr2line where it can, and exits.                 *)
(*                                                                         *)
(* Signals of others arrive between any two steps, and a handler is        *)
(* interrupted by the handler of another signal.  Calls of the C library   *)
(* are not interrupted in the middle.                                      *)
(***************************************************************************)
EXTENDS Integers, Sequences

CONSTANTS Calamities, \* the calamities chosen from
          Sent,       \* the signals others send
          AltFrames,  \* how many handlers the alternate stack has room for
          MaxTrace    \* bound: the lines of a stack trace, 64 in the code

\* The order of the registrations.
Order == <<"SEGV", "FPE", "INT", "ILL", "TERM", "ABRT", "USR1">>
Signals == {Order[k] : k \in 1..Len(Order)}

\* The signal each calamity raises; loop raises none.
Raised == [divide |-> "FPE", segfault |-> "SEGV", assert |-> "ABRT",
           illegal |-> "ILL", overflow |-> "SEGV"]

ASSUME SignalsAssumption ==
    /\ Calamities \subseteq DOMAIN Raised \union {"loop"}
    /\ Sent \subseteq Signals
    /\ AltFrames \in Nat \ {0} /\ MaxTrace \in Nat

VARIABLES calamity,   \* the line of cause_calamity that is not commented out
          sigpc,      \* where main() is
          registered, \* how many signals of Order have the handler
          blocked,    \* main's signal mask
          frames,     \* the handlers that run, each interrupted by the next
          sigpending,
          stack_traces, \* the frame whose backtrace the static array holds
          outcome     \* "running", "failure", "reported", "overrun", or the
                      \* signal that killed the process

inHandler == <<frames, stack_traces>>
sigVars == <<calamity, sigpc, registered, blocked, inHandler, sigpending, outcome>>

SigInit ==
    /\ calamity \in Calamities /\ sigpc = "altstack" /\ registered = 0
    /\ blocked = {} /\ frames = <<>> /\ stack_traces = 0 /\ sigpending = {} /\ outcome = "running"

-----------------------------------------------------------------------------
\* main goes on only while no handler runs.
InMain(at) == outcome = "running" /\ frames = <<>> /\ sigpc = at

Fails ==
    /\ outcome' = "failure"
    /\ UNCHANGED <<calamity, sigpc, registered, blocked, inHandler, sigpending>>

SetAltStack ==
    /\ InMain("altstack")
    /\ \/ Fails
       \/ sigpc' = "register"
          /\ UNCHANGED <<calamity, registered, blocked, inHandler, sigpending, outcome>>

Register ==
    /\ InMain("register")
    /\ \/ Fails
       \/ /\ registered' = registered + 1
          /\ sigpc' = IF registered' = Len(Order) THEN "block" ELSE "register"
          /\ UNCHANGED <<calamity, blocked, inHandler, sigpending, outcome>>

BlockUsr1_Forgotten ==
    /\ InMain("block") /\ sigpc' = "kill"
    /\ UNCHANGED <<calamity, registered, blocked, inHandler, sigpending, outcome>>
BlockUsr1 ==
    /\ InMain("block") /\ sigpc' = "kill" /\ blocked' = blocked \union {"USR1"}
    /\ UNCHANGED <<calamity, registered, inHandler, sigpending, outcome>>

KillSelf ==
    /\ InMain("kill") /\ sigpc' = "check" /\ sigpending' = sigpending \union {"USR1"}
    /\ UNCHANGED <<calamity, registered, blocked, inHandler, outcome>>

\* After two seconds: "The signal is blocked", and nobody unblocks it.
CheckPending ==
    /\ InMain("check") /\ sigpc' = "calamity"
    /\ UNCHANGED <<calamity, registered, blocked, inHandler, sigpending, outcome>>

\* main does not come back from any of these.
CauseCalamity ==
    /\ InMain("calamity") /\ calamity # "loop"
    /\ sigpc' = IF calamity = "overflow" THEN "exhausted" ELSE "stricken"
    /\ sigpending' = sigpending \union {Raised[calamity]}
    /\ UNCHANGED <<calamity, registered, blocked, inHandler, outcome>>

InfiniteLoop == InMain("calamity") /\ calamity = "loop" /\ UNCHANGED sigVars

-----------------------------------------------------------------------------
\* A signal is blocked while its own handler runs, or an interrupted one.
Mask_NoDefer == blocked
Mask == blocked \union {frames[k].sig : k \in DOMAIN frames}

Caught == {Order[k] : k \in 1..registered}

\* system() ignores SIGINT while its child runs.
Ignored(s) == s = "INT" /\ \E k \in DOMAIN frames : frames[k].at = "system"

Send(s) ==
    /\ outcome = "running" /\ s \notin sigpending
    /\ Ignored(s) => s \in Mask
    /\ sigpending' = sigpending \union {s}
    /\ UNCHANGED <<calamity, sigpc, registered, blocked, inHandler, outcome>>

\* The handlers run on the alternate stack, however full the other one is.
\* Nothing watches the end of this one, which is memory of malloc.
HasRoom_MainStack == sigpc # "exhausted"
HasRoom == Len(frames) < AltFrames

Deliver(s) ==
    /\ outcome = "running" /\ s \in sigpending \ Mask
    /\ sigpending' = sigpending \ {s}
    /\ IF s \in Caught /\ HasRoom
       THEN /\ frames' = Append(frames, [sig |-> s, at |-> "report", left |-> 0])
            /\ UNCHANGED outcome
       ELSE /\ outcome' = IF s \in Caught THEN "overrun" ELSE s
            /\ UNCHANGED frames
    /\ UNCHANGED <<calamity, sigpc, registered, blocked, stack_traces>>

-----------------------------------------------------------------------------
\* The handler that runs is the last of frames.
Handling(at) ==
    /\ outcome = "running" /\ frames # <<>> /\ frames[Len(frames)].at = at
    /\ UNCHANGED <<calamity, sigpc, registered, blocked>>

Moves(at, left) ==
    frames' = [frames EXCEPT ![Len(frames)].at = at, ![Len(frames)].left = left]

Proceed(at, left) == Moves(at, left) /\ UNCHANGED outcome

Left == frames[Len(frames)].left

\* The message for the signal and its si_code; then backtrace fills the array
\* that all handlers share.
Report ==
    /\ Handling("report") /\ \E n \in 0..MaxTrace : Proceed("symbols", n)
    /\ stack_traces' = Len(frames)
    /\ UNCHANGED sigpending

\* backtrace_symbols reads the array and allocates the lines.
Symbols ==
    /\ Handling("symbols") /\ Proceed("trace", Left)
    /\ UNCHANGED <<stack_traces, sigpending>>

\* Without memory it returns NULL, which is tested only after the first line
\* was read: SIGSEGV, which ends the process at once where it is blocked.
SymbolsFail ==
    /\ Handling("symbols") /\ Left > 0 /\ Moves("fault", Left)
    /\ \/ "SEGV" \in Mask /\ outcome' = "SEGV" /\ UNCHANGED sigpending
       \/ "SEGV" \notin Mask /\ sigpending' = sigpending \union {"SEGV"} /\ UNCHANGED outcome
    /\ UNCHANGED stack_traces

\* A line of the trace without an address: it is shown as it is.
TraceLine ==
    /\ Handling("trace") /\ Left > 0 /\ Proceed("trace", Left - 1)
    /\ UNCHANGED <<stack_traces, sigpending>>

\* A line with an address goes to addr2line.  Ignoring SIGINT drops one that
\* is pending.
Addr2line ==
    /\ Handling("trace") /\ Left > 0 /\ Proceed("system", Left - 1)
    /\ sigpending' = sigpending \ {"INT"}
    /\ UNCHANGED stack_traces

Addr2lineEnds ==
    /\ Handling("system") /\ Proceed("trace", Left)
    /\ UNCHANGED <<stack_traces, sigpending>>

ExitHandler_Returns ==
    /\ Handling("trace") /\ Left = 0
    /\ frames' = SubSeq(frames, 1, Len(frames) - 1)
    /\ UNCHANGED <<stack_traces, sigpending, outcome>>
ExitHandler ==
    /\ Handling("trace") /\ Left = 0 /\ outcome' = "reported"
    /\ UNCHANGED <<frames, stack_traces, sigpending>>

-----------------------------------------------------------------------------
SigMain == SetAltStack \/ Register \/ BlockUsr1 \/ KillSelf \/ CheckPending \/ CauseCalamity
SigHandler == \/ Report \/ Symbols \/ SymbolsFail
              \/ TraceLine \/ Addr2line \/ Addr2lineEnds \/ ExitHandler
Kernel == \E s \in Signals : Deliver(s)
Ending == outcome # "running" /\ UNCHANGED sigVars

SigNext ==
    SigMain \/ SigHandler \/ Kernel \/ (\E s \in Sent : Send(s)) \/ InfiniteLoop \/ Ending

SigSpec == SigInit /\ [][SigNext]_sigVars

\* The process runs, and so does the kernel; nobody has to send a signal.
SigFairness == WF_sigVars(SigMain) /\ WF_sigVars(SigHandler) /\ WF_sigVars(Kernel)

-----------------------------------------------------------------------------
Places == {"report", "symbols", "fault", "trace", "system"}

\* Every variable has its type; signals arrive before main only once it has
\* set the stack and the handlers.
SigTypeOK ==
    /\ calamity \in Calamities
    /\ sigpc \in {"altstack", "register", "block", "kill", "check", "calamity",
                 "stricken", "exhausted"}
    /\ registered \in 0..Len(Order)
    /\ blocked \subseteq Signals /\ sigpending \subseteq Signals
    /\ frames \in Seq([sig : Signals, at : Places, left : 0..MaxTrace])
    /\ stack_traces \in 0..Len(frames)
    /\ outcome \in {"running", "failure", "reported", "overrun"} \union Signals

\* "The signal is blocked" (sigaction.c:302) is right when it is printed and
\* stays right: through every handler, and every handler that interrupts one,
\* the SIGUSR1 the program sent itself stays pending.
Usr1Waits ==
    outcome = "running" /\ sigpc \in {"check", "calamity", "stricken", "exhausted"} =>
        /\ "USR1" \in sigpending
        /\ \A k \in DOMAIN frames : frames[k].sig # "USR1"

\* The array a handler has filled is still its own when it reads it, although
\* every handler that interrupts one fills the same array (sigaction.c:69-70).
TraceIsItsOwn ==
    outcome = "running" /\ frames # <<>> /\ frames[Len(frames)].at = "symbols"
        => stack_traces = Len(frames)

\* Each calamity, also with the stack exhausted, ends the program through the
\* handler, whatever other signals interrupt it.  Only two things end it
\* otherwise: more handlers than the alternate stack has room for, and a trace
\* without memory in the handler of SIGSEGV or in one that interrupts it.
FailsLoudly ==
    sigpc \in {"stricken", "exhausted"} ~>
        \/ outcome = "reported"
        \/ outcome = "overrun" /\ Len(frames) = AltFrames
        \/ outcome = "SEGV" /\ frames[Len(frames)].at = "fault"

\* What sigaction.c:83 says by its test of messages: that backtrace_symbols
\* may return NULL is provided for, and no handler faults on it.
TraceNeverFaults == \A k \in DOMAIN frames : frames[k].at # "fault"
=============================================================================
