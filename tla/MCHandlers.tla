------------------------------ MODULE MCHandlers ------------------------------
(***************************************************************************)
(* The two programs that live by their signal handlers for TLC, in one     *)
(* run.  They share nothing: a behaviour is one of the program chosen at   *)
(* first, and the variables of the other stay as they are.                 *)
(***************************************************************************)
EXTENDS AppTracker, Signals

VARIABLE program

MCInit == program \in {"fork-pipe-exec", "sigaction"} /\ Init /\ SigInit

MCNext ==
    /\ \/ program = "fork-pipe-exec" /\ Next /\ UNCHANGED sigVars
       \/ program = "sigaction" /\ SigNext /\ UNCHANGED vars
    /\ UNCHANGED program

MCSpec ==
    /\ MCInit /\ [][MCNext]_<<program, vars, sigVars>>
    /\ program = "fork-pipe-exec" => WF_vars(Tracker)
    /\ program = "sigaction" => SigFairness
=============================================================================
