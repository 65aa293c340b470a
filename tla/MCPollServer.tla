---------------------------- MODULE MCPollServer ----------------------------
(* PollServer for TLC.  The clients are interchangeable: no action and no    *)
(* safety property names one.  Liveness runs do not use the symmetry.        *)
EXTENDS PollServer, TLC

ClientSymmetry == Permutations(Clients)
=============================================================================
