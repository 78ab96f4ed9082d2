------------------------------ MODULE MCSession ------------------------------
(* Session in both modes: every interleaving of one client, one server      *)
(* session, its copy tasks, the remote processes and the network.           *)
EXTENDS Session, TLC
SafetyChunks == [pty |-> 2, pipes |-> 1]
LiveChunks == [pty |-> 1, pipes |-> 0]
=============================================================================
