---------------------------- MODULE MCTransport ----------------------------
(* Four components of the transport that share no state, checked in one    *)
(* run: `part` says which of them a behaviour is about.                    *)
EXTENDS Resize, Connect, PrivateSockets, AgentForward, TLC

CONSTANTS x1, x2, x4, x5
MCIsV6 == x1 :> TRUE @@ x2 :> TRUE @@ x4 :> FALSE @@ x5 :> FALSE
MCResolutions == {<<>>, <<x4>>, <<x4, x1>>, <<x1, x2, x4>>, <<x4, x5, x1, x2>>}

VARIABLE part

\* Only the chosen part starts in all of its initial states; that of the sockets
\* in one, as it has one connection and its peers are interchangeable.
Init ==
    /\ part \in {"resize", "connect", "sockets", "agent"}
    /\ ResizeInit /\ ConnectInit /\ SocketsInit /\ AgentInit
    /\ part # "resize" => mode = "pty" /\ winSize = CHOOSE s \in Sizes : TRUE
    /\ part # "agent" => bindable /\ signed
    /\ peer = [c \in Conns |-> CHOOSE p \in Peers : TRUE]

Next ==
    \/ part = "resize" /\ ResizeNext /\ UNCHANGED <<part, connectVars, sockVars, agentVars>>
    \/ part = "connect" /\ ConnectNext /\ UNCHANGED <<part, resizeVars, sockVars, agentVars>>
    \/ part = "sockets" /\ SocketsNext /\ UNCHANGED <<part, resizeVars, connectVars, agentVars>>
    \/ part = "agent" /\ AgentNext /\ UNCHANGED <<part, resizeVars, connectVars, sockVars>>

\* Runnable tasks run and lost packets are sent again; drivers and the receive
\* task run, and the reactor does when it has a worker.
Fairness ==
    /\ WF_resizeVars(part = "resize" /\ ResizeStep)
    /\ \A c \in Conns : WF_sockVars(part = "sockets" /\ Drive(c))
    /\ WF_sockVars(part = "sockets" /\ Receive)
    /\ WF_sockVars(part = "sockets" /\ ReactorWritable)
    /\ \A s \in Ids \cup {Main} : WF_sockVars(part = "sockets" /\ ReactorReadable(s))

Spec == Init /\ [][Next]_<<part, resizeVars, connectVars, sockVars, agentVars>> /\ Fairness
=============================================================================
