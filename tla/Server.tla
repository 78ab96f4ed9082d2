------------------------------- MODULE Server -------------------------------
(***************************************************************************)
(* The accept loop of the server (hush-server/src/runtime.rs) and what a   *)
(* connection goes through in hush-core/src/server.rs: connection slots,   *)
(* the handshake, authentication, the serve loop with its remote-forward   *)
(* listeners, file copies and the one session, and shutdown.               *)
(*                                                                         *)
(* The QUIC connection (`conn`) and the task that serves it (`task`) are   *)
(* separate: the task holds the connection slot, while follow_peer holds   *)
(* the connection until the peer closes it or it idles out.                *)
(***************************************************************************)
EXTENDS Naturals, FiniteSets

CONSTANTS Conns,            \* incoming connections
          MaxConnections,   \* max_connections
          MaxSessions,      \* max_sessions_per_connection
          MaxForwards,      \* max_forwards_per_connection
          AllowForwarding,  \* allow_tcp_forwarding
          Root              \* the server may switch users (it runs as root)

ASSUME ServerAssumption ==
    /\ IsFiniteSet(Conns)
    /\ MaxConnections \in Nat /\ MaxSessions \in Nat /\ MaxForwards \in Nat
    /\ AllowForwarding \in BOOLEAN /\ Root \in BOOLEAN

VARIABLES
    phase,      \* of the process: "accepting", "closing" or "exited"
    conn,       \* connection -> QUIC state, as the server sees it
    task,       \* connection -> where its task is
    slots,      \* permits left in connection_slots
    holders,    \* connections whose task holds a permit
    authed,     \* connections that passed authenticate
    forwards,   \* connection -> remote_forwards, the count in serve
    listening,  \* connection -> listener tasks alive
    follower    \* connections that follow_peer keeps a handle on

vars == <<phase, conn, task, slots, holders, authed, forwards, listening, follower>>
streamVars == <<forwards, listening>>

ConnStates == {"none", "incoming", "handshake", "open", "refused", "closed"}
TaskStates == {"none", "handshake", "serve", "copy", "session", "ended"}
Alive == {"handshake", "serve", "copy", "session"}

Init ==
    /\ phase = "accepting"
    /\ conn = [c \in Conns |-> "none"]
    /\ task = [c \in Conns |-> "none"]
    /\ slots = MaxConnections
    /\ holders = {} /\ authed = {} /\ follower = {}
    /\ forwards = [c \in Conns |-> 0]
    /\ listening = [c \in Conns |-> 0]

Goto(c, state) == task' = [task EXCEPT ![c] = state]

\* The task returns: its permit and the RemoteForwardTasks are dropped.  The
\* handle follow_peer holds keeps an open connection from being closed.
ListenersAborted(c) == [listening EXCEPT ![c] = 0]

\* Mutant: the permit is forgotten instead of dropped.
PermitsForgotten(c) == slots

PermitsAfter(c) == slots + 1

Return(c) ==
    /\ Goto(c, "ended")
    /\ holders' = holders \ {c}
    /\ slots' = PermitsAfter(c)
    /\ listening' = ListenersAborted(c)

-----------------------------------------------------------------------------
(* The accept loop.                                                       *)

\* External: a client's first packet.
Connect(c) ==
    /\ phase = "accepting" /\ conn[c] = "none"
    /\ conn' = [conn EXCEPT ![c] = "incoming"]
    /\ UNCHANGED <<phase, task, slots, holders, authed, streamVars, follower>>

\* Mutant: the accept loop waits for a permit instead of refusing.
AcceptWaits(c) ==
    /\ phase = "accepting" /\ conn[c] = "incoming" /\ slots > 0
    /\ slots' = slots - 1
    /\ holders' = holders \cup {c}
    /\ Goto(c, "handshake")
    /\ conn' = [conn EXCEPT ![c] = "handshake"]
    /\ UNCHANGED <<phase, authed, streamVars, follower>>

\* endpoint.accept(): try_acquire_owned, or refuse.
Accept(c) ==
    /\ phase = "accepting" /\ conn[c] = "incoming"
    /\ \/ /\ slots > 0
          /\ slots' = slots - 1
          /\ holders' = holders \cup {c}
          /\ Goto(c, "handshake")
          /\ conn' = [conn EXCEPT ![c] = "handshake"]
       \/ /\ slots = 0
          /\ conn' = [conn EXCEPT ![c] = "refused"]
          /\ UNCHANGED <<slots, holders, task>>
    /\ UNCHANGED <<phase, authed, streamVars, follower>>

\* close_endpoint: the loop is over and every connection is closed.
Shutdown ==
    /\ phase = "accepting"
    /\ phase' = "closing"
    /\ conn' = [c \in Conns |-> IF conn[c] \in {"handshake", "open"} THEN "closed" ELSE conn[c]]
    /\ UNCHANGED <<task, slots, holders, authed, streamVars, follower>>

\* wait_idle returned or its second is over: the process exits, and its tasks
\* are dropped wherever they are.
Exit ==
    /\ phase = "closing"
    /\ phase' = "exited"
    /\ task' = [c \in Conns |-> IF task[c] = "none" THEN "none" ELSE "ended"]
    /\ listening' = [c \in Conns |-> 0]
    /\ holders' = {} /\ slots' = MaxConnections
    /\ follower' = {}
    /\ UNCHANGED <<conn, authed, forwards>>

-----------------------------------------------------------------------------
(* The task of one connection.                                            *)

\* connecting.await fails, or peer_identity or authenticate do: the connection
\* is closed and the task returns.
HandshakeFails(c) ==
    /\ task[c] = "handshake"
    /\ conn' = [conn EXCEPT ![c] = "closed"]
    /\ Return(c)
    /\ UNCHANGED <<phase, authed, forwards, follower>>

\* Authenticated: serve spawns follow_peer and waits for streams.
Authenticate(c) ==
    /\ task[c] = "handshake" /\ conn[c] = "handshake"
    /\ conn' = [conn EXCEPT ![c] = "open"]
    /\ authed' = authed \cup {c}
    /\ follower' = follower \cup {c}
    /\ Goto(c, "serve")
    /\ UNCHANGED <<phase, slots, holders, streamVars>>

\* Mutant: the loop survives the loss of the connection.
ServeFailsOnlyBadHeader(c) ==
    /\ task[c] = "serve" /\ conn[c] = "open"
    /\ Return(c)
    /\ UNCHANGED <<phase, conn, authed, forwards, follower>>

\* accept_bi or read_frame fails: the connection is gone or the header is bad.
ServeFails(c) ==
    /\ task[c] = "serve"
    /\ Return(c)
    /\ UNCHANGED <<phase, conn, authed, forwards, follower>>

UnderLimit(c) == forwards[c] < MaxForwards

\* open_remote_forward: refusals answer the stream and change nothing.
\* `loopback`, `low` and `bound`: the address is loopback, the port is below
\* 1024 and the user not the server's own, bind succeeds.
OpenRemoteForward(c, loopback, low, bound) ==
    /\ task[c] = "serve" /\ conn[c] = "open"
    /\ IF AllowForwarding /\ UnderLimit(c) /\ loopback /\ ~(low /\ Root) /\ bound
         THEN /\ forwards' = [forwards EXCEPT ![c] = @ + 1]
              /\ listening' = [listening EXCEPT ![c] = @ + 1]
         ELSE UNCHANGED <<forwards, listening>>
    /\ UNCHANGED <<phase, conn, task, slots, holders, authed, follower>>

\* run_remote_forward_listener returns: the connection closed, or accept failed.
ListenerEnds(c) ==
    /\ listening[c] > 0
    /\ listening' = [listening EXCEPT ![c] = @ - 1]
    /\ UNCHANGED <<phase, conn, task, slots, holders, authed, forwards, follower>>

\* A Session header: refused when max_sessions is 0, else it ends the loop.
OpenSession(c) ==
    /\ task[c] = "serve" /\ conn[c] = "open" /\ MaxSessions > 0
    /\ Goto(c, "session")
    /\ UNCHANGED <<phase, conn, slots, holders, authed, streamVars, follower>>

\* run_server_session returned; serve returns Ok whatever the result.
SessionEnds(c) ==
    /\ task[c] = "session"
    /\ Return(c)
    /\ UNCHANGED <<phase, conn, authed, forwards, follower>>

\* A FileCopy header: handle_upload or handle_download is awaited in the loop,
\* which continues after the copy, failed or not.
FileCopy(c) ==
    /\ task[c] = "serve" /\ conn[c] = "open"
    /\ Goto(c, "copy")
    /\ UNCHANGED <<phase, conn, slots, holders, authed, streamVars, follower>>

CopyEnds(c) ==
    /\ task[c] = "copy"
    /\ Goto(c, "serve")
    /\ UNCHANGED <<phase, conn, slots, holders, authed, streamVars, follower>>

-----------------------------------------------------------------------------
(* The connection.                                                        *)

\* The client closes, or the idle timeout of seven days passes.
ConnLost(c) ==
    /\ conn[c] \in {"handshake", "open"}
    /\ conn' = [conn EXCEPT ![c] = "closed"]
    /\ UNCHANGED <<phase, task, slots, holders, authed, streamVars, follower>>

\* follow_peer: remote_address_changed returns None once the connection is
\* closed, and the handle is dropped.
FollowerEnds(c) ==
    /\ c \in follower /\ conn[c] = "closed"
    /\ follower' = follower \ {c}
    /\ UNCHANGED <<phase, conn, task, slots, holders, authed, streamVars>>

Serve(c) ==
    \/ Accept(c) \/ HandshakeFails(c) \/ Authenticate(c) \/ ServeFails(c)
    \/ OpenSession(c) \/ SessionEnds(c) \/ FileCopy(c) \/ CopyEnds(c)
    \/ FollowerEnds(c) \/ ListenerEnds(c)
    \/ \E loopback, low, bound \in BOOLEAN : OpenRemoteForward(c, loopback, low, bound)

Next == Shutdown \/ Exit \/ \E c \in Conns : Connect(c) \/ ConnLost(c) \/ Serve(c)

\* A connection's task is polled when its connection is lost, and whatever it
\* does then ends: Session!DisconnectEnds shows it of a session (except for one
\* whose background process holds a pipe open), FileCopy!EveryoneEnds of a copy
\* (except for one whose worker starves).
Fairness ==
    \A c \in Conns :
        /\ WF_vars(Accept(c))
        /\ WF_vars(conn[c] = "closed" /\ (HandshakeFails(c) \/ ServeFails(c)))
        /\ WF_vars(conn[c] = "closed" /\ (SessionEnds(c) \/ CopyEnds(c)))
        /\ WF_vars(conn[c] = "closed" /\ ListenerEnds(c))
        /\ WF_vars(FollowerEnds(c))

Spec == Init /\ [][Next]_vars
FairSpec == Spec /\ Fairness

-----------------------------------------------------------------------------
(* Properties.                                                            *)

\* Every variable keeps its shape; the permits are never negative.
TypeOK ==
    /\ phase \in {"accepting", "closing", "exited"}
    /\ conn \in [Conns -> ConnStates]
    /\ task \in [Conns -> TaskStates]
    /\ slots \in 0..MaxConnections
    /\ {holders, authed, follower} \subseteq SUBSET Conns
    /\ forwards \in [Conns -> Nat]
    /\ listening \in [Conns -> Nat]

\* connection_slots is conserved: permits left and permits held by living tasks
\* always add up to max_connections, across refusals, failed handshakes,
\* rejected keys, errors and sessions.
SlotsConserved ==
    /\ slots + Cardinality(holders) = MaxConnections
    /\ holders = {c \in Conns : task[c] \in Alive}

\* At most max_connections connections are handshaking or being served.
ServedBounded == Cardinality({c \in Conns : task[c] \in Alive}) <= MaxConnections

\* Remote-forward listeners exist only for an authenticated connection that is
\* still being served, and never more than max_forwards_per_connection.
ListenersBounded ==
    \A c \in Conns :
        /\ listening[c] <= MaxForwards
        /\ listening[c] > 0 => AllowForwarding /\ c \in authed /\ task[c] \in Alive

\* A connection costs the server what its limits say and no more, on every way
\* in and out of its task: one permit while the task lives, and at most
\* max_forwards_per_connection listeners, none of which outlives the task.
CapacityKept == SlotsConserved /\ ListenersBounded

\* A slot is given back once the connection is gone, whatever its task was
\* doing; the server does not fill up with dead connections.
SlotsReturned == \A c \in Conns : (conn[c] = "closed") ~> (c \notin holders)

\* Every incoming connection is answered: admitted or refused.
IncomingAnswered ==
    \A c \in Conns : (conn[c] = "incoming") ~> (conn[c] # "incoming" \/ phase # "accepting")

\* config.example.toml on max_connections: "Maximum concurrent QUIC connections
\* accepted by the server."
OpenConnectionsBounded ==
    Cardinality({c \in Conns : conn[c] \in {"handshake", "open"}}) <= MaxConnections

=============================================================================
