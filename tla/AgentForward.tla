---------------------------- MODULE AgentForward ----------------------------
(***************************************************************************)
(* Agent forwarding of one session, from the remote programs that connect  *)
(* to its agent socket to the user's agent: start_agent_forward and        *)
(* run_agent_listener (hush-core/src/agent.rs) at the server,              *)
(* serve_server_stream (hush/src/main.rs) and serve_agent_forward_stream   *)
(* at the client, which binds a connection to the session before it        *)
(* bridges it.  The permits of the listener are in Forwarding.             *)
(*                                                                         *)
(* A program may ask as soon as it is connected; what it asked waits in    *)
(* the socket and the stream.  The agent answers on each connection in the *)
(* order it was asked, and may refuse the binding, answer it with garbage  *)
(* or hang up.                                                             *)
(***************************************************************************)
EXTENDS Integers, Sequences

CONSTANTS Programs,     \* remote programs, one connection each
          MaxAsked      \* bound: requests of each

VARIABLES
    bindable,   \* the client has the host's key and the session id
    signed,     \* bind_signature is not empty
    socket,     \* the agent socket: "none", "making", "listening", "refused" or "dropped"
    dir,        \* its directory is there
    link,       \* program -> how far its connection got
    asked,      \* program -> requests so far
    transit,    \* program -> requests on their way to the bridge
    toAgent,    \* program -> what the client wrote to the agent
    replies,    \* program -> what the agent wrote and the client has not read
    seen,       \* history: program -> what the agent was asked
    got         \* program -> the replies it received

agentVars == <<bindable, signed, socket, dir, link, asked, transit, toAgent, replies, seen, got>>
setupVars == <<bindable, signed, socket, dir>>
flowVars == <<asked, transit, toAgent, replies, seen, got>>

ForAll(x) == [p \in Programs |-> x]

\* The client asked for forwarding: agent_forward_context gave a context.
AgentInit ==
    /\ bindable \in BOOLEAN /\ signed \in BOOLEAN
    /\ socket = "none" /\ dir = FALSE
    /\ link = ForAll("none") /\ asked = ForAll(0) /\ transit = ForAll(<<>>)
    /\ toAgent = ForAll(<<>>) /\ replies = ForAll(<<>>) /\ seen = ForAll(<<>>) /\ got = ForAll(<<>>)

-----------------------------------------------------------------------------
(* The server's socket.                                                   *)

\* start_session_agent_forward may turn the request down; bind_agent_socket
\* starts with a directory of its own.
CreateDir ==
    /\ socket = "none"
    /\ \/ socket' = "making" /\ dir' = TRUE
       \/ socket' = "refused" /\ UNCHANGED dir
    /\ UNCHANGED <<bindable, signed, link, flowVars>>

\* An error removes the directory.
SocketFails == socket' = "refused" /\ dir' = FALSE

\* bind, the permissions and the owner.
BindSocket ==
    /\ socket = "making"
    /\ \/ socket' = "listening" /\ UNCHANGED dir
       \/ SocketFails
    /\ UNCHANGED <<bindable, signed, link, flowVars>>

\* The session ends and AgentForwardGuard is dropped: the listener's task is
\* aborted, which hangs up on those it has not accepted; bridges run on.
DropAgentGuard ==
    /\ socket = "listening" /\ socket' = "dropped" /\ dir' = FALSE
    /\ link' = [p \in Programs |-> IF link[p] = "pending" THEN "closed" ELSE link[p]]
    /\ UNCHANGED <<bindable, signed, flowVars>>

-----------------------------------------------------------------------------
(* A program's connection.                                                *)

Moves(p, from, to) == link[p] = from /\ link' = [link EXCEPT ![p] = to]

ProgramConnects(p) ==
    /\ socket = "listening" /\ Moves(p, "none", "pending")
    /\ UNCHANGED <<setupVars, flowVars>>

\* run_agent_listener accepts; without a permit the connection is dropped.
AgentAccept(p) ==
    /\ socket = "listening"
    /\ \E to \in {"opening", "closed"} : Moves(p, "pending", to)
    /\ UNCHANGED <<setupVars, flowVars>>

\* serve_agent_connection opens a stream with the signature as its header.
OpenAgentStream(p) ==
    /\ Moves(p, "opening", "stream")
    /\ UNCHANGED <<setupVars, flowVars>>

\* AgentForwardContext::bind.
Bind == bindable /\ signed

\* serve_server_stream and serve_agent_forward_stream: connect to the agent.
ConnectAgent(p) ==
    /\ Moves(p, "stream", IF Bind THEN "connected" ELSE "bridged")
    /\ UNCHANGED <<setupVars, flowVars>>

\* Mutant of SendBind: the reply is left for the bridge.
SendBindOnly(p) ==
    /\ Moves(p, "connected", "bridged")
    /\ toAgent' = [toAgent EXCEPT ![p] = Append(@, <<"bind">>)]
    /\ UNCHANGED <<setupVars, asked, transit, replies, seen, got>>

\* bind_agent_connection writes the request and reads the reply.  An agent that
\* does not know the extension is used without the binding.
SendBind(p) ==
    /\ Moves(p, "connected", "binding")
    /\ toAgent' = [toAgent EXCEPT ![p] = Append(@, <<"bind">>)]
    /\ UNCHANGED <<setupVars, asked, transit, replies, seen, got>>
ReadBindReply(p) ==
    /\ replies[p] # <<>>
    /\ Moves(p, "binding", IF Head(replies[p]) = <<"invalid">> THEN "closed" ELSE "bridged")
    /\ replies' = [replies EXCEPT ![p] = Tail(@)]
    /\ UNCHANGED <<setupVars, asked, transit, toAgent, seen, got>>

\* Either end closes, connecting to the agent fails, or the connection is lost.
LinkBreaks(p) ==
    /\ link[p] \notin {"none", "closed"} /\ link' = [link EXCEPT ![p] = "closed"]
    /\ UNCHANGED <<setupVars, flowVars>>

-----------------------------------------------------------------------------
(* Requests and replies.                                                  *)

Ask(p) ==
    /\ link[p] \notin {"none", "closed"} /\ asked[p] < MaxAsked
    /\ asked' = [asked EXCEPT ![p] = @ + 1]
    /\ transit' = [transit EXCEPT ![p] = Append(@, <<"ask", asked'[p]>>)]
    /\ UNCHANGED <<setupVars, link, toAgent, replies, seen, got>>

\* join_io_pair, in both directions.
BridgeRequest(p) ==
    /\ link[p] = "bridged" /\ transit[p] # <<>>
    /\ toAgent' = [toAgent EXCEPT ![p] = Append(@, Head(transit[p]))]
    /\ transit' = [transit EXCEPT ![p] = Tail(@)]
    /\ UNCHANGED <<setupVars, link, asked, replies, seen, got>>
BridgeReply(p) ==
    /\ link[p] = "bridged" /\ replies[p] # <<>>
    /\ got' = [got EXCEPT ![p] = Append(@, Head(replies[p]))]
    /\ replies' = [replies EXCEPT ![p] = Tail(@)]
    /\ UNCHANGED <<setupVars, link, asked, transit, toAgent, seen>>

\* The user's agent.
AgentReplies(p) ==
    /\ toAgent[p] # <<>> /\ link[p] # "closed"
    /\ LET what == Head(toAgent[p])
       IN /\ seen' = [seen EXCEPT ![p] = Append(@, what)]
          /\ \E r \in IF what = <<"bind">> THEN {<<"success">>, <<"failure">>, <<"invalid">>}
                                         ELSE {<<"answer", what[2]>>} :
               replies' = [replies EXCEPT ![p] = Append(@, r)]
    /\ toAgent' = [toAgent EXCEPT ![p] = Tail(@)]
    /\ UNCHANGED <<setupVars, link, asked, transit, got>>

AgentNext ==
    \/ CreateDir \/ BindSocket \/ DropAgentGuard
    \/ \E p \in Programs :
        \/ ProgramConnects(p) \/ AgentAccept(p) \/ OpenAgentStream(p) \/ ConnectAgent(p)
        \/ SendBind(p) \/ ReadBindReply(p) \/ LinkBreaks(p)
        \/ Ask(p) \/ BridgeRequest(p) \/ BridgeReply(p) \/ AgentReplies(p)

AgentSpec == AgentInit /\ [][AgentNext]_agentVars

-----------------------------------------------------------------------------
(* Properties.                                                            *)

\* The replies a program gets are those to its own requests, in their order:
\* that to the binding is never among them, although requests may have been
\* waiting since before the connection was bound.
RepliesOwn == \A p \in Programs : \A i \in DOMAIN got[p] : got[p][i] = <<"answer", i>>

\* Where it can be, a connection is bound before the agent is asked anything.
BoundFirst ==
    Bind => \A p \in Programs : seen[p] # <<>> => Head(seen[p]) = <<"bind">>

\* A session that is over, or that has no forwarding, leaves no socket behind.
SocketRemoved == socket \in {"none", "refused", "dropped"} => ~dir

\* What a forwarded agent owes the programs, the agent and the server's disk.
AgentForwarded == RepliesOwn /\ BoundFirst /\ SocketRemoved
=============================================================================
