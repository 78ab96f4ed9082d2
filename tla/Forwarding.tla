----------------------------- MODULE Forwarding -----------------------------
(***************************************************************************)
(* The server's side of forwarding on one connection: streams of local     *)
(* forwards (run_server_session), connections to the session's agent       *)
(* socket (run_agent_listener) and to remote-forward listeners             *)
(* (run_remote_forward_listener), and the two semaphores of                *)
(* max_forward_streams_per_connection permits that limit them.             *)
(*                                                                         *)
(* A local or agent peer is turned away when no permit is left.  A remote  *)
(* listener waits for a permit before it accepts, so it keeps one while it *)
(* has nothing to accept.  A bridge copies both ways and holds its permit  *)
(* until both directions have ended.                                       *)
(***************************************************************************)
EXTENDS Naturals, FiniteSets, Sequences

CONSTANTS Peers,        \* the programs that connect, one bridge each
          Listeners,    \* remote-forward listeners of the connection
          MaxStreams    \* max_forward_streams_per_connection

ASSUME ForwardingAssumption ==
    /\ IsFiniteSet(Peers) /\ IsFiniteSet(Listeners) /\ MaxStreams \in Nat
    /\ {"local", "agent"} \cap Listeners = {}

VARIABLES
    up,         \* the QUIC connection is
    serving,    \* the session runs: the listeners and accept tasks do
    peer,       \* peer -> where its connection is
    via,        \* peer -> the way it came in: a listener, "local" or "agent"
    running,    \* peer -> directions of its bridge still being copied
    slots,      \* permits left in forward_slots, of the session
    streams,    \* permits left in remote_forward_streams
    waiting,    \* listeners in acquire_owned, first come first served
    ready,      \* listeners in accept, with a permit
    ended       \* listeners whose task is over

vars == <<up, serving, peer, via, running, slots, streams, waiting, ready, ended>>
listenerVars == <<waiting, ready, ended>>

Kinds == Listeners \cup {"local", "agent"}
Directions == {"toQuic", "fromQuic"}

\* The bridges of a kind that hold a permit.
Open(kinds) == {x \in Peers : peer[x] = "open" /\ via[x] \in kinds}

\* Listeners take their places in any order.
Orders == {s \in [1..Cardinality(Listeners) -> Listeners] :
             \A l \in Listeners : \E i \in DOMAIN s : s[i] = l}

Init ==
    /\ up = TRUE /\ serving = TRUE
    /\ peer = [x \in Peers |-> "none"]
    /\ via \in [Peers -> Kinds]
    /\ running = [x \in Peers |-> {}]
    /\ slots = MaxStreams /\ streams = MaxStreams
    /\ waiting \in Orders
    /\ ready = {} /\ ended = {}

-----------------------------------------------------------------------------
(* Peers come in.                                                         *)

\* A program connects; a connection is pending until it is accepted.
Connect(x) ==
    /\ peer[x] = "none" /\ serving
    /\ peer' = [peer EXCEPT ![x] = "pending"]
    /\ UNCHANGED <<up, serving, via, running, slots, streams, listenerVars>>

Starts(x) ==
    /\ peer' = [peer EXCEPT ![x] = "open"]
    /\ running' = [running EXCEPT ![x] = Directions]

\* A local or agent stream takes its permit along.
SlotsAfterTry == slots - 1

\* accept_task and run_agent_listener: try_acquire_owned, or the peer's
\* connection is dropped.
TryAccept(x) ==
    /\ serving /\ peer[x] = "pending" /\ via[x] \in {"local", "agent"}
    /\ \/ slots > 0 /\ slots' = SlotsAfterTry /\ Starts(x)
       \/ slots = 0 /\ peer' = [peer EXCEPT ![x] = "rejected"] /\ UNCHANGED <<slots, running>>
    /\ UNCHANGED <<up, serving, via, streams, listenerVars>>

-----------------------------------------------------------------------------
(* run_remote_forward_listener.                                           *)

\* acquire_owned; the semaphore is fair.
Acquire ==
    /\ waiting # <<>> /\ streams > 0
    /\ streams' = streams - 1
    /\ ready' = ready \cup {Head(waiting)}
    /\ waiting' = Tail(waiting)
    /\ UNCHANGED <<up, serving, peer, via, running, slots, ended>>

\* Mutant: the loop ends after its first connection.
NextRoundNever(l) == waiting
NextRound(l) == Append(waiting, l)

\* accept: the permit moves to the new bridge, and the loop starts over.
ListenerAccept(l, x) ==
    /\ l \in ready /\ peer[x] = "pending" /\ via[x] = l
    /\ Starts(x)
    /\ ready' = ready \ {l}
    /\ waiting' = NextRound(l)
    /\ UNCHANGED <<up, serving, via, slots, streams, ended>>

\* A listener task is over: a permit it held goes back.  Mutant: it is lost.
StreamsAfterListenersLeak(gone) == streams
StreamsAfterListeners(gone) == streams + Cardinality(ready \cap gone)

ListenersEnd(gone) ==
    /\ streams' = StreamsAfterListeners(gone)
    /\ ready' = ready \ gone /\ ended' = ended \cup gone

\* An acquire_owned that is dropped leaves the queue.
WaitingWithout(i) == SubSeq(waiting, 1, i - 1) \o SubSeq(waiting, i + 1, Len(waiting))

\* conn.closed() won a select, or accept failed.
ListenerReturns(l) ==
    /\ \/ ~up /\ \E i \in DOMAIN waiting : waiting[i] = l /\ waiting' = WaitingWithout(i)
       \/ l \in ready /\ UNCHANGED waiting
    /\ ListenersEnd({l})
    /\ UNCHANGED <<up, serving, peer, via, running, slots>>

-----------------------------------------------------------------------------
(* bridge_tcp_quic and join_io_pair.                                      *)

\* The bridge is over when both of its directions are.
LastDirection(x, d) == running[x] = {d}

\* A direction ends at EOF or with an error.  Reading from QUIC fails once the
\* connection is lost; reading from the peer ends when the peer closes.  The
\* permit goes back when both tasks have been joined.
DirectionEnds(x, d) ==
    /\ peer[x] = "open" /\ d \in running[x]
    /\ running' = [running EXCEPT ![x] = @ \ {d}]
    /\ IF LastDirection(x, d)
         THEN /\ peer' = [peer EXCEPT ![x] = "closed"]
              /\ IF via[x] \in Listeners
                   THEN streams' = streams + 1 /\ UNCHANGED slots
                   ELSE slots' = slots + 1 /\ UNCHANGED streams
         ELSE UNCHANGED <<peer, slots, streams>>
    /\ UNCHANGED <<up, serving, via, listenerVars>>

-----------------------------------------------------------------------------

ConnLost ==
    /\ up /\ up' = FALSE
    /\ UNCHANGED <<serving, peer, via, running, slots, streams, listenerVars>>

\* The session is over and serve returns: accept_task, the agent listener and
\* RemoteForwardTasks are aborted.  Bridges run on.
SessionEnds ==
    /\ serving /\ serving' = FALSE
    /\ ListenersEnd(Listeners) /\ waiting' = <<>>
    /\ UNCHANGED <<up, peer, via, running, slots>>

Accepts(x) == TryAccept(x) \/ \E l \in Listeners : ListenerAccept(l, x)

Next ==
    \/ Acquire \/ ConnLost \/ SessionEnds
    \/ \E l \in Listeners : ListenerReturns(l)
    \/ \E x \in Peers : Connect(x) \/ Accepts(x) \/ \E d \in Directions : DirectionEnds(x, d)

\* The runtime polls its tasks, reading from a lost connection fails, and every
\* peer closes its connection some day.
Fairness ==
    /\ WF_vars(Acquire)
    /\ \A x \in Peers :
        /\ WF_vars(Accepts(x))
        /\ \A d \in Directions : WF_vars(DirectionEnds(x, d))

Spec == Init /\ [][Next]_vars
FairSpec == Spec /\ Fairness

-----------------------------------------------------------------------------
(* Properties.                                                            *)

\* No permit is lost or invented: those left, those held by bridges and those
\* held by idle listeners add up, through rejections, errors, aborts and the
\* loss of the connection.
PermitsConserved ==
    /\ slots + Cardinality(Open({"local", "agent"})) = MaxStreams
    /\ streams + Cardinality(ready) + Cardinality(Open(Listeners)) = MaxStreams

\* While the listener of a peer lives, the peer is accepted: other listeners
\* that hold a permit without a peer, and bridges that end one day, do not
\* keep it out.  This needs as many permits as there are listeners.
PendingAccepted ==
    \A x \in Peers : (peer[x] = "pending")
        ~> (peer[x] # "pending" \/ via[x] \in ended \/ ~serving)

=============================================================================
