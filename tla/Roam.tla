-------------------------------- MODULE Roam --------------------------------
(***************************************************************************)
(* The client's path watcher (hush/src/roam.rs): watch_path moves the QUIC *)
(* endpoint to a fresh UDP socket, a hop, when the socket complains, when  *)
(* the source address changes, or when PathWatch finds that what was sent  *)
(* goes unanswered.                                                        *)
(*                                                                         *)
(* Instants are ages: the time since the event, counted up to MaxBackoff.  *)
(* The code compares an age with durations of at most MAX_HOP_BACKOFF, so  *)
(* nothing is lost by not counting on.  The frame counters of quinn matter *)
(* only as changes: `newAck` is acks # self.acks and `sentMore` is         *)
(* ack_eliciting_sent # self.sent_at_last_ack.                             *)
(***************************************************************************)
EXTENDS Naturals

CONSTANTS WatchInterval,   \* WATCH_INTERVAL
          MinSilence,      \* MIN_SILENCE
          MaxBackoff,      \* MAX_HOP_BACKOFF
          MinHopInterval,  \* MIN_HOP_INTERVAL
          Silences,        \* values of `silence`, as the round-trip time varies
          Pinned,          \* transport.pins_source_address()
          MaxFails,        \* bound on sockets that fail to open despite a route
          None             \* no instant recorded

ASSUME RoamAssumption ==
    /\ WatchInterval \in Nat \ {0} /\ MinHopInterval \in Nat \ {0}
    /\ MinSilence \in Nat /\ MinHopInterval <= MinSilence
    /\ MaxBackoff \in Nat /\ MinSilence <= MaxBackoff /\ WatchInterval <= MaxBackoff
    /\ Silences \subseteq MinSilence..MaxBackoff /\ Silences # {}
    /\ Pinned \in BOOLEAN /\ MaxFails \in Nat
    /\ None \notin Nat

VARIABLES
    \* PathWatch
    since,      \* unanswered_since
    hop,        \* last_hop
    backoff,
    newAck, sentMore,
    \* watch_path
    watching,   \* the task runs
    event,      \* the event it handled last
    monitor,    \* the network monitor works
    sinceTick,  \* age of the last tick
    \* the socket in use, the network and the connection
    sock,       \* "ok", "stale" (packets vanish) or "dead" (sends fail)
    trouble,    \* the socket's Notify holds a permit
    source,     \* endpoint.local_addr() is still the preferred source address
    changed,    \* the monitor has a change to report
    route,      \* there is a route to the server
    unacked,    \* frames are in flight that the server has not acknowledged
    alive,      \* the connection is
    fails,      \* sockets that failed to open so far
    \* history
    quiet,      \* age of the last ACK frame received
    flip        \* changes at every hop

watchVars == <<since, hop, backoff, newAck, sentMore>>
taskVars == <<watching, event, monitor, sinceTick>>
netVars == <<sock, trouble, source, changed, route, unacked, alive, fails>>
vars == <<watchVars, taskVars, netVars, quiet, flip>>

Ages == 0..MaxBackoff
Older(age) == IF age = None \/ age = MaxBackoff THEN age ELSE age + 1

Init ==
    /\ since = None /\ hop = None /\ backoff = 0
    /\ newAck = TRUE /\ sentMore = TRUE      \* the handshake
    /\ watching = TRUE /\ event = "Tick" /\ monitor = Pinned /\ sinceTick = WatchInterval
    /\ sock = "ok" /\ trouble = FALSE /\ source = TRUE /\ changed = FALSE /\ route = TRUE
    /\ unacked = FALSE /\ alive = TRUE /\ fails = 0
    /\ quiet = 0 /\ flip = FALSE

-----------------------------------------------------------------------------
(* PathWatch.                                                             *)

\* may_hop_now.
MayHopNow == hop # None => hop >= MinHopInterval

\* hopped: twice the last backoff, at least `silence`, at most the maximum.
\* Mutant: no lower limit, so that it stays zero.
BackoffOnlyDoubles(silence) == IF 2 * backoff > MaxBackoff THEN MaxBackoff ELSE 2 * backoff
NextBackoff(silence) ==
    IF 2 * backoff > MaxBackoff THEN MaxBackoff
    ELSE IF 2 * backoff > silence THEN 2 * backoff ELSE silence

\* unanswered_since.get_or_insert(now).  Mutant: insert(now).
SinceInserted == 0
SinceKept == IF since = None THEN 0 ELSE since

\* observe, once the counters say that something is unanswered.
HopDue(silence) == SinceKept >= silence /\ (hop # None => hop >= backoff)

-----------------------------------------------------------------------------
(* watch_path.                                                            *)

\* The new socket reports to a Notify of its own.  Mutant: every socket
\* reports to the same one, which keeps the permit of the old socket.
NotifyShared == trouble
NotifyFresh == FALSE

\* watch.hopped, then transport.open and rebind_abstract.
Hop(silence) ==
    /\ hop' = 0 /\ backoff' = NextBackoff(silence) /\ flip' = ~flip
    /\ \/ /\ route
          /\ sock' = "ok" /\ trouble' = NotifyFresh /\ source' = TRUE
          /\ UNCHANGED fails
       \/ /\ ~route \/ fails < MaxFails
          /\ fails' = IF route THEN fails + 1 ELSE fails
          /\ UNCHANGED <<sock, source>>
          /\ trouble' = (trouble /\ event' # "SocketTrouble")

NoHop == UNCHANGED <<hop, sock, source, fails, flip>>

\* What every event does first: the connection must still be there.
Wakes(e) == watching /\ alive /\ event' = e /\ UNCHANGED <<watching, route, unacked, alive, quiet>>

\* Mutant: an ACK does not clear unanswered_since.
ClearedNot == since
Cleared == None

Tick(silence) ==
    /\ sinceTick >= WatchInterval
    /\ Wakes("Tick")
    /\ sinceTick' = 0
    /\ \/ /\ newAck
          /\ newAck' = FALSE /\ sentMore' = FALSE /\ since' = Cleared /\ backoff' = 0
          /\ NoHop /\ UNCHANGED trouble
       \/ /\ ~newAck /\ ~sentMore
          /\ NoHop /\ UNCHANGED <<newAck, sentMore, since, backoff, trouble>>
       \/ /\ ~newAck /\ sentMore /\ ~HopDue(silence)
          /\ since' = SinceKept
          /\ NoHop /\ UNCHANGED <<newAck, sentMore, backoff, trouble>>
       \/ /\ ~newAck /\ sentMore /\ HopDue(silence)
          /\ since' = SinceKept
          /\ Hop(silence)
          /\ UNCHANGED <<newAck, sentMore>>
    /\ UNCHANGED <<monitor, changed>>

\* trouble.notified() takes the permit; a hop too soon is not made later.
SocketTrouble(silence) ==
    /\ trouble
    /\ Wakes("SocketTrouble")
    /\ \/ MayHopNow /\ Hop(silence)
       \/ ~MayHopNow /\ trouble' = FALSE /\ NoHop /\ UNCHANGED backoff
    /\ UNCHANGED <<since, newAck, sentMore, monitor, sinceTick, changed>>

\* A change or the failure of the monitor, which is then given up.
NetworkChanged(silence, broken) ==
    /\ monitor /\ (changed \/ broken)
    /\ Wakes("NetworkChanged")
    /\ changed' = FALSE /\ monitor' = ~broken
    /\ \/ route /\ ~source /\ MayHopNow /\ Hop(silence)
       \/ (~route \/ source \/ ~MayHopNow) /\ NoHop /\ UNCHANGED <<trouble, backoff>>
    /\ UNCHANGED <<since, newAck, sentMore, sinceTick>>

\* Mutant: the task looks at the connection only when the socket complains.
ReturnsOnTrouble == trouble
ReturnsOnEvent == sinceTick >= WatchInterval \/ trouble \/ (monitor /\ changed)

\* The connection is gone at the next event.
Return ==
    /\ watching /\ ~alive /\ ReturnsOnEvent
    /\ watching' = FALSE
    /\ UNCHANGED <<watchVars, event, monitor, sinceTick, netVars, quiet, flip>>

-----------------------------------------------------------------------------
(* Time, the socket, the network and the connection.                      *)

Tock ==
    /\ since' = Older(since) /\ hop' = Older(hop) /\ quiet' = Older(quiet)
    /\ sinceTick' = Older(sinceTick)
    /\ UNCHANGED <<backoff, newAck, sentMore, watching, event, monitor, netVars, flip>>

\* try_send on a dead socket notifies and drops the datagram.
Complains == sock = "dead"

\* quinn sends an ack-eliciting frame, new or a retransmission.
Send ==
    /\ alive
    /\ sentMore' = TRUE /\ unacked' = TRUE
    /\ trouble' = (trouble \/ Complains)
    /\ UNCHANGED <<since, hop, backoff, newAck, taskVars, sock, source, changed, route,
                   alive, fails, quiet, flip>>

\* An ACK frame arrives, for some or for all of what is in flight.
AckArrives ==
    /\ alive /\ unacked /\ route /\ sock = "ok"
    /\ newAck' = TRUE /\ quiet' = 0
    /\ unacked' \in BOOLEAN
    /\ UNCHANGED <<since, hop, backoff, sentMore, taskVars, sock, trouble, source, changed,
                   route, alive, fails, flip>>

\* The path of the current socket breaks: a NAT mapping is lost, or the address
\* it is bound to goes away; or another address is preferred to it.
PathBreaks(moves) ==
    /\ sock = "ok" /\ sock' \in {"ok", "stale", "dead"}
    /\ source' = (source /\ ~moves)
    /\ changed' = (changed \/ (moves /\ monitor))
    /\ UNCHANGED <<watchVars, taskVars, trouble, route, unacked, alive, fails, quiet, flip>>

\* Packets of a socket may get through again; a dead one stays dead.
PathHeals ==
    /\ sock = "stale" /\ sock' = "ok"
    /\ UNCHANGED <<watchVars, taskVars, trouble, source, changed, route, unacked, alive, fails,
                   quiet, flip>>

\* The route to the server goes or comes; the monitor reports both.
RouteChanges ==
    /\ route' = ~route
    /\ changed' = monitor
    /\ UNCHANGED <<watchVars, taskVars, sock, trouble, source, unacked, alive, fails, quiet, flip>>

ConnEnds ==
    /\ alive /\ alive' = FALSE
    /\ UNCHANGED <<watchVars, taskVars, sock, trouble, source, changed, route, unacked, fails,
                   quiet, flip>>

Watch == \/ \E silence \in Silences :
              \/ Tick(silence) \/ SocketTrouble(silence)
              \/ \E broken \in BOOLEAN : NetworkChanged(silence, broken)
         \/ Return

Next ==
    \/ Watch \/ Tock \/ Send \/ AckArrives \/ PathHeals \/ RouteChanges \/ ConnEnds
    \/ \E moves \in BOOLEAN : PathBreaks(moves)

\* Time passes, the interval fires, the runtime polls the task, and quinn
\* retransmits what is not acknowledged for as long as the connection lives.
Fairness ==
    /\ WF_vars(Tock)
    /\ WF_vars(\E silence \in Silences : Tick(silence))
    /\ WF_vars(Return)
    /\ WF_vars(unacked /\ ~sentMore /\ Send)

Spec == Init /\ [][Next]_vars
FairSpec == Spec /\ Fairness

-----------------------------------------------------------------------------
(* Properties.                                                            *)

\* Every variable keeps its shape: the backoff is zero, until a hop or after an
\* ACK, or between the least silence and its cap.
TypeOK ==
    /\ since \in Ages \cup {None} /\ hop \in Ages \cup {None}
    /\ backoff \in {0} \cup MinSilence..MaxBackoff
    /\ newAck \in BOOLEAN /\ sentMore \in BOOLEAN
    /\ watching \in BOOLEAN /\ event \in {"Tick", "SocketTrouble", "NetworkChanged"}
    /\ monitor \in BOOLEAN /\ sinceTick \in Ages
    /\ sock \in {"ok", "stale", "dead"} /\ trouble \in BOOLEAN /\ source \in BOOLEAN
    /\ changed \in BOOLEAN /\ route \in BOOLEAN /\ unacked \in BOOLEAN /\ alive \in BOOLEAN
    /\ fails \in 0..MaxFails
    /\ quiet \in Ages /\ flip \in BOOLEAN

\* The steps that hop keep their distance, see HopsSpaced.
Spaced ==
    (flip' # flip /\ hop # None)
        => hop >= (IF event' = "Tick" THEN MinSilence ELSE MinHopInterval)

\* Whatever mix of ticks, complaints, network changes and acknowledgements
\* leads to it, a hop comes at least MIN_HOP_INTERVAL after the one before, and
\* a hop because of silence at least MIN_SILENCE after it, although an ACK
\* resets the backoff to zero and a hop leaves unanswered_since alone.
HopsSpaced == [][Spaced]_vars

\* The steps that hop because of silence, see HopMeansSilence.
Silent == (flip' # flip /\ event' = "Tick") => quiet >= MinSilence

\* A hop because of silence is made only when no ACK arrived for MIN_SILENCE:
\* a path that answers is never left for being slow.
HopMeansSilence == [][Silent]_vars

\* A pending complaint is one of the socket in use: late complaints of the
\* sockets that quinn keeps for late packets cause no hop.
TroubleIsCurrent == trouble => sock = "dead"

\* While a route exists and something waits to be acknowledged, a broken path
\* does not last: the client is on a working socket again and again, even when
\* the events that announced the break were ignored for coming too early.
Recovers == []<>(sock = "ok" \/ ~route \/ ~unacked \/ ~alive)

\* The watcher ends with the connection.
WatchEnds == ~alive ~> ~watching

=============================================================================
