------------------------------ MODULE Connect ------------------------------
(***************************************************************************)
(* Connecting to the first address that answers, Happy Eyeballs style:     *)
(* connect_any and connect_any_inner (hush/src/net.rs).  Attempts start    *)
(* staggered, end in any order or hang, and the whole is under a timeout.  *)
(* Time is in the order of the actions: the stagger of all the addresses   *)
(* takes less than CONNECT_TIMEOUT, and the timeout looks at the connect   *)
(* first when both are ready.                                              *)
(***************************************************************************)
EXTENDS Integers, Sequences, SequencesExt

CONSTANTS Resolutions,  \* what lookup_host may return: sequences of addresses
          IsV6          \* [addresses -> BOOLEAN]

VARIABLES
    phase,              \* "idle", "resolving", "running", "connected", "failed", "timedout"
    waiting,            \* pending: addresses not tried yet
    attempt,            \* the JoinSet: attempts as they started, "going", "up", "down" or "joined"
    timer,              \* next_attempt_at is set
    lastErr,            \* an attempt's error is kept
    answered            \* history: attempts that were answered

connectVars == <<phase, waiting, attempt, timer, lastErr, answered>>

\* happy_eyeballs_order: IPv6 first, the families interleaved.
HappyEyeballsOrder(addrs) ==
    LET v6 == SelectSeq(addrs, LAMBDA a : IsV6[a])
        v4 == SelectSeq(addrs, LAMBDA a : ~IsV6[a])
        Pair(i) == (IF i <= Len(v6) THEN <<v6[i]>> ELSE <<>>)
                     \o (IF i <= Len(v4) THEN <<v4[i]>> ELSE <<>>)
    IN FlattenSeq([i \in DOMAIN addrs |-> Pair(i)])

Going == {i \in DOMAIN attempt : attempt[i] # "joined"}         \* attempts is not empty

ConnectInit ==
    /\ phase = "idle" /\ waiting = <<>> /\ attempt = <<>>
    /\ timer = FALSE /\ lastErr = FALSE /\ answered = {}

-----------------------------------------------------------------------------

\* connect_any is called.
ConnectAny ==
    /\ phase = "idle" /\ phase' = "resolving"
    /\ UNCHANGED <<waiting, attempt, timer, lastErr, answered>>

\* spawn_connect_attempt for the first address that waits; the timer is set
\* again while more of them wait.
StartNext ==
    /\ attempt' = Append(attempt, "going")
    /\ waiting' = Tail(waiting) /\ timer' = (Tail(waiting) # <<>>)

\* lookup_host returns: no addresses or an error end it, else the first starts.
Resolve(addrs) ==
    /\ phase = "resolving"
    /\ \/ /\ addrs = <<>> /\ phase' = "failed"
          /\ UNCHANGED <<waiting, attempt, timer>>
       \/ /\ addrs # <<>> /\ phase' = "running"
          /\ LET order == HappyEyeballsOrder(addrs)
             IN /\ attempt' = Append(attempt, "going")
                /\ waiting' = Tail(order) /\ timer' = (Tail(order) # <<>>)
    /\ UNCHANGED <<lastErr, answered>>

\* An attempt of the JoinSet ends: connected, or an error (opening the socket,
\* the handshake, a panic).  It may never do.
AttemptEnds(i) ==
    /\ phase = "running" /\ i \in DOMAIN attempt /\ attempt[i] = "going"
    /\ \/ attempt' = [attempt EXCEPT ![i] = "up"] /\ answered' = answered \cup {i}
       \/ attempt' = [attempt EXCEPT ![i] = "down"] /\ UNCHANGED answered
    /\ UNCHANGED <<phase, waiting, timer, lastErr>>

\* join_next yields an attempt that ended, with the timer set or without it.
Join(i) ==
    /\ phase = "running" /\ i \in DOMAIN attempt
    /\ \/ /\ attempt[i] = "up" /\ phase' = "connected"
          /\ UNCHANGED <<attempt, lastErr>>
       \/ /\ attempt[i] = "down" /\ lastErr' = TRUE
          /\ attempt' = [attempt EXCEPT ![i] = "joined"] /\ UNCHANGED phase
    /\ UNCHANGED <<waiting, timer, answered>>

\* The deadline passes: the next address is tried beside those before it.
Stagger ==
    /\ phase = "running" /\ timer /\ Going # {}
    /\ StartNext
    /\ UNCHANGED <<phase, lastErr, answered>>

\* All that started have failed: the next address is tried at once.
StartIdle ==
    /\ phase = "running" /\ Going = {} /\ waiting # <<>>
    /\ StartNext
    /\ UNCHANGED <<phase, lastErr, answered>>

\* Mutant of Exhausted: gives up as soon as no attempt is left.
ExhaustedEarly ==
    /\ phase = "running" /\ Going = {}
    /\ phase' = "failed"
    /\ UNCHANGED <<waiting, attempt, timer, lastErr, answered>>

Exhausted ==
    /\ phase = "running" /\ Going = {} /\ waiting = <<>>
    /\ phase' = "failed"
    /\ UNCHANGED <<waiting, attempt, timer, lastErr, answered>>

\* connect_any's timeout.
Timeout ==
    /\ \/ phase = "resolving"
       \/ /\ phase = "running" /\ waiting = <<>> /\ Going # {}
          /\ \A i \in Going : attempt[i] = "going"
    /\ phase' = "timedout"
    /\ UNCHANGED <<waiting, attempt, timer, lastErr, answered>>

ConnectNext ==
    \/ ConnectAny
    \/ \E addrs \in Resolutions : Resolve(addrs)
    \/ \E i \in DOMAIN attempt : AttemptEnds(i) \/ Join(i)
    \/ Stagger \/ StartIdle \/ Exhausted \/ Timeout

ConnectSpec == ConnectInit /\ [][ConnectNext]_connectVars

-----------------------------------------------------------------------------
(* Properties.                                                            *)

\* An address that answers is never lost among the failures of others: giving
\* up means that every address was tried and none had answered, in whichever
\* order timers and results came; and an error is there to be reported.
NoAnswerHidden ==
    (phase = "failed" /\ attempt # <<>>) =>
        /\ waiting = <<>> /\ \A i \in DOMAIN attempt : attempt[i] = "joined"
        /\ answered = {} /\ lastErr

=============================================================================
