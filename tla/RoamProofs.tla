----------------------------- MODULE RoamProofs -----------------------------
(***************************************************************************)
(* Connecting and staying connected.                                       *)
(*                                                                         *)
(* What the client's path watcher never does, for all durations: hops stay *)
(* apart, and a path that answers is not left.  The inductive invariant    *)
(* adds to the types what relates the three ages that PathWatch compares:  *)
(* a zero backoff means that nothing is known to be unanswered for longer  *)
(* than the last hop is past, and without a new ACK to look at nothing is  *)
(* unanswered for longer than the last ACK is past.  And connect_any, with *)
(* any addresses in any number.                                            *)
(***************************************************************************)
EXTENDS Roam, Connect, TLAPS

\* With a zero backoff, unanswered_since is no older than the last hop.
SinceAfterHop == (backoff = 0 /\ since # None /\ hop # None) => since <= hop

\* With no ACK left to notice, unanswered_since is no older than the last ACK.
SinceAfterAck == (~newAck /\ since # None) => since <= quiet

\* TypeOK in two parts, of which one needs arithmetic.
Numbers ==
    /\ since \in Ages \cup {None} /\ hop \in Ages \cup {None}
    /\ backoff \in {0} \cup MinSilence..MaxBackoff
    /\ sinceTick \in Ages /\ fails \in 0..MaxFails /\ quiet \in Ages
Flags ==
    /\ newAck \in BOOLEAN /\ sentMore \in BOOLEAN
    /\ watching \in BOOLEAN /\ event \in {"Tick", "SocketTrouble", "NetworkChanged"}
    /\ monitor \in BOOLEAN
    /\ sock \in {"ok", "stale", "dead"} /\ trouble \in BOOLEAN /\ source \in BOOLEAN
    /\ changed \in BOOLEAN /\ route \in BOOLEAN /\ unacked \in BOOLEAN /\ alive \in BOOLEAN
    /\ flip \in BOOLEAN

\* The type invariant is that of numbers and that of flags.
LEMMA TypeParts == (TypeOK <=> Numbers /\ Flags) /\ (TypeOK' <=> Numbers' /\ Flags')
  BY Zenon DEF TypeOK, Numbers, Flags

IInv == TypeOK /\ SinceAfterHop /\ SinceAfterAck /\ TroubleIsCurrent

\* An age stays an age when time passes.
LEMMA OlderAge ==
    ASSUME NEW age \in Ages \cup {None}
    PROVE  /\ Older(age) \in Ages \cup {None}
           /\ age \in Ages => Older(age) \in Ages /\ Older(age) >= age
           /\ Older(age) = None <=> age = None
  BY RoamAssumption DEF Older, Ages

\* Time passes for two ages alike: their order is kept.
LEMMA OlderMonotone ==
    ASSUME NEW a \in Ages, NEW b \in Ages, a <= b
    PROVE  Older(a) <= Older(b)
  BY RoamAssumption DEF Older, Ages

\* hopped leaves the backoff between the least silence and its cap.
LEMMA NextBackoffRange ==
    ASSUME TypeOK, NEW silence \in Silences
    PROVE  NextBackoff(silence) \in MinSilence..MaxBackoff
  BY RoamAssumption DEF TypeOK, NextBackoff

\* A hop keeps the types of what it changes, and its backoff is not zero
\* unless no silence at all is required.
LEMMA HopKeeps ==
    ASSUME TypeOK, TroubleIsCurrent, NEW silence \in Silences, Hop(silence)
    PROVE  /\ hop' = 0 /\ backoff' \in MinSilence..MaxBackoff /\ flip' \in BOOLEAN
           /\ sock' \in {"ok", "stale", "dead"} /\ trouble' \in BOOLEAN /\ source' \in BOOLEAN
           /\ fails' \in 0..MaxFails
           /\ TroubleIsCurrent'
  <1>1. hop' = 0 /\ backoff' \in MinSilence..MaxBackoff
    BY NextBackoffRange DEF Hop
  <1>2. fails' \in 0..MaxFails
    BY RoamAssumption DEF Hop, TypeOK
  <1>3. flip' \in BOOLEAN /\ trouble' \in BOOLEAN
    BY Zenon DEF Hop, NotifyFresh
  <1>4. /\ source' \in BOOLEAN /\ sock' \in {"ok", "stale", "dead"}
        /\ TroubleIsCurrent'
    BY DEF Hop, TypeOK, TroubleIsCurrent, NotifyFresh
  <1> QED
    BY <1>1, <1>2, <1>3, <1>4

\* The invariant holds when the watcher starts.
LEMMA InitIInv == Init => IInv
  <1> SUFFICES ASSUME Init PROVE IInv
    OBVIOUS
  <1>1. TypeOK
    <2>1. Numbers
      BY RoamAssumption DEF Init, Numbers, Ages
    <2>2. Flags
      BY RoamAssumption, Zenon DEF Init, Flags
    <2> QED
      BY <2>1, <2>2, TypeParts
  <1>2. SinceAfterHop /\ SinceAfterAck /\ TroubleIsCurrent
    BY DEF Init, SinceAfterHop, SinceAfterAck, TroubleIsCurrent
  <1> QED
    BY <1>1, <1>2 DEF IInv

\* The three event handlers keep the invariant.
LEMMA TickIInv ==
    ASSUME IInv, NEW silence \in Silences, Tick(silence)
    PROVE  IInv'
  <1> USE DEF Tick, Wakes
  <1>1. CASE ~newAck /\ sentMore /\ HopDue(silence)
    <2>1. since' = SinceKept /\ Hop(silence)
      BY <1>1
    <2>2. Numbers'
      BY <1>1, <2>1, HopKeeps, RoamAssumption
      DEF IInv, TypeOK, Numbers, SinceKept, Ages
    <2>3. Flags'
      BY <1>1, <2>1, HopKeeps, Zenon DEF IInv, TypeOK, Flags
    <2>4. SinceAfterHop'
      BY <1>1, <2>1, HopKeeps, RoamAssumption
      DEF IInv, TypeOK, SinceAfterHop, SinceKept, HopDue, Ages
    <2>5. SinceAfterAck' /\ TroubleIsCurrent'
      BY <1>1, <2>1, HopKeeps, RoamAssumption
      DEF IInv, TypeOK, SinceAfterAck, SinceKept, Ages
    <2> QED
      BY <2>2, <2>3, <2>4, <2>5, TypeParts DEF IInv
  <1>2. CASE ~(~newAck /\ sentMore /\ HopDue(silence))
    <2>1. NoHop /\ UNCHANGED trouble
      BY <1>2
    <2>2. Numbers'
      BY <1>2, <2>1, RoamAssumption DEF IInv, TypeOK, Numbers, SinceKept, NoHop, Cleared, Ages
    <2>3. Flags'
      BY <1>2, <2>1, Zenon DEF IInv, TypeOK, Flags, NoHop
    <2>4. SinceAfterHop'
      BY <1>2, <2>1, RoamAssumption
      DEF IInv, TypeOK, SinceAfterHop, SinceKept, Cleared, NoHop, Ages
    <2>5. SinceAfterAck' /\ TroubleIsCurrent'
      BY <1>2, <2>1, RoamAssumption
      DEF IInv, TypeOK, SinceAfterAck, TroubleIsCurrent, SinceKept, Cleared, NoHop, Ages
    <2> QED
      BY <2>2, <2>3, <2>4, <2>5, TypeParts DEF IInv
  <1> QED
    BY <1>1, <1>2

\* A complaint of the socket preserves the invariant.
LEMMA SocketTroubleIInv ==
    ASSUME IInv, NEW silence \in Silences, SocketTrouble(silence)
    PROVE  IInv'
  <1> USE DEF SocketTrouble, Wakes
  <1>1. CASE Hop(silence)
    BY <1>1, HopKeeps, RoamAssumption DEF IInv, TypeOK, SinceAfterHop, SinceAfterAck, Ages
  <1>2. CASE NoHop /\ trouble' = FALSE /\ UNCHANGED backoff
    <2>1. Numbers' /\ SinceAfterHop' /\ SinceAfterAck'
      BY <1>2 DEF IInv, TypeOK, Numbers, SinceAfterHop, SinceAfterAck, NoHop
    <2>2. Flags' /\ TroubleIsCurrent'
      BY <1>2, Zenon DEF IInv, TypeOK, Flags, TroubleIsCurrent, NoHop
    <2> QED
      BY <2>1, <2>2, TypeParts DEF IInv
  <1> QED
    BY <1>1, <1>2

\* A change of the network preserves the invariant.
LEMMA NetworkChangedIInv ==
    ASSUME IInv, NEW silence \in Silences, NEW broken \in BOOLEAN,
           NetworkChanged(silence, broken)
    PROVE  IInv'
  <1> USE DEF NetworkChanged, Wakes
  <1>0. monitor' \in BOOLEAN
    BY Zenon
  <1>1. CASE Hop(silence)
    <2>1. Numbers' /\ SinceAfterHop' /\ SinceAfterAck'
      BY <1>1, HopKeeps, RoamAssumption
      DEF IInv, TypeOK, Numbers, SinceAfterHop, SinceAfterAck, Ages
    <2>2. Flags' /\ TroubleIsCurrent'
      BY <1>0, <1>1, HopKeeps, Zenon DEF IInv, TypeOK, Flags
    <2> QED
      BY <2>1, <2>2, TypeParts DEF IInv
  <1>2. CASE NoHop /\ UNCHANGED <<trouble, backoff>>
    BY <1>0, <1>2 DEF IInv, TypeOK, SinceAfterHop, SinceAfterAck, TroubleIsCurrent, NoHop
  <1> QED
    BY <1>1, <1>2

\* Time passing preserves the invariant.
LEMMA TockIInv == IInv /\ Tock => IInv'
  <1> SUFFICES ASSUME IInv, Tock PROVE IInv'
    OBVIOUS
  <1>1. TypeOK'
    BY OlderAge DEF IInv, TypeOK, Tock, netVars
  <1>2. SinceAfterHop'
    BY OlderAge, OlderMonotone DEF IInv, TypeOK, Tock, SinceAfterHop
  <1>3. SinceAfterAck'
    BY OlderAge, OlderMonotone DEF IInv, TypeOK, Tock, SinceAfterAck
  <1> QED
    BY <1>1, <1>2, <1>3 DEF IInv, Tock, netVars, TroubleIsCurrent

\* What the rest of the system does.
LEMMA EnvironmentIInv ==
    ASSUME IInv,
           \/ Return \/ Send \/ AckArrives \/ PathHeals \/ RouteChanges \/ ConnEnds
           \/ \E moves \in BOOLEAN : PathBreaks(moves)
    PROVE  IInv'
  <1> USE DEF IInv, TypeOK, SinceAfterHop, SinceAfterAck, TroubleIsCurrent, watchVars, taskVars
  <1>1. CASE Return
    <2>1. Numbers' /\ SinceAfterHop' /\ SinceAfterAck'
      BY <1>1 DEF Return, Numbers, netVars
    <2>2. Flags' /\ TroubleIsCurrent'
      BY <1>1, Zenon DEF Return, Flags, netVars
    <2> QED
      BY <2>1, <2>2, TypeParts
  <1>2. CASE Send
    <2>1. Numbers' /\ SinceAfterHop' /\ SinceAfterAck'
      BY <1>2 DEF Send, Numbers
    <2>2. Flags' /\ TroubleIsCurrent'
      BY <1>2, Zenon DEF Send, Complains, Flags
    <2> QED
      BY <2>1, <2>2, TypeParts
  <1>3. CASE AckArrives
    BY <1>3, RoamAssumption DEF AckArrives, Ages
  <1>4. CASE PathHeals
    BY <1>4 DEF PathHeals
  <1>5. CASE RouteChanges
    <2>1. Numbers' /\ SinceAfterHop' /\ SinceAfterAck'
      BY <1>5 DEF RouteChanges, Numbers
    <2>2. Flags' /\ TroubleIsCurrent'
      BY <1>5, Zenon DEF RouteChanges, Flags
    <2> QED
      BY <2>1, <2>2, TypeParts
  <1>6. CASE ConnEnds
    <2>1. Numbers' /\ SinceAfterHop' /\ SinceAfterAck'
      BY <1>6 DEF ConnEnds, Numbers
    <2>2. Flags' /\ TroubleIsCurrent'
      BY <1>6, Zenon DEF ConnEnds, Flags
    <2> QED
      BY <2>1, <2>2, TypeParts
  <1>7. CASE \E moves \in BOOLEAN : PathBreaks(moves)
    <2> PICK moves \in BOOLEAN : PathBreaks(moves)
      BY <1>7
    <2>1. Numbers' /\ SinceAfterHop' /\ SinceAfterAck'
      BY DEF PathBreaks, Numbers
    <2>2. source' \in BOOLEAN /\ changed' \in BOOLEAN
      BY Zenon DEF PathBreaks
    <2>3. Flags' /\ TroubleIsCurrent'
      BY <2>2 DEF PathBreaks, Flags
    <2> QED
      BY <2>1, <2>3, TypeParts
  <1> QED
    BY <1>1, <1>2, <1>3, <1>4, <1>5, <1>6, <1>7

\* The invariant is inductive.
THEOREM Inductive == Spec => []IInv
  <1>1. IInv /\ [Next]_vars => IInv'
    <2> SUFFICES ASSUME IInv, [Next]_vars PROVE IInv'
      OBVIOUS
    <2>1. CASE UNCHANGED vars
      BY <2>1 DEF vars, watchVars, taskVars, netVars, IInv, TypeOK, SinceAfterHop, SinceAfterAck,
                  TroubleIsCurrent
    <2>2. CASE Next
      BY <2>2, TickIInv, SocketTroubleIInv, NetworkChangedIInv, TockIInv, EnvironmentIInv
      DEF Next, Watch
    <2> QED
      BY <2>1, <2>2
  <1> QED
    BY InitIInv, <1>1, PTL DEF Spec

\* Type correctness, and with it the range of the backoff.
THEOREM TypeCorrect == Spec => []TypeOK
  BY Inductive, PTL DEF IInv

\* Complaints of earlier sockets are never acted on.
THEOREM TroubleIsCurrentHolds == Spec => []TroubleIsCurrent
  BY Inductive, PTL DEF IInv

\* Only the event handlers hop, and what each has checked when it does.
LEMMA HopStep ==
    ASSUME IInv, Next, flip' # flip
    PROVE  \/ event' = "Tick" /\ ~newAck /\ \E silence \in Silences : HopDue(silence)
           \/ event' \in {"SocketTrouble", "NetworkChanged"} /\ MayHopNow
  BY DEF Next, Watch, Tick, SocketTrouble, NetworkChanged, Wakes, NoHop, Return, Tock, Send,
         AckArrives, PathHeals, RouteChanges, ConnEnds, PathBreaks

\* Hops are MIN_HOP_INTERVAL apart, those because of silence MIN_SILENCE.
THEOREM HopsSpacedHolds == Spec => HopsSpaced
  <1>1. IInv /\ [Next]_vars => [Spaced]_vars
    <2> SUFFICES ASSUME IInv, Next, flip' # flip, hop # None
                 PROVE  hop >= (IF event' = "Tick" THEN MinSilence ELSE MinHopInterval)
      BY DEF Spaced
    <2>1. CASE event' = "Tick" /\ ~newAck /\ \E silence \in Silences : HopDue(silence)
      BY <2>1, RoamAssumption
      DEF IInv, TypeOK, SinceAfterHop, HopDue, SinceKept, Ages
    <2>2. CASE event' \in {"SocketTrouble", "NetworkChanged"} /\ MayHopNow
      BY <2>2 DEF MayHopNow
    <2> QED
      BY <2>1, <2>2, HopStep
  <1> QED
    BY Inductive, <1>1, PTL DEF Spec, HopsSpaced

\* A hop because of silence means that no ACK arrived for MIN_SILENCE.
THEOREM HopMeansSilenceHolds == Spec => HopMeansSilence
  <1>1. IInv /\ [Next]_vars => [Silent]_vars
    <2> SUFFICES ASSUME IInv, Next, flip' # flip, event' = "Tick"
                 PROVE  quiet >= MinSilence
      BY DEF Silent
    <2>1. ~newAck /\ \E silence \in Silences : HopDue(silence)
      BY HopStep
    <2> QED
      BY <2>1, RoamAssumption DEF IInv, TypeOK, SinceAfterAck, HopDue, SinceKept, Ages
  <1> QED
    BY Inductive, <1>1, PTL DEF Spec, HopMeansSilence

-----------------------------------------------------------------------------
(* connect_any.                                                           *)

\* The variables that connecting decides by keep their shape.
ConnectTypeOK ==
    /\ phase \in {"idle", "resolving", "running", "connected", "failed", "timedout"}
    /\ attempt \in Seq({"going", "up", "down", "joined"})
    /\ lastErr \in BOOLEAN

\* An attempt that was answered stays so, and none is joined without its error
\* being kept.
AnswersKept ==
    /\ \A i \in answered : i \in 1..Len(attempt) /\ attempt[i] = "up"
    /\ \A i \in 1..Len(attempt) : attempt[i] = "joined" => lastErr
    /\ phase \in {"idle", "resolving"} => attempt = <<>>

ConnectInv == ConnectTypeOK /\ AnswersKept /\ NoAnswerHidden

\* An attempt is started behind the others.
LEMMA Started ==
    ASSUME ConnectTypeOK, AnswersKept, attempt' = Append(attempt, "going"), phase' = "running",
           UNCHANGED <<lastErr, answered>>
    PROVE  ConnectInv'
  <1>1. /\ attempt' \in Seq({"going", "up", "down", "joined"})
        /\ Len(attempt) \in Nat /\ Len(attempt') = Len(attempt) + 1
        /\ attempt'[Len(attempt) + 1] = "going"
        /\ \A i \in 1..Len(attempt) : attempt'[i] = attempt[i]
    BY DEF ConnectTypeOK
  <1>2. ConnectTypeOK'
    BY <1>1 DEF ConnectTypeOK
  <1>3. AnswersKept'
    BY <1>1 DEF AnswersKept
  <1> QED
    BY <1>2, <1>3 DEF ConnectInv, NoAnswerHidden

\* An attempt changes its state, others do not.
LEMMA Moved ==
    ASSUME ConnectTypeOK, AnswersKept, phase = "running", phase' = "running",
           NEW i \in 1..Len(attempt), attempt[i] # "up", NEW v \in {"up", "down", "joined"},
           attempt' = [attempt EXCEPT ![i] = v],
           lastErr' \in BOOLEAN, lastErr => lastErr', v = "joined" => lastErr',
           answered' = IF v = "up" THEN answered \cup {i} ELSE answered
    PROVE  ConnectInv'
  <1>1. /\ attempt' \in Seq({"going", "up", "down", "joined"})
        /\ Len(attempt) \in Nat /\ Len(attempt') = Len(attempt)
        /\ \A j \in 1..Len(attempt) : attempt'[j] = IF j = i THEN v ELSE attempt[j]
    BY DEF ConnectTypeOK
  <1>2. ConnectTypeOK'
    BY <1>1 DEF ConnectTypeOK
  <1>3. AnswersKept'
    BY <1>1 DEF AnswersKept
  <1> QED
    BY <1>2, <1>3 DEF ConnectInv, NoAnswerHidden

\* The invariant of connect_any.
THEOREM ConnectInvariance == ConnectSpec => []ConnectInv
  <1>1. ConnectInit => ConnectInv
    <2> SUFFICES ASSUME ConnectInit PROVE ConnectInv
      OBVIOUS
    <2>1. ConnectTypeOK
      <3>1. <<>> \in Seq({"going", "up", "down", "joined"})
        OBVIOUS
      <3>2. FALSE \in BOOLEAN
        OBVIOUS
      <3> QED
        BY <3>1, <3>2, Zenon DEF ConnectInit, ConnectTypeOK
    <2>3. NoAnswerHidden
      BY DEF ConnectInit, NoAnswerHidden
    <2>2. AnswersKept
      BY Len(<<>>) = 0 DEF ConnectInit, AnswersKept
    <2> QED
      BY <2>1, <2>2, <2>3 DEF ConnectInv
  <1>2. ConnectInv /\ [ConnectNext]_connectVars => ConnectInv'
    <2> SUFFICES ASSUME ConnectInv, [ConnectNext]_connectVars PROVE ConnectInv'
      OBVIOUS
    <2>1. CASE UNCHANGED connectVars \/ ConnectAny
      BY <2>1 DEF ConnectAny, connectVars, ConnectInv, ConnectTypeOK, AnswersKept, NoAnswerHidden
    <2>2. ASSUME NEW addrs \in Resolutions, Resolve(addrs) PROVE ConnectInv'
      <3>1. CASE addrs = <<>>
        BY <2>2, <3>1 DEF Resolve, ConnectInv, ConnectTypeOK, AnswersKept, NoAnswerHidden
      <3>2. CASE addrs # <<>>
        BY <2>2, <3>2, Started DEF Resolve, ConnectInv
      <3> QED
        BY <3>1, <3>2
    <2>3. ASSUME NEW i \in DOMAIN attempt, AttemptEnds(i) PROVE ConnectInv'
      <3>1. i \in 1..Len(attempt)
        BY <2>3 DEF ConnectInv, ConnectTypeOK
      <3>2. CASE attempt' = [attempt EXCEPT ![i] = "up"] /\ answered' = answered \cup {i}
        BY <2>3, <3>1, <3>2, Moved DEF AttemptEnds, ConnectInv, ConnectTypeOK
      <3>3. CASE attempt' = [attempt EXCEPT ![i] = "down"] /\ UNCHANGED answered
        BY <2>3, <3>1, <3>3, Moved DEF AttemptEnds, ConnectInv, ConnectTypeOK
      <3> QED
        BY <2>3, <3>2, <3>3 DEF AttemptEnds
    <2>4. ASSUME NEW i \in DOMAIN attempt, Join(i) PROVE ConnectInv'
      <3>1. i \in 1..Len(attempt)
        BY <2>4 DEF ConnectInv, ConnectTypeOK
      <3>2. CASE attempt[i] = "up"
        BY <2>4, <3>2 DEF Join, ConnectInv, ConnectTypeOK, AnswersKept, NoAnswerHidden
      <3>3. CASE attempt[i] = "down"
        BY <2>4, <3>1, <3>3, Moved DEF Join, ConnectInv
      <3> QED
        BY <2>4, <3>2, <3>3 DEF Join
    <2>5. CASE Stagger \/ StartIdle
      BY <2>5, Started DEF Stagger, StartIdle, StartNext, ConnectInv
    <2>6. CASE Exhausted
      <3>1. \A i \in 1..Len(attempt) : attempt[i] = "joined"
        BY <2>6 DEF Exhausted, Going, ConnectInv, ConnectTypeOK
      <3>2. answered = {}
        BY <3>1 DEF ConnectInv, AnswersKept
      <3>3. attempt # <<>> => lastErr
        BY <3>1 DEF ConnectInv, ConnectTypeOK, AnswersKept
      <3> QED
        BY <2>6, <3>1, <3>2, <3>3 DEF Exhausted, ConnectInv, ConnectTypeOK, AnswersKept, NoAnswerHidden
    <2>7. CASE Timeout
      BY <2>7 DEF Timeout, ConnectInv, ConnectTypeOK, AnswersKept, NoAnswerHidden
    <2> QED
      BY <2>1, <2>2, <2>3, <2>4, <2>5, <2>6, <2>7 DEF ConnectNext
  <1> QED
    BY <1>1, <1>2, PTL DEF ConnectSpec

\* connect_any gives up only when every attempt has failed and none was answered,
\* whichever addresses there are and in whichever order timers and results come.
THEOREM AnswersFound == ConnectSpec => []NoAnswerHidden
  <1>1. ConnectInv => NoAnswerHidden
    BY DEF ConnectInv
  <1> QED
    BY <1>1, ConnectInvariance, PTL

=============================================================================
