-------------------------- MODULE ForwardingProofs --------------------------
(***************************************************************************)
(* The permits of forwarded streams are conserved for any number of peers, *)
(* listeners and permits; and agent forwarding gives every program its own *)
(* answers, for any number of programs and requests.                       *)
(***************************************************************************)
EXTENDS Forwarding, AgentForward, FiniteSetTheorems, SequenceTheorems, TLAPS

\* Every variable of the server's forwarding keeps its shape.
TypeOK ==
    /\ up \in BOOLEAN /\ serving \in BOOLEAN
    /\ peer \in [Peers -> {"none", "pending", "open", "rejected", "closed"}]
    /\ via \in [Peers -> Kinds]
    /\ running \in [Peers -> SUBSET Directions]
    /\ slots \in Nat /\ streams \in Nat
    /\ waiting \in Seq(Listeners) /\ ready \subseteq Listeners /\ ended \subseteq Listeners

\* A listener waits in one place, and not while it has a permit: a permit that
\* is given out is never one too many in `ready`.
WaitsOnce ==
    /\ \A i, j \in 1..Len(waiting) : waiting[i] = waiting[j] => i = j
    /\ \A i \in 1..Len(waiting) : waiting[i] \notin ready

IInv == TypeOK /\ WaitsOnce /\ PermitsConserved

-----------------------------------------------------------------------------
(* Counting bridges and listeners.                                        *)

\* Bridges and idle listeners are finite in number.
LEMMA BridgesFinite ==
    ASSUME NEW kinds
    PROVE  IsFiniteSet(Open(kinds)) /\ Cardinality(Open(kinds)) \in Nat
  BY ForwardingAssumption, FS_Subset, FS_CardinalityType, Open(kinds) \subseteq Peers DEF Open

\* So are the listeners that have a permit.
LEMMA ReadyFinite ==
    ASSUME TypeOK
    PROVE  IsFiniteSet(ready) /\ Cardinality(ready) \in Nat
  BY ForwardingAssumption, FS_Subset, FS_CardinalityType DEF TypeOK

\* Their numbers are natural numbers.
LEMMA Counted ==
    ASSUME TypeOK
    PROVE  /\ Cardinality(Open({"local", "agent"})) \in Nat
           /\ Cardinality(Open(Listeners)) \in Nat /\ Cardinality(ready) \in Nat
  BY BridgesFinite, ReadyFinite

\* A bridge that starts is one more of its kind and none of another.
LEMMA BridgeStarts ==
    ASSUME TypeOK, NEW x \in Peers, peer[x] # "open", Starts(x), via' = via, NEW kinds
    PROVE  /\ via[x] \in kinds => Cardinality(Open(kinds)') = Cardinality(Open(kinds)) + 1
           /\ via[x] \notin kinds => Open(kinds)' = Open(kinds)
  <1>1. CASE via[x] \in kinds
    <2>1. Open(kinds)' = Open(kinds) \cup {x} /\ x \notin Open(kinds)
      BY <1>1 DEF Open, Starts, TypeOK
    <2> QED
      BY <1>1, <2>1, BridgesFinite, FS_AddElement
  <1>2. CASE via[x] \notin kinds
    BY <1>2 DEF Open, Starts, TypeOK
  <1> QED
    BY <1>1, <1>2

\* One that ends is one less.
LEMMA BridgeEnds ==
    ASSUME TypeOK, NEW x \in Peers, peer[x] = "open", via' = via,
           peer' = [peer EXCEPT ![x] = "closed"], NEW kinds
    PROVE  /\ via[x] \in kinds => Cardinality(Open(kinds)') = Cardinality(Open(kinds)) - 1
           /\ via[x] \notin kinds => Open(kinds)' = Open(kinds)
  <1>1. CASE via[x] \in kinds
    <2>1. Open(kinds)' = Open(kinds) \ {x} /\ x \in Open(kinds)
      BY <1>1 DEF Open, TypeOK
    <2> QED
      BY <1>1, <2>1, BridgesFinite, FS_RemoveElement
  <1>2. CASE via[x] \notin kinds
    BY <1>2 DEF Open, TypeOK
  <1> QED
    BY <1>1, <1>2

\* A peer that is not bridged before or after counts nowhere.
LEMMA NoBridge ==
    ASSUME TypeOK, NEW x \in Peers, peer[x] # "open", NEW v, v # "open",
           peer' = [peer EXCEPT ![x] = v], via' = via, NEW kinds
    PROVE  Open(kinds)' = Open(kinds)
  BY DEF Open, TypeOK

\* The permits of listeners that end go back, with those who held one.
LEMMA ListenersGone ==
    ASSUME TypeOK, NEW gone \in SUBSET Listeners, ListenersEnd(gone)
    PROVE  /\ streams' + Cardinality(ready') = streams + Cardinality(ready)
           /\ streams' \in Nat /\ ready' \subseteq ready /\ ended' \subseteq Listeners
  <1>1. IsFiniteSet(ready) /\ Cardinality(ready) \in Nat
    BY ReadyFinite
  <1>2. Cardinality(ready \ gone) = Cardinality(ready) - Cardinality(ready \cap gone)
    BY <1>1, FS_Difference
  <1>3. Cardinality(ready \cap gone) \in Nat /\ Cardinality(ready \ gone) \in Nat
    BY <1>1, FS_Subset, FS_CardinalityType, ready \cap gone \subseteq ready, ready \ gone \subseteq ready
  <1> QED
    BY <1>1, <1>2, <1>3 DEF ListenersEnd, StreamsAfterListeners, TypeOK

-----------------------------------------------------------------------------

\* What is left of a sequence without its i-th element.
LEMMA DroppedOne ==
    ASSUME NEW S, NEW w \in Seq(S), NEW i \in 1..Len(w)
    PROVE  LET v == SubSeq(w, 1, i - 1) \o SubSeq(w, i + 1, Len(w))
           IN  /\ Len(w) \in Nat /\ v \in Seq(S) /\ Len(v) = Len(w) - 1
               /\ \A k \in 1..Len(v) : v[k] = IF k < i THEN w[k] ELSE w[k + 1]
  <1> DEFINE a == SubSeq(w, 1, i - 1)
             b == SubSeq(w, i + 1, Len(w))
  <1>1. Len(w) \in Nat /\ i \in Nat
    OBVIOUS
  <1>2. /\ a \in Seq(S) /\ Len(a) = i - 1
        /\ \A k \in 1..(i - 1) : a[k] = w[k]
    BY <1>1, SubSeqProperties
  <1>3. /\ b \in Seq(S) /\ Len(b) = Len(w) - i
        /\ \A k \in 1..(Len(w) - i) : b[k] = w[i + k]
    BY <1>1, SubSeqProperties
  <1>4. /\ a \o b \in Seq(S) /\ Len(a \o b) = Len(a) + Len(b)
        /\ \A k \in 1..(Len(a) + Len(b)) :
             (a \o b)[k] = IF k <= Len(a) THEN a[k] ELSE b[k - Len(a)]
    BY <1>2, <1>3, ConcatProperties
  <1> HIDE DEF a, b
  <1>5. ASSUME NEW k \in 1..Len(a \o b)
        PROVE  (a \o b)[k] = IF k < i THEN w[k] ELSE w[k + 1]
    <2>1. CASE k < i
      BY <1>1, <1>2, <1>3, <1>4, <2>1
    <2>2. CASE k >= i
      <3>1. k - (i - 1) \in 1..(Len(w) - i) /\ i + (k - (i - 1)) = k + 1
        BY <1>1, <1>2, <1>3, <1>4, <2>2
      <3>2. (a \o b)[k] = b[k - (i - 1)]
        BY <1>1, <1>2, <1>3, <1>4, <2>2
      <3>3. b[k - (i - 1)] = w[i + (k - (i - 1))]
        BY <1>3, <3>1
      <3>4. ~(k < i)
        BY <1>1, <2>2
      <3> QED
        BY <3>1, <3>2, <3>3, <3>4
    <2> QED
      BY <1>1, <1>2, <1>3, <1>4, <2>1, <2>2
  <1>6. /\ Len(w) \in Nat /\ a \o b \in Seq(S) /\ Len(a \o b) = Len(w) - 1
        /\ \A k \in 1..Len(a \o b) : (a \o b)[k] = IF k < i THEN w[k] ELSE w[k + 1]
    BY <1>1, <1>2, <1>3, <1>4, <1>5
  <1> QED
    BY <1>6, Zenon DEF a, b

\* As many places as listeners, and every listener in one: none is in two.
LEMMA OrdersOnce ==
    ASSUME NEW w \in Orders
    PROVE  /\ w \in Seq(Listeners)
           /\ \A i, j \in 1..Len(w) : w[i] = w[j] => i = j
  <1> DEFINE n == Cardinality(Listeners)
  <1>1. n \in Nat /\ w \in [1..n -> Listeners]
    BY ForwardingAssumption, FS_CardinalityType DEF Orders
  <1>2. w \in Surjection(1..n, Listeners)
    BY <1>1 DEF Orders, Surjection
  <1>3. IsFiniteSet(1..n) /\ Cardinality(1..n) = n
    BY <1>1, FS_Interval
  <1>4. w \in Injection(1..n, Listeners)
    BY <1>2, <1>3, FS_SurjSameCardinalityImpliesInj
  <1> QED
    BY <1>1, <1>4 DEF Injection, IsInjective

\* The invariant holds before the first peer.
LEMMA InitIInv == Init => IInv
  <1> SUFFICES ASSUME Init PROVE IInv
    OBVIOUS
  <1>1. TypeOK
    BY ForwardingAssumption, OrdersOnce DEF Init, TypeOK, Kinds
  <1>2. WaitsOnce
    BY OrdersOnce DEF Init, WaitsOnce
  <1>3. Open({"local", "agent"}) = {} /\ Open(Listeners) = {}
    BY DEF Init, Open
  <1>4. PermitsConserved
    BY <1>3, FS_EmptySet, ForwardingAssumption DEF Init, PermitsConserved
  <1> QED
    BY <1>1, <1>2, <1>4 DEF IInv

\* Peers that connect, are accepted or turned away by try_acquire_owned.
LEMMA PeerSteps ==
    ASSUME IInv, NEW x \in Peers, Connect(x) \/ TryAccept(x)
    PROVE  IInv'
  <1> USE DEF listenerVars
  <1>1. CASE Connect(x)
    <2>1. TypeOK' /\ WaitsOnce'
      BY <1>1 DEF Connect, IInv, TypeOK, WaitsOnce
    <2>2. Open({"local", "agent"})' = Open({"local", "agent"}) /\ Open(Listeners)' = Open(Listeners)
      BY <1>1, NoBridge DEF Connect, IInv
    <2> QED
      BY <1>1, <2>1, <2>2 DEF Connect, IInv, PermitsConserved
  <1>2. CASE TryAccept(x) /\ slots > 0
    <2>1. TypeOK' /\ WaitsOnce'
      BY <1>2 DEF TryAccept, Starts, SlotsAfterTry, IInv, TypeOK, WaitsOnce, Directions
    <2>2. /\ Cardinality(Open({"local", "agent"})') = Cardinality(Open({"local", "agent"})) + 1
          /\ Open(Listeners)' = Open(Listeners)
      BY <1>2, BridgeStarts, ForwardingAssumption DEF TryAccept, IInv
    <2>3. slots \in Nat /\ slots' = slots - 1 /\ UNCHANGED <<streams, ready>>
      BY <1>2 DEF TryAccept, SlotsAfterTry, IInv, TypeOK
    <2>4. PermitsConserved'
      BY <2>2, <2>3, Counted DEF IInv, PermitsConserved
    <2> QED
      BY <2>1, <2>4 DEF IInv
  <1>3. CASE TryAccept(x) /\ slots = 0
    <2>1. TypeOK' /\ WaitsOnce'
      BY <1>3 DEF TryAccept, IInv, TypeOK, WaitsOnce
    <2>2. Open({"local", "agent"})' = Open({"local", "agent"}) /\ Open(Listeners)' = Open(Listeners)
      BY <1>3, NoBridge DEF TryAccept, IInv
    <2> QED
      BY <1>3, <2>1, <2>2 DEF TryAccept, IInv, PermitsConserved
  <1> QED
    BY <1>1, <1>2, <1>3 DEF IInv, TypeOK

\* The first listener in the queue takes a permit.
LEMMA AcquireStep ==
    ASSUME IInv, Acquire
    PROVE  IInv'
  <1>1. /\ Head(waiting) \in Listeners /\ Head(waiting) = waiting[1] /\ Len(waiting) \in Nat
        /\ Len(waiting) > 0 /\ waiting' \in Seq(Listeners)
        /\ Len(waiting') = Len(waiting) - 1
        /\ \A i \in 1..Len(waiting') : waiting'[i] = waiting[i + 1]
    BY DEF Acquire, IInv, TypeOK
  <1>2. TypeOK'
    BY <1>1 DEF Acquire, IInv, TypeOK
  <1>3. WaitsOnce'
    BY <1>1 DEF Acquire, IInv, WaitsOnce
  <1>4. Cardinality(ready') = Cardinality(ready) + 1
    <2>1. Head(waiting) \notin ready
      BY <1>1 DEF IInv, WaitsOnce
    <2> QED
      BY <2>1, ReadyFinite, FS_AddElement DEF Acquire, IInv
  <1>5. Open({"local", "agent"})' = Open({"local", "agent"}) /\ Open(Listeners)' = Open(Listeners)
    BY DEF Acquire, Open
  <1>6. PermitsConserved'
    <2>1. Cardinality(Open(Listeners)) \in Nat /\ Cardinality(ready) \in Nat
      BY Counted DEF IInv
    <2>2. slots' = slots /\ streams' = streams - 1 /\ streams \in Nat
      BY DEF Acquire, IInv, TypeOK
    <2> QED
      BY <1>4, <1>5, <2>1, <2>2 DEF IInv, PermitsConserved
  <1> QED
    BY <1>2, <1>3, <1>6 DEF IInv

\* The permit of a listener moves to the bridge of the peer it accepts.
LEMMA ListenerAcceptStep ==
    ASSUME IInv, NEW l \in Listeners, NEW x \in Peers, ListenerAccept(l, x)
    PROVE  IInv'
  <1>1. /\ waiting' \in Seq(Listeners) /\ Len(waiting) \in Nat /\ Len(waiting') = Len(waiting) + 1
        /\ waiting'[Len(waiting) + 1] = l
        /\ \A i \in 1..Len(waiting) : waiting'[i] = waiting[i]
    BY DEF ListenerAccept, NextRound, IInv, TypeOK
  <1>2. TypeOK'
    BY <1>1 DEF ListenerAccept, Starts, Directions, IInv, TypeOK
  <1>3. WaitsOnce'
    BY <1>1 DEF ListenerAccept, IInv, WaitsOnce
  <1>4. Cardinality(ready') = Cardinality(ready) - 1
    BY ReadyFinite, FS_RemoveElement DEF ListenerAccept, IInv
  <1>5. /\ Open({"local", "agent"})' = Open({"local", "agent"})
        /\ Cardinality(Open(Listeners)') = Cardinality(Open(Listeners)) + 1
    BY BridgeStarts, ForwardingAssumption DEF ListenerAccept, IInv
  <1>6. PermitsConserved'
    <2>1. Cardinality(Open(Listeners)) \in Nat /\ Cardinality(ready) \in Nat
      BY Counted DEF IInv
    <2>2. slots' = slots /\ streams' = streams
      BY DEF ListenerAccept
    <2> QED
      BY <1>4, <1>5, <2>1, <2>2 DEF IInv, TypeOK, PermitsConserved
  <1> QED
    BY <1>2, <1>3, <1>6 DEF IInv

\* A listener that returns, alone or with the session, gives up its place.
LEMMA ListenersStep ==
    ASSUME IInv, SessionEnds \/ \E l \in Listeners : ListenerReturns(l)
    PROVE  IInv'
  <1>1. /\ peer' = peer /\ via' = via /\ running' = running /\ slots' = slots
        /\ up' = up /\ serving' \in BOOLEAN
    BY DEF SessionEnds, ListenerReturns, IInv, TypeOK
  <1>2. PICK gone \in SUBSET Listeners : ListenersEnd(gone)
    BY DEF SessionEnds, ListenerReturns
  <1>3. /\ streams' + Cardinality(ready') = streams + Cardinality(ready)
        /\ streams' \in Nat /\ ready' \subseteq ready /\ ended' \subseteq Listeners
    BY <1>2, ListenersGone DEF IInv
  <1>4. waiting' \in Seq(Listeners) /\ WaitsOnce'
    <2>1. CASE waiting' = <<>>
      BY <2>1 DEF WaitsOnce
    <2>2. CASE waiting' = waiting
      BY <1>3, <2>2 DEF IInv, TypeOK, WaitsOnce
    <2>3. CASE \E i \in DOMAIN waiting : waiting' = WaitingWithout(i)
      <3>1. PICK i \in 1..Len(waiting) : waiting' = WaitingWithout(i)
        BY <2>3 DEF IInv, TypeOK
      <3>2. /\ Len(waiting) \in Nat /\ waiting' \in Seq(Listeners) /\ Len(waiting') = Len(waiting) - 1
            /\ \A k \in 1..Len(waiting') : waiting'[k] = IF k < i THEN waiting[k] ELSE waiting[k + 1]
        BY <3>1, DroppedOne DEF WaitingWithout, IInv, TypeOK
      <3>3. ASSUME NEW k \in 1..Len(waiting')
            PROVE  \E m \in 1..Len(waiting) : m = (IF k < i THEN k ELSE k + 1) /\ waiting'[k] = waiting[m]
        BY <3>1, <3>2
      <3>4. WaitsOnce'
        <4>1. ASSUME NEW k \in 1..Len(waiting') PROVE waiting'[k] \notin ready'
          BY <1>3, <3>3 DEF IInv, WaitsOnce
        <4>2. ASSUME NEW k \in 1..Len(waiting'), NEW n \in 1..Len(waiting'), waiting'[k] = waiting'[n]
              PROVE  k = n
          <5>1. (IF k < i THEN k ELSE k + 1) = (IF n < i THEN n ELSE n + 1)
            BY <3>3, <4>2 DEF IInv, WaitsOnce
          <5> QED
            BY <3>1, <3>2, <5>1
        <4> QED
          BY <4>1, <4>2 DEF WaitsOnce
      <3> QED
        BY <3>2, <3>4
    <2> QED
      BY <2>1, <2>2, <2>3 DEF SessionEnds, ListenerReturns
  <1>5. TypeOK'
    BY <1>1, <1>3, <1>4 DEF IInv, TypeOK
  <1>6. Open({"local", "agent"})' = Open({"local", "agent"}) /\ Open(Listeners)' = Open(Listeners)
    BY <1>1 DEF Open
  <1> QED
    BY <1>1, <1>3, <1>4, <1>5, <1>6, Counted DEF IInv, TypeOK, PermitsConserved

\* The permit of a bridge goes back with the last of its directions.
LEMMA DirectionStep ==
    ASSUME IInv, NEW x \in Peers, NEW d \in Directions, DirectionEnds(x, d)
    PROVE  IInv'
  <1> USE DEF listenerVars
  <1>1. TypeOK' /\ WaitsOnce'
    BY DEF DirectionEnds, LastDirection, IInv, TypeOK, WaitsOnce
  <1>2. CASE ~LastDirection(x, d)
    <2>1. Open({"local", "agent"})' = Open({"local", "agent"}) /\ Open(Listeners)' = Open(Listeners)
      BY <1>2 DEF DirectionEnds, Open
    <2> QED
      BY <1>1, <1>2, <2>1 DEF DirectionEnds, IInv, PermitsConserved
  <1>3. CASE LastDirection(x, d) /\ via[x] \in Listeners
    <2>1. /\ Open({"local", "agent"})' = Open({"local", "agent"})
          /\ Cardinality(Open(Listeners)') = Cardinality(Open(Listeners)) - 1
      BY <1>3, BridgeEnds, ForwardingAssumption DEF DirectionEnds, IInv
    <2> QED
      BY <1>1, <1>3, <2>1, Counted DEF DirectionEnds, IInv, TypeOK, PermitsConserved
  <1>4. CASE LastDirection(x, d) /\ via[x] \notin Listeners
    <2>1. via[x] \in {"local", "agent"}
      BY <1>4 DEF IInv, TypeOK, Kinds
    <2>2. /\ Cardinality(Open({"local", "agent"})') = Cardinality(Open({"local", "agent"})) - 1
          /\ Open(Listeners)' = Open(Listeners)
      BY <1>4, <2>1, BridgeEnds DEF DirectionEnds, IInv
    <2>3. slots \in Nat /\ slots' = slots + 1 /\ UNCHANGED <<streams, ready>>
      BY <1>4 DEF DirectionEnds, IInv, TypeOK
    <2>4. PermitsConserved'
      BY <2>2, <2>3, Counted DEF IInv, PermitsConserved
    <2> QED
      BY <1>1, <2>4 DEF IInv
  <1> QED
    BY <1>2, <1>3, <1>4

-----------------------------------------------------------------------------

\* The invariant that carries the conservation of permits.
THEOREM Invariance == Spec => []IInv
  <1>1. IInv /\ [Next]_vars => IInv'
    <2> SUFFICES ASSUME IInv, [Next]_vars PROVE IInv'
      OBVIOUS
    <2>1. CASE UNCHANGED vars
      BY <2>1 DEF IInv, TypeOK, WaitsOnce, PermitsConserved, Open, vars
    <2>2. CASE ConnLost
      BY <2>2 DEF ConnLost, listenerVars, IInv, TypeOK, WaitsOnce, PermitsConserved, Open
    <2> QED
      BY <2>1, <2>2, PeerSteps, AcquireStep, ListenerAcceptStep, ListenersStep, DirectionStep
      DEF Next, Accepts
  <1> QED
    BY <1>1, InitIInv, PTL DEF Spec

\* No permit of forward_slots or remote_forward_streams is lost or invented,
\* through rejections, errors, aborted listeners and lost connections.
THEOREM PermitsSafe == Spec => []PermitsConserved
  <1>1. IInv => PermitsConserved
    BY DEF IInv
  <1> QED
    BY <1>1, Invariance, PTL

-----------------------------------------------------------------------------
(* Agent forwarding.                                                      *)

Messages ==
    {<<"bind">>, <<"success">>, <<"failure">>, <<"invalid">>}
        \cup {<<what, n>> : what \in {"ask", "answer"}, n \in Nat}
Unbound == {"none", "pending", "opening", "stream", "connected"}

\* The variables of agent forwarding keep their shape.
AgentTypeOK ==
    /\ bindable \in BOOLEAN /\ signed \in BOOLEAN /\ dir \in BOOLEAN
    /\ socket \in {"none", "making", "listening", "refused", "dropped"}
    /\ link \in [Programs -> Unbound \cup {"binding", "bridged", "closed"}]
    /\ asked \in [Programs -> Nat]
    /\ transit \in [Programs -> Seq(Messages)] /\ toAgent \in [Programs -> Seq(Messages)]
    /\ replies \in [Programs -> Seq(Messages)] /\ seen \in [Programs -> Seq(Messages)]
    /\ got \in [Programs -> Seq(Messages)]

\* How many messages of a program are where.
Received(p) == Len(got[p])
Answering(p) == Len(replies[p])
Asking(p) == Len(toAgent[p])
Sending(p) == Len(transit[p])

\* s is numbered on from n.
Numbered(s, what, n) == \A i \in 1..Len(s) : s[i] = <<what, n + i>>

\* Before a connection is bridged its requests wait, and nothing but the binding
\* was said to the agent.
Waits(p) ==
    /\ link[p] \in Unbound \cup {"binding"} =>
        Numbered(transit[p], "ask", 0) /\ asked[p] = Sending(p) /\ got[p] = <<>>
    /\ link[p] \in Unbound => toAgent[p] = <<>> /\ replies[p] = <<>> /\ seen[p] = <<>>
    /\ link[p] = "connected" => Bind
    /\ link[p] = "binding" =>
        /\ Bind
        /\ \/ toAgent[p] = <<<<"bind">>>> /\ replies[p] = <<>> /\ seen[p] = <<>>
           \/ toAgent[p] = <<>> /\ Len(replies[p]) = 1 /\ seen[p] # <<>>

\* Then requests and replies are numbered through from the program to the agent
\* and back.
Flows(p) ==
    link[p] = "bridged" =>
        /\ Numbered(replies[p], "answer", Received(p))
        /\ Numbered(toAgent[p], "ask", Received(p) + Answering(p))
        /\ Numbered(transit[p], "ask", Received(p) + Answering(p) + Asking(p))
        /\ asked[p] = Received(p) + Answering(p) + Asking(p) + Sending(p)
        /\ Bind => seen[p] # <<>>

\* What the program got and what the agent saw first.
Ends(p) ==
    /\ Numbered(got[p], "answer", 0)
    /\ Bind /\ seen[p] # <<>> => Head(seen[p]) = <<"bind">>

LinkOK(p) == Waits(p) /\ Flows(p) /\ Ends(p)

AgentInv == AgentTypeOK /\ SocketRemoved /\ \A p \in Programs : LinkOK(p)
-----------------------------------------------------------------------------
(* Sequences that are numbered through.                                   *)

\* The next message goes to the end.
LEMMA NumberedAppend ==
    ASSUME NEW s \in Seq(Messages), NEW what, NEW n \in Nat, Numbered(s, what, n),
           NEW m, m = <<what, n + Len(s) + 1>>
    PROVE  Numbered(Append(s, m), what, n)
  <1>1. /\ Len(s) \in Nat /\ Len(Append(s, m)) = Len(s) + 1
        /\ \A i \in 1..Len(s) : Append(s, m)[i] = s[i]
        /\ Append(s, m)[Len(s) + 1] = m
    BY AppendProperties
  <1> SUFFICES ASSUME NEW i \in 1..Len(Append(s, m)) PROVE Append(s, m)[i] = <<what, n + i>>
    BY DEF Numbered
  <1>2. CASE i \in 1..Len(s)
    BY <1>1, <1>2 DEF Numbered
  <1>3. CASE i = Len(s) + 1
    <2>1. n + i = n + Len(s) + 1
      BY <1>1, <1>3
    <2> QED
      BY <1>1, <1>3, <2>1
  <1> QED
    BY <1>1, <1>2, <1>3

\* The first message is taken from the front.
LEMMA NumberedTail ==
    ASSUME NEW s \in Seq(Messages), NEW what, NEW n \in Nat, Numbered(s, what, n), s # <<>>
    PROVE  /\ Head(s) = <<what, n + 1>> /\ Numbered(Tail(s), what, n + 1)
           /\ Len(Tail(s)) = Len(s) - 1 /\ Len(s) \in Nat \ {0} /\ Tail(s) \in Seq(Messages)
  <1>1. /\ Len(s) \in Nat \ {0} /\ Head(s) = s[1] /\ Tail(s) \in Seq(Messages)
        /\ Len(Tail(s)) = Len(s) - 1
        /\ \A i \in 1..Len(Tail(s)) : Tail(s)[i] = s[i + 1]
    OBVIOUS
  <1>2. Head(s) = <<what, n + 1>>
    BY <1>1 DEF Numbered
  <1>3. ASSUME NEW i \in 1..Len(Tail(s)) PROVE Tail(s)[i] = <<what, n + 1 + i>>
    <2>1. Tail(s)[i] = s[i + 1] /\ i + 1 \in 1..Len(s)
      BY <1>1, <1>3
    <2> QED
      BY <2>1, n + (i + 1) = n + 1 + i DEF Numbered
  <1> QED
    BY <1>1, <1>2, <1>3 DEF Numbered

\* How many there are is a natural number.
LEMMA Counts ==
    ASSUME AgentTypeOK, NEW p \in Programs
    PROVE  Received(p) \in Nat /\ Answering(p) \in Nat /\ Asking(p) \in Nat /\ Sending(p) \in Nat
  BY DEF AgentTypeOK, Received, Answering, Asking, Sending

\* No messages are numbered from anywhere.
LEMMA NumberedEmpty ==
    ASSUME NEW what, NEW n PROVE Numbered(<<>>, what, n)
  BY Len(<<>>) = 0 DEF Numbered

\* A request is not a binding.
LEMMA AskNotBind ==
    ASSUME NEW n PROVE <<"ask", n>> # <<"bind">> /\ <<"ask", n>>[2] = n
  <1>1. <<"ask", n>>[1] # <<"bind">>[1]
    OBVIOUS
  <1> QED
    BY <1>1

-----------------------------------------------------------------------------
(* Steps.                                                                 *)

\* A program is left alone.
Same(q) ==
    /\ link'[q] = link[q] /\ asked'[q] = asked[q] /\ transit'[q] = transit[q]
    /\ toAgent'[q] = toAgent[q] /\ replies'[q] = replies[q] /\ seen'[q] = seen[q] /\ got'[q] = got[q]

\* Its connection stays in order.
LEMMA LeftAlone ==
    ASSUME NEW q, LinkOK(q), Same(q), UNCHANGED <<bindable, signed>>
    PROVE  LinkOK(q)'
  BY DEF LinkOK, Waits, Flows, Ends, Same, Bind, Received, Answering, Asking, Sending

\* A step of one program's connection.
LEMMA OneLink ==
    ASSUME AgentInv, NEW p \in Programs, AgentTypeOK', UNCHANGED setupVars, LinkOK(p)',
           \A q \in Programs \ {p} : Same(q)
    PROVE  AgentInv'
  <1>1. \A q \in Programs : LinkOK(q)'
    BY LeftAlone DEF AgentInv, setupVars
  <1> QED
    BY <1>1 DEF AgentInv, SocketRemoved, setupVars

\* A connection moves on without being bridged, or it closes.
LEMMA LinkMoves ==
    ASSUME AgentInv, NEW p \in Programs, NEW to,
           \/ link[p] \in Unbound /\ to \in Unbound /\ (to = "connected" => Bind)
           \/ to = "closed",
           link' = [link EXCEPT ![p] = to], UNCHANGED <<setupVars, flowVars>>
    PROVE  AgentInv'
  <1> USE DEF setupVars, flowVars
  <1>1. AgentTypeOK'
    BY DEF AgentInv, AgentTypeOK, Unbound
  <1>2. link'[p] = to
    BY DEF AgentInv, AgentTypeOK
  <1>3. LinkOK(p)
    BY DEF AgentInv
  <1>4. LinkOK(p)'
    BY <1>2, <1>3 DEF LinkOK, Waits, Flows, Ends, Unbound, Bind, Received, Answering, Asking, Sending
  <1>5. \A q \in Programs \ {p} : Same(q)
    BY DEF Same, AgentInv, AgentTypeOK
  <1> QED
    BY <1>1, <1>4, <1>5, OneLink

\* A connection that is bridged with nothing on its way but what waited.
LEMMA EmptyFlows ==
    ASSUME AgentInv, NEW p \in Programs, UNCHANGED <<asked, transit>>,
           got'[p] = <<>>, replies'[p] = <<>>, toAgent'[p] = <<>>,
           Numbered(transit[p], "ask", 0), asked[p] = Sending(p),
           Bind' => seen'[p] # <<>> /\ Head(seen'[p]) = <<"bind">>
    PROVE  Flows(p)' /\ Ends(p)'
  <1>1. Received(p)' = 0 /\ Answering(p)' = 0 /\ Asking(p)' = 0 /\ Sending(p)' = Sending(p)
    BY Len(<<>>) = 0 DEF Received, Answering, Asking, Sending
  <1>2. Sending(p) \in Nat
    BY Counts DEF AgentInv
  <1>3. 0 + 0 + 0 + Sending(p) = Sending(p) /\ 0 + 0 + 0 = 0 /\ 0 + 0 = 0
    BY <1>2
  <1> QED
    BY <1>1, <1>3, NumberedEmpty, Zenon DEF Flows, Ends

\* The client connects to the agent.
LEMMA ConnectAgentStep ==
    ASSUME AgentInv, NEW p \in Programs, ConnectAgent(p)
    PROVE  AgentInv'
  <1> USE DEF setupVars, flowVars
  <1>1. CASE Bind
    BY <1>1, LinkMoves DEF ConnectAgent, Moves, Unbound
  <1>2. CASE ~Bind
    <2>1. AgentTypeOK'
      BY <1>2 DEF ConnectAgent, Moves, AgentInv, AgentTypeOK
    <2>2. link[p] = "stream" /\ link'[p] = "bridged" /\ ~Bind'
      BY <1>2 DEF ConnectAgent, Moves, AgentInv, AgentTypeOK, Bind
    <2>3. /\ Numbered(transit[p], "ask", 0) /\ asked[p] = Sending(p) /\ got[p] = <<>>
          /\ toAgent[p] = <<>> /\ replies[p] = <<>> /\ seen[p] = <<>>
      BY <2>2 DEF AgentInv, LinkOK, Waits, Unbound
    <2>4. LinkOK(p)'
      BY <2>2, <2>3, EmptyFlows DEF ConnectAgent, LinkOK, Waits, Unbound
    <2>5. \A q \in Programs \ {p} : Same(q)
      BY DEF ConnectAgent, Moves, Same, AgentInv, AgentTypeOK
    <2> QED
      BY <2>1, <2>4, <2>5, OneLink DEF ConnectAgent
  <1> QED
    BY <1>1, <1>2

\* bind_agent_connection writes its request.
LEMMA SendBindStep ==
    ASSUME AgentInv, NEW p \in Programs, SendBind(p)
    PROVE  AgentInv'
  <1>1. /\ link[p] = "connected" /\ link'[p] = "binding" /\ toAgent'[p] = Append(toAgent[p], <<"bind">>)
        /\ UNCHANGED <<setupVars, asked, transit, replies, seen, got>>
    BY DEF SendBind, Moves, AgentInv, AgentTypeOK
  <1>2. AgentTypeOK'
    BY DEF SendBind, Moves, setupVars, AgentInv, AgentTypeOK, Messages
  <1>3. Waits(p) /\ Ends(p)
    BY DEF AgentInv, LinkOK
  <1>4. toAgent[p] = <<>> /\ toAgent'[p] = <<<<"bind">>>>
    <2>1. toAgent[p] = <<>>
      BY <1>1, <1>3 DEF Waits, Unbound
    <2>2. Append(<<>>, <<"bind">>) = <<<<"bind">>>>
      OBVIOUS
    <2> QED
      BY <1>1, <2>1, <2>2
  <1>5. LinkOK(p)'
    BY <1>1, <1>3, <1>4 DEF LinkOK, Waits, Flows, Ends, Unbound, Bind, setupVars, Sending
  <1>6. \A q \in Programs \ {p} : Same(q)
    BY <1>1 DEF SendBind, Moves, Same, AgentInv, AgentTypeOK
  <1> QED
    BY <1>1, <1>2, <1>5, <1>6, OneLink

\* It reads the reply, which is the only one there is, and the bridge starts.
LEMMA ReadBindStep ==
    ASSUME AgentInv, NEW p \in Programs, ReadBindReply(p)
    PROVE  AgentInv'
  <1>1. /\ link[p] = "binding" /\ link'[p] \in {"bridged", "closed"} /\ replies[p] # <<>>
        /\ replies'[p] = Tail(replies[p])
        /\ UNCHANGED <<setupVars, asked, transit, toAgent, seen, got>>
    BY DEF ReadBindReply, Moves, AgentInv, AgentTypeOK
  <1>2. AgentTypeOK'
    BY DEF ReadBindReply, Moves, setupVars, AgentInv, AgentTypeOK
  <1>3. Waits(p) /\ Ends(p)
    BY DEF AgentInv, LinkOK
  <1>4. /\ toAgent[p] = <<>> /\ seen[p] # <<>> /\ got[p] = <<>> /\ Len(replies[p]) = 1
        /\ Numbered(transit[p], "ask", 0) /\ asked[p] = Sending(p)
    BY <1>1, <1>3 DEF Waits
  <1>5. replies'[p] = <<>>
    <2>1. replies[p] \in Seq(Messages)
      BY DEF AgentInv, AgentTypeOK
    <2>2. Tail(replies[p]) \in Seq(Messages) /\ Len(Tail(replies[p])) = 0
      BY <1>1, <1>4, <2>1
    <2> QED
      BY <1>1, <2>2, EmptySeq
  <1>6. LinkOK(p)'
    <2>1. Flows(p)' /\ Ends(p)'
      BY <1>1, <1>3, <1>4, <1>5, EmptyFlows DEF Ends, Bind, setupVars
    <2> QED
      BY <1>1, <2>1 DEF LinkOK, Waits, Unbound
  <1>7. \A q \in Programs \ {p} : Same(q)
    BY <1>1 DEF ReadBindReply, Moves, Same, AgentInv, AgentTypeOK
  <1> QED
    BY <1>1, <1>2, <1>6, <1>7, OneLink

\* A program asks.
LEMMA AskStep ==
    ASSUME AgentInv, NEW p \in Programs, Ask(p)
    PROVE  AgentInv'
  <1>1. /\ asked[p] \in Nat /\ asked'[p] = asked[p] + 1 /\ link[p] \notin {"none", "closed"}
        /\ transit'[p] = Append(transit[p], <<"ask", asked[p] + 1>>)
        /\ UNCHANGED <<setupVars, link, toAgent, replies, seen, got>>
    BY DEF Ask, AgentInv, AgentTypeOK
  <1>2. AgentTypeOK'
    BY <1>1 DEF Ask, setupVars, AgentInv, AgentTypeOK, Messages
  <1>3. Waits(p) /\ Flows(p) /\ Ends(p)
    BY DEF AgentInv, LinkOK
  <1>4. /\ transit[p] \in Seq(Messages) /\ Sending(p)' = Sending(p) + 1 /\ Asking(p)' = Asking(p)
        /\ Received(p)' = Received(p) /\ Answering(p)' = Answering(p)
        /\ Sending(p) = Len(transit[p])
    BY <1>1 DEF AgentInv, AgentTypeOK, Received, Answering, Asking, Sending
  <1>c. Received(p) \in Nat /\ Answering(p) \in Nat /\ Asking(p) \in Nat /\ Sending(p) \in Nat
    BY Counts DEF AgentInv
  <1>5. Waits(p)'
    <2> SUFFICES ASSUME link[p] \in Unbound \cup {"binding"} PROVE Waits(p)'
      BY <1>1 DEF Waits, Unbound
    <2>1. Numbered(transit[p], "ask", 0) /\ asked[p] = Sending(p)
      BY <1>3 DEF Waits
    <2>2. asked[p] + 1 = 0 + Len(transit[p]) + 1
      BY <1>4, <1>c, <2>1
    <2>3. Numbered(transit'[p], "ask", 0)
      BY <1>1, <1>4, <2>1, <2>2, NumberedAppend
    <2> QED
      BY <1>1, <1>3, <1>4, <2>1, <2>3 DEF Waits, Bind, setupVars
  <1>6. Flows(p)'
    <2> SUFFICES ASSUME link[p] = "bridged" PROVE Flows(p)'
      BY <1>1 DEF Flows
    <2> DEFINE n == Received(p) + Answering(p) + Asking(p)
    <2>1. n \in Nat /\ n' = n
      BY <1>4, <1>c
    <2>2. asked[p] = n + Sending(p) /\ Numbered(transit[p], "ask", n)
      BY <1>3 DEF Flows
    <2>3. asked[p] + 1 = n + Len(transit[p]) + 1 /\ asked'[p] = n + Sending(p)'
      BY <1>1, <1>4, <1>c, <2>1, <2>2
    <2>4. Numbered(transit'[p], "ask", n)
      <3> HIDE DEF n
      <3> QED
        BY <1>1, <1>4, <2>1, <2>2, <2>3, NumberedAppend
    <2> QED
      BY <1>1, <1>3, <1>4, <2>3, <2>4 DEF Flows, Bind, setupVars
  <1>7. Ends(p)'
    BY <1>1, <1>3 DEF Ends, Bind, setupVars
  <1>8. \A q \in Programs \ {p} : Same(q)
    BY <1>1 DEF Ask, Same, AgentInv, AgentTypeOK
  <1> QED
    BY <1>1, <1>2, <1>5, <1>6, <1>7, <1>8, OneLink DEF LinkOK

\* The bridge carries a request to the agent.
LEMMA BridgeRequestStep ==
    ASSUME AgentInv, NEW p \in Programs, BridgeRequest(p)
    PROVE  AgentInv'
  <1>1. /\ link[p] = "bridged" /\ transit[p] # <<>> /\ transit'[p] = Tail(transit[p])
        /\ toAgent'[p] = Append(toAgent[p], Head(transit[p]))
        /\ UNCHANGED <<setupVars, link, asked, replies, seen, got>>
    BY DEF BridgeRequest, AgentInv, AgentTypeOK
  <1>2. AgentTypeOK'
    BY <1>1 DEF BridgeRequest, setupVars, AgentInv, AgentTypeOK
  <1>3. Flows(p) /\ Ends(p)
    BY DEF AgentInv, LinkOK
  <1> DEFINE n == Received(p) + Answering(p)
             m == n + Asking(p)
  <1>c. Received(p) \in Nat /\ Answering(p) \in Nat /\ Asking(p) \in Nat /\ Sending(p) \in Nat
    BY Counts DEF AgentInv
  <1>4. /\ transit[p] \in Seq(Messages) /\ toAgent[p] \in Seq(Messages)
        /\ Sending(p)' = Sending(p) - 1 /\ Asking(p)' = Asking(p) + 1 /\ Asking(p) = Len(toAgent[p])
        /\ Received(p)' = Received(p) /\ Answering(p)' = Answering(p)
    BY <1>1 DEF AgentInv, AgentTypeOK, Received, Answering, Asking, Sending
  <1>5. /\ Numbered(toAgent[p], "ask", n) /\ Numbered(transit[p], "ask", m)
        /\ asked[p] = m + Sending(p) /\ n \in Nat /\ m \in Nat
    BY <1>1, <1>3, <1>c DEF Flows
  <1>6. Head(transit[p]) = <<"ask", m + 1>> /\ Numbered(transit'[p], "ask", m + 1)
    <2> HIDE DEF m, n
    <2> QED
      BY <1>1, <1>4, <1>5, NumberedTail
  <1>7. Numbered(toAgent'[p], "ask", n)
    <2>1. Head(transit[p]) = <<"ask", n + Len(toAgent[p]) + 1>>
      BY <1>4, <1>6
    <2> HIDE DEF m, n
    <2> QED
      BY <1>1, <1>4, <1>5, <2>1, NumberedAppend
  <1>8. LinkOK(p)'
    <2>1. n' = n /\ n + Asking(p)' = m + 1 /\ m + Sending(p) = m + 1 + Sending(p)'
      <3>1. /\ Sending(p)' = Sending(p) - 1 /\ Asking(p)' = Asking(p) + 1
            /\ Received(p)' = Received(p) /\ Answering(p)' = Answering(p)
        BY <1>4
      <3> QED
        BY <3>1, <1>c
    <2>2. Flows(p)'
      BY <1>1, <1>3, <1>4, <1>5, <1>6, <1>7, <2>1 DEF Flows, Bind, setupVars
    <2> QED
      BY <1>1, <1>3, <2>2 DEF LinkOK, Waits, Ends, Unbound, Bind, setupVars
  <1>9. \A q \in Programs \ {p} : Same(q)
    BY <1>1 DEF BridgeRequest, Same, AgentInv, AgentTypeOK
  <1> QED
    BY <1>1, <1>2, <1>8, <1>9, OneLink

\* The bridge carries a reply to the program.
LEMMA BridgeReplyStep ==
    ASSUME AgentInv, NEW p \in Programs, BridgeReply(p)
    PROVE  AgentInv'
  <1>1. /\ link[p] = "bridged" /\ replies[p] # <<>> /\ replies'[p] = Tail(replies[p])
        /\ got'[p] = Append(got[p], Head(replies[p]))
        /\ UNCHANGED <<setupVars, link, asked, transit, toAgent, seen>>
    BY DEF BridgeReply, AgentInv, AgentTypeOK
  <1>2. AgentTypeOK'
    BY <1>1 DEF BridgeReply, setupVars, AgentInv, AgentTypeOK
  <1>3. Flows(p) /\ Ends(p)
    BY DEF AgentInv, LinkOK
  <1> DEFINE n == Received(p)
  <1>c. Received(p) \in Nat /\ Answering(p) \in Nat /\ Asking(p) \in Nat /\ Sending(p) \in Nat
    BY Counts DEF AgentInv
  <1>4. /\ replies[p] \in Seq(Messages) /\ got[p] \in Seq(Messages) /\ Received(p) = Len(got[p])
        /\ Sending(p)' = Sending(p) /\ Asking(p)' = Asking(p)
        /\ Received(p)' = Received(p) + 1 /\ Answering(p)' = Answering(p) - 1
    BY <1>1 DEF AgentInv, AgentTypeOK, Received, Answering, Asking, Sending
  <1>5. Numbered(replies[p], "answer", n) /\ Numbered(got[p], "answer", 0)
    BY <1>1, <1>3 DEF Flows, Ends
  <1>6. Head(replies[p]) = <<"answer", n + 1>> /\ Numbered(replies'[p], "answer", n + 1)
    BY <1>1, <1>4, <1>5, <1>c, NumberedTail
  <1>7. Numbered(got'[p], "answer", 0)
    <2>1. Head(replies[p]) = <<"answer", 0 + Len(got[p]) + 1>>
      BY <1>4, <1>6, <1>c
    <2> QED
      BY <1>1, <1>4, <1>5, <2>1, NumberedAppend
  <1>8. LinkOK(p)'
    <2>1. Received(p)' + Answering(p)' = Received(p) + Answering(p)
      BY <1>4, <1>c
    <2>2. Flows(p)'
      BY <1>1, <1>3, <1>4, <1>6, <2>1 DEF Flows, Bind, setupVars
    <2> QED
      BY <1>1, <1>3, <1>7, <2>2 DEF LinkOK, Waits, Ends, Unbound, Bind, setupVars
  <1>9. \A q \in Programs \ {p} : Same(q)
    BY <1>1 DEF BridgeReply, Same, AgentInv, AgentTypeOK
  <1> QED
    BY <1>1, <1>2, <1>8, <1>9, OneLink

\* The agent answers what it is asked next.
LEMMA AgentRepliesStep ==
    ASSUME AgentInv, NEW p \in Programs, AgentReplies(p)
    PROVE  AgentInv'
  <1> DEFINE what == Head(toAgent[p])
  <1>1. /\ toAgent[p] # <<>> /\ link[p] # "closed" /\ toAgent'[p] = Tail(toAgent[p])
        /\ seen'[p] = Append(seen[p], what)
        /\ UNCHANGED <<setupVars, link, asked, transit, got>>
    BY DEF AgentReplies, AgentInv, AgentTypeOK
  <1>2. PICK r : /\ r \in IF what = <<"bind">> THEN {<<"success">>, <<"failure">>, <<"invalid">>}
                                              ELSE {<<"answer", what[2]>>}
                 /\ replies' = [replies EXCEPT ![p] = Append(@, r)]
    BY DEF AgentReplies
  <1>3. LinkOK(p) /\ Waits(p) /\ Flows(p) /\ Ends(p) /\ Bind' = Bind
    BY <1>1 DEF AgentInv, LinkOK, Bind, setupVars
  <1>4. \A q \in Programs \ {p} : Same(q)
    BY <1>1, <1>2 DEF AgentReplies, Same, AgentInv, AgentTypeOK
  <1>5. /\ toAgent[p] \in Seq(Messages) /\ replies[p] \in Seq(Messages) /\ seen[p] \in Seq(Messages)
        /\ what \in Messages /\ replies'[p] = Append(replies[p], r)
        /\ toAgent' = [toAgent EXCEPT ![p] = Tail(@)] /\ seen' = [seen EXCEPT ![p] = Append(@, what)]
    BY <1>1, <1>2 DEF AgentReplies, AgentInv, AgentTypeOK
  <1>6. seen'[p] # <<>> /\ (seen[p] # <<>> => Head(seen'[p]) = Head(seen[p]))
                        /\ (seen[p] = <<>> => Head(seen'[p]) = what)
    BY <1>1, <1>5
  <1>7. CASE link[p] = "binding"
    <2>1. toAgent[p] = <<<<"bind">>>> /\ replies[p] = <<>> /\ seen[p] = <<>> /\ what = <<"bind">>
      BY <1>1, <1>3, <1>7 DEF Waits
    <2>2. r \in Messages /\ toAgent'[p] = <<>> /\ Len(replies'[p]) = 1
      BY <1>1, <1>2, <1>5, <2>1 DEF Messages
    <2>3. AgentTypeOK'
      BY <1>1, <1>2, <1>5, <2>2 DEF setupVars, AgentInv, AgentTypeOK
    <2>4. LinkOK(p)'
      BY <1>1, <1>3, <1>6, <1>7, <2>1, <2>2 DEF LinkOK, Waits, Flows, Ends, Unbound, Sending
    <2> QED
      BY <1>1, <1>4, <2>3, <2>4, OneLink
  <1>8. CASE link[p] = "bridged"
    <2> DEFINE n == Received(p)
               m == n + Answering(p)
    <2>1. n \in Nat /\ Answering(p) \in Nat /\ Asking(p) \in Nat /\ Sending(p) \in Nat /\ m \in Nat
      BY Counts DEF AgentInv
    <2>2. Numbered(replies[p], "answer", n) /\ Numbered(toAgent[p], "ask", m)
      BY <1>3, <1>8 DEF Flows
    <2>3. what = <<"ask", m + 1>> /\ Numbered(toAgent'[p], "ask", m + 1)
      <3> HIDE DEF m
      <3> QED
        BY <1>1, <1>5, <2>1, <2>2, NumberedTail
    <2>4. r = <<"answer", m + 1>> /\ r \in Messages
      <3> HIDE DEF m, what
      <3>1. what # <<"bind">> /\ what[2] = m + 1
        BY <2>3, AskNotBind
      <3> QED
        BY <1>2, <2>1, <3>1 DEF Messages
    <2>5. /\ Received(p)' = n /\ Answering(p)' = Answering(p) + 1 /\ Asking(p)' = Asking(p) - 1
          /\ Sending(p)' = Sending(p) /\ Answering(p) = Len(replies[p])
      <3> HIDE DEF m, what
      <3> QED
        BY <1>1, <1>5, <2>4 DEF Received, Answering, Asking, Sending
    <2>6. Numbered(replies'[p], "answer", n)
      <3>1. r = <<"answer", n + Len(replies[p]) + 1>>
        BY <2>4, <2>5
      <3> HIDE DEF n
      <3> QED
        BY <1>5, <2>1, <2>2, <3>1, NumberedAppend
    <2>7. AgentTypeOK'
      BY <1>1, <1>2, <1>5, <2>4 DEF setupVars, AgentInv, AgentTypeOK
    <2>8. Flows(p)'
      <3>1. Received(p)' + Answering(p)' = m + 1 /\ m + 1 + Asking(p)' = m + Asking(p)
        <4>1. Received(p)' = n /\ Answering(p)' = Answering(p) + 1 /\ Asking(p)' = Asking(p) - 1
          BY <2>5
        <4> QED
          BY <2>1, <4>1
      <3> QED
        BY <1>1, <1>3, <1>6, <1>8, <2>3, <2>5, <2>6, <3>1 DEF Flows
    <2>9. LinkOK(p)'
      BY <1>1, <1>3, <1>6, <1>8, <2>8 DEF LinkOK, Waits, Flows, Ends, Unbound
    <2> QED
      BY <1>1, <1>4, <2>7, <2>9, OneLink
  <1>9. link[p] \in {"binding", "bridged"}
    BY <1>1, <1>3 DEF Waits, AgentInv, AgentTypeOK
  <1> QED
    BY <1>7, <1>8, <1>9

\* The server's socket comes and goes.
LEMMA SocketSteps ==
    ASSUME AgentInv, CreateDir \/ BindSocket \/ DropAgentGuard
    PROVE  AgentInv'
  <1> USE DEF flowVars
  <1>1. AgentTypeOK' /\ SocketRemoved'
    <2>1. CASE CreateDir
      <3>1. CASE socket' = "making" /\ dir' = TRUE
        BY <2>1, <3>1 DEF CreateDir, AgentInv, AgentTypeOK, SocketRemoved
      <3>2. CASE socket' = "refused" /\ UNCHANGED dir
        BY <2>1, <3>2 DEF CreateDir, AgentInv, AgentTypeOK, SocketRemoved
      <3> QED
        BY <2>1, <3>1, <3>2 DEF CreateDir
    <2>2. CASE BindSocket
      BY <2>2 DEF BindSocket, SocketFails, AgentInv, AgentTypeOK, SocketRemoved
    <2>3. CASE DropAgentGuard
      BY <2>3 DEF DropAgentGuard, AgentInv, AgentTypeOK, SocketRemoved
    <2> QED
      BY <2>1, <2>2, <2>3
  <1>2. ASSUME NEW p \in Programs PROVE LinkOK(p)'
    <2>1. link'[p] = link[p] \/ link'[p] = "closed"
      BY DEF CreateDir, BindSocket, DropAgentGuard
    <2>2. LinkOK(p) /\ UNCHANGED <<bindable, signed, flowVars>>
      BY DEF CreateDir, BindSocket, DropAgentGuard, AgentInv
    <2> QED
      BY <2>1, <2>2 DEF LinkOK, Waits, Flows, Ends, Unbound, Bind,
                        Received, Answering, Asking, Sending
  <1> QED
    BY <1>1, <1>2 DEF AgentInv

-----------------------------------------------------------------------------

\* The invariant of agent forwarding.
THEOREM AgentInvariance == AgentSpec => []AgentInv
  <1>1. AgentInit => AgentInv
    <2> SUFFICES ASSUME AgentInit PROVE AgentInv
      OBVIOUS
    <2>1. AgentTypeOK /\ SocketRemoved
      <3>1. <<>> \in Seq(Messages)
        OBVIOUS
      <3>2. ~dir
        BY Zenon DEF AgentInit
      <3>3. dir \in BOOLEAN
        BY Zenon DEF AgentInit
      <3> QED
        BY <3>1, <3>2, <3>3 DEF AgentInit, ForAll, AgentTypeOK, SocketRemoved, Unbound
    <2>2. ASSUME NEW p \in Programs PROVE LinkOK(p)
      BY NumberedEmpty, Len(<<>>) = 0 DEF AgentInit, ForAll, LinkOK, Waits, Flows, Ends, Unbound, Sending
    <2> QED
      BY <2>1, <2>2 DEF AgentInv
  <1>2. AgentInv /\ [AgentNext]_agentVars => AgentInv'
    <2> SUFFICES ASSUME AgentInv, [AgentNext]_agentVars PROVE AgentInv'
      OBVIOUS
    <2>1. CASE UNCHANGED agentVars
      <3>1. AgentTypeOK' /\ SocketRemoved'
        BY <2>1 DEF AgentInv, AgentTypeOK, SocketRemoved, agentVars
      <3>2. \A p \in Programs : LinkOK(p)'
        BY <2>1, LeftAlone DEF AgentInv, Same, agentVars
      <3> QED
        BY <3>1, <3>2 DEF AgentInv
    <2>2. CASE CreateDir \/ BindSocket \/ DropAgentGuard
      BY <2>2, SocketSteps
    <2>3. ASSUME NEW p \in Programs, ProgramConnects(p) \/ AgentAccept(p) \/ OpenAgentStream(p) \/ LinkBreaks(p)
          PROVE  AgentInv'
      BY <2>3, LinkMoves DEF ProgramConnects, AgentAccept, OpenAgentStream, LinkBreaks, Moves, Unbound
    <2> QED
      BY <2>1, <2>2, <2>3, ConnectAgentStep, SendBindStep, ReadBindStep, AskStep, BridgeRequestStep,
         BridgeReplyStep, AgentRepliesStep DEF AgentNext
  <1> QED
    BY <1>1, <1>2, PTL DEF AgentSpec

\* Programs get the replies to their own requests, in order, an agent that can be
\* bound hears of the binding first, and no socket is left on the server's disk.
THEOREM AgentSafe == AgentSpec => []AgentForwarded
  <1>1. AgentInv => AgentForwarded
    <2> SUFFICES ASSUME AgentInv PROVE AgentForwarded
      OBVIOUS
    <2>1. ASSUME NEW p \in Programs, NEW i \in DOMAIN got[p] PROVE got[p][i] = <<"answer", i>>
      <3>1. i \in 1..Len(got[p]) /\ Numbered(got[p], "answer", 0)
        BY <2>1 DEF AgentInv, AgentTypeOK, LinkOK, Ends
      <3> QED
        BY <3>1, 0 + i = i DEF Numbered
    <2>2. BoundFirst
      BY DEF BoundFirst, AgentInv, LinkOK, Ends
    <2> QED
      BY <2>1, <2>2 DEF AgentForwarded, RepliesOwn, AgentInv
  <1> QED
    BY <1>1, AgentInvariance, PTL

=============================================================================
