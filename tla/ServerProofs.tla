---------------------------- MODULE ServerProofs ----------------------------
(***************************************************************************)
(* The limits of the server hold for any number of clients and any limits: *)
(* permits are conserved, and listeners stay within their connection's     *)
(* bound and lifetime.                                                     *)
(***************************************************************************)
EXTENDS Server, FiniteSetTheorems, TLAPS

\* A listener was counted, and counting stops at the limit.
ListenersCounted ==
    \A c \in Conns : listening[c] <= forwards[c] /\ forwards[c] <= MaxForwards

\* The serve loop, and what it awaits, run only for authenticated peers.
ServedAuthed == \A c \in Conns : task[c] \in {"serve", "copy", "session"} => c \in authed

\* A listener needs a task of the server that may have started it.
ListenersServed ==
    \A c \in Conns :
        listening[c] > 0 => AllowForwarding /\ task[c] \in {"serve", "copy", "session"}

\* A connection that is not admitted yet has no task.
Fresh == \A c \in Conns : conn[c] \in {"none", "incoming"} => task[c] = "none"

Inner == TypeOK /\ SlotsConserved /\ ListenersCounted /\ ServedAuthed /\ ListenersServed
IInv == Inner /\ Fresh

\* The holders are a finite set, counted by a natural number.
LEMMA HoldersFinite ==
    ASSUME TypeOK
    PROVE  IsFiniteSet(holders) /\ Cardinality(holders) \in Nat
  <1>1. IsFiniteSet(holders)
    BY ServerAssumption, FS_Subset DEF TypeOK
  <1> QED
    BY <1>1, FS_CardinalityType

\* The invariant holds before the first connection.
LEMMA InitInner == Init => Inner
  <1> SUFFICES ASSUME Init PROVE Inner
    OBVIOUS
  <1>1. TypeOK
    BY ServerAssumption DEF Init, TypeOK, ConnStates, TaskStates
  <1>2. SlotsConserved
    BY ServerAssumption, FS_EmptySet DEF Init, SlotsConserved, Alive
  <1>3. ListenersCounted /\ ServedAuthed /\ ListenersServed
    BY ServerAssumption DEF Init, ListenersCounted, ServedAuthed, ListenersServed
  <1> QED
    BY <1>1, <1>2, <1>3 DEF Inner

\* The steps that take no permit and give none back.
StepKeepsSlots ==
    /\ UNCHANGED <<slots, holders>>
    /\ \A c \in Conns : task'[c] \in Alive <=> task[c] \in Alive

\* Such a step keeps the slots and their holders in balance.
LEMMA KeptSlots ==
    ASSUME SlotsConserved, StepKeepsSlots
    PROVE  SlotsConserved'
  BY DEF SlotsConserved, StepKeepsSlots

\* A returning task gives its one permit back, and keeps the rest in order.
LEMMA ReturnInner ==
    ASSUME Inner, NEW c \in Conns, task[c] \in Alive, Return(c), phase' \in {"accepting", "closing", "exited"},
           conn' \in [Conns -> ConnStates], UNCHANGED <<authed, forwards>>,
           follower' \subseteq Conns
    PROVE  Inner'
  <1>1. c \in holders /\ task' = [task EXCEPT ![c] = "ended"]
    BY DEF Inner, SlotsConserved, Return, Goto
  <1>2. Cardinality(holders') = Cardinality(holders) - 1 /\ Cardinality(holders) >= 1
    <2>1. IsFiniteSet(holders \ {c}) /\ Cardinality(holders \ {c}) = Cardinality(holders) - 1
      BY <1>1, HoldersFinite, FS_RemoveElement DEF Inner
    <2> QED
      BY <2>1, HoldersFinite, FS_CardinalityType DEF Inner, Return
  <1>3. slots' + Cardinality(holders') = MaxConnections /\ slots' \in 0..MaxConnections
    BY <1>2, HoldersFinite, ServerAssumption DEF Inner, TypeOK, SlotsConserved, Return, PermitsAfter
  <1>4. holders' = {d \in Conns : task'[d] \in Alive}
    BY <1>1 DEF Inner, TypeOK, SlotsConserved, Return, Alive
  <1>5. TypeOK'
    BY <1>1, <1>3 DEF Inner, TypeOK, Return, ListenersAborted, TaskStates
  <1>6. ListenersCounted' /\ ServedAuthed' /\ ListenersServed'
    BY <1>1 DEF Inner, TypeOK, ListenersCounted, ServedAuthed, ListenersServed, Return, ListenersAborted
  <1> QED
    BY <1>3, <1>4, <1>5, <1>6 DEF Inner, SlotsConserved

\* Admission takes one permit.
LEMMA AcceptInner ==
    ASSUME Inner, NEW c \in Conns, Accept(c), task[c] = "none"
    PROVE  Inner'
  <1>1. CASE slots = 0
    BY <1>1 DEF Accept, Inner, TypeOK, SlotsConserved, ListenersCounted, ServedAuthed, ListenersServed,
                ConnStates, streamVars
  <1>2. CASE slots > 0
    <2>1. /\ slots' = slots - 1 /\ holders' = holders \cup {c}
          /\ task' = [task EXCEPT ![c] = "handshake"]
          /\ conn' = [conn EXCEPT ![c] = "handshake"]
          /\ UNCHANGED <<phase, authed, forwards, listening, follower>>
      BY <1>2 DEF Accept, Goto, streamVars, Inner, TypeOK
    <2>2. Cardinality(holders') = Cardinality(holders) + 1
      <3>1. c \notin holders
        BY DEF Inner, SlotsConserved, Alive
      <3> QED
        BY <2>1, <3>1, HoldersFinite, FS_AddElement DEF Inner
    <2>3. slots' + Cardinality(holders') = MaxConnections /\ slots' \in 0..MaxConnections
      BY <1>2, <2>1, <2>2, HoldersFinite, ServerAssumption DEF Inner, TypeOK, SlotsConserved
    <2>4. holders' = {d \in Conns : task'[d] \in Alive}
      BY <2>1 DEF Inner, TypeOK, SlotsConserved, Alive
    <2>5. TypeOK'
      BY <2>1, <2>3 DEF Inner, TypeOK, TaskStates, ConnStates
    <2>6. ListenersCounted' /\ ServedAuthed' /\ ListenersServed'
      BY <2>1 DEF Inner, TypeOK, ListenersCounted, ServedAuthed, ListenersServed
    <2> QED
      BY <2>3, <2>4, <2>5, <2>6 DEF Inner, SlotsConserved
  <1> QED
    BY <1>1, <1>2 DEF Inner, TypeOK

\* The process exits: nothing is left of it.
LEMMA ExitInner ==
    ASSUME Inner, Exit
    PROVE  Inner'
  <1>1. TypeOK'
    BY ServerAssumption DEF Inner, TypeOK, Exit, TaskStates
  <1>2. SlotsConserved'
    <2>1. Cardinality(holders') = 0
      BY FS_EmptySet DEF Exit
    <2>2. \A c \in Conns : task'[c] \notin Alive
      BY DEF Exit, Alive
    <2> QED
      BY <2>1, <2>2, ServerAssumption DEF Exit, SlotsConserved
  <1>3. ListenersCounted' /\ ServedAuthed' /\ ListenersServed'
    BY DEF Inner, TypeOK, ListenersCounted, ServedAuthed, ListenersServed, Exit
  <1> QED
    BY <1>1, <1>2, <1>3 DEF Inner

\* Every other step keeps the permits where they are.
LEMMA KeepsInner ==
    ASSUME Inner, NEW c \in Conns,
           \/ Connect(c) \/ ConnLost(c) \/ Authenticate(c) \/ OpenSession(c) \/ FileCopy(c)
           \/ CopyEnds(c) \/ FollowerEnds(c) \/ ListenerEnds(c) \/ Shutdown
           \/ \E loopback, low, bound \in BOOLEAN : OpenRemoteForward(c, loopback, low, bound)
    PROVE  Inner'
  <1> USE DEF Inner, TypeOK, streamVars
  <1>1. StepKeepsSlots
    BY DEF StepKeepsSlots, Connect, ConnLost, Authenticate, OpenSession, FileCopy, CopyEnds,
           FollowerEnds, ListenerEnds, Shutdown, OpenRemoteForward, Goto, Alive
  <1>2. SlotsConserved'
    BY <1>1, KeptSlots
  <1>3. TypeOK'
    <2>1. CASE Connect(c) \/ ConnLost(c) \/ Shutdown
      BY <2>1 DEF Connect, ConnLost, Shutdown, ConnStates
    <2>2. CASE Authenticate(c) \/ OpenSession(c) \/ FileCopy(c) \/ CopyEnds(c)
      BY <2>2 DEF Authenticate, OpenSession, FileCopy, CopyEnds, Goto, ConnStates, TaskStates
    <2>3. CASE FollowerEnds(c)
      BY <2>3 DEF FollowerEnds
    <2>4. CASE ListenerEnds(c)
      BY <2>4 DEF ListenerEnds
    <2>5. CASE \E loopback, low, bound \in BOOLEAN : OpenRemoteForward(c, loopback, low, bound)
      BY <2>5 DEF OpenRemoteForward
    <2> QED
      BY <2>1, <2>2, <2>3, <2>4, <2>5
  <1>4. ListenersCounted' /\ ServedAuthed' /\ ListenersServed'
    <2> USE DEF ListenersCounted, ServedAuthed, ListenersServed
    <2>1. CASE Connect(c) \/ ConnLost(c) \/ Shutdown
      BY <2>1 DEF Connect, ConnLost, Shutdown
    <2>2. CASE Authenticate(c) \/ OpenSession(c) \/ FileCopy(c) \/ CopyEnds(c)
      BY <2>2 DEF Authenticate, OpenSession, FileCopy, CopyEnds, Goto
    <2>3. CASE FollowerEnds(c)
      BY <2>3 DEF FollowerEnds
    <2>4. CASE ListenerEnds(c)
      BY <2>4 DEF ListenerEnds
    <2>5. CASE \E loopback, low, bound \in BOOLEAN : OpenRemoteForward(c, loopback, low, bound)
      BY <2>5, ServerAssumption DEF OpenRemoteForward, UnderLimit
    <2> QED
      BY <2>1, <2>2, <2>3, <2>4, <2>5
  <1> QED
    BY <1>2, <1>3, <1>4

\* Admission is the only way from no task to a task.
LEMMA FreshKept ==
    ASSUME IInv, Next
    PROVE  Fresh'
  <1> USE DEF IInv, Inner, TypeOK, Fresh, Goto, Return
  <1>1. CASE Shutdown \/ Exit
    BY <1>1 DEF Shutdown, Exit
  <1>2. ASSUME NEW c \in Conns, Connect(c) \/ ConnLost(c) \/ Serve(c)
        PROVE  Fresh'
    <2>1. CASE Connect(c) \/ ConnLost(c) \/ Accept(c)
      BY <2>1 DEF Connect, ConnLost, Accept
    <2>2. CASE HandshakeFails(c) \/ Authenticate(c) \/ ServeFails(c) \/ SessionEnds(c)
      BY <2>2 DEF HandshakeFails, Authenticate, ServeFails, SessionEnds
    <2>3. CASE OpenSession(c) \/ FileCopy(c) \/ CopyEnds(c)
      BY <2>3 DEF OpenSession, FileCopy, CopyEnds
    <2>4. CASE FollowerEnds(c) \/ ListenerEnds(c)
      BY <2>4 DEF FollowerEnds, ListenerEnds
    <2>5. CASE \E loopback, low, bound \in BOOLEAN : OpenRemoteForward(c, loopback, low, bound)
      BY <2>5 DEF OpenRemoteForward
    <2> QED
      BY <1>2, <2>1, <2>2, <2>3, <2>4, <2>5 DEF Serve
  <1> QED
    BY <1>1, <1>2 DEF Next

\* The invariant is inductive.
THEOREM Inductive == Spec => []IInv
  <1>1. Init => IInv
    BY InitInner DEF Init, IInv, Fresh
  <1>2. IInv /\ [Next]_vars => IInv'
    <2> SUFFICES ASSUME IInv, [Next]_vars PROVE IInv'
      OBVIOUS
    <2>1. CASE UNCHANGED vars
      BY <2>1 DEF vars, IInv, Inner, TypeOK, SlotsConserved, ListenersCounted, ServedAuthed,
                  ListenersServed, Fresh
    <2>2. CASE Next
      <3>1. Inner'
        <4>1. CASE Exit
          BY <4>1, ExitInner DEF IInv
        <4>2. CASE Shutdown
          <5>1. CASE Conns = {}
            BY <4>2, <5>1 DEF Shutdown, IInv, Inner, TypeOK, SlotsConserved, ListenersCounted,
                              ServedAuthed, ListenersServed, streamVars
          <5>2. CASE Conns # {}
            BY <4>2, <5>2, KeepsInner DEF IInv
          <5> QED
            BY <5>1, <5>2
        <4>3. ASSUME NEW c \in Conns, HandshakeFails(c) \/ ServeFails(c) \/ SessionEnds(c)
              PROVE  Inner'
          <5>1. task[c] \in Alive /\ Return(c) /\ UNCHANGED <<phase, authed, forwards, follower>>
            BY <4>3 DEF HandshakeFails, ServeFails, SessionEnds, Alive
          <5>2. conn' \in [Conns -> ConnStates]
            BY <4>3 DEF HandshakeFails, ServeFails, SessionEnds, IInv, Inner, TypeOK, ConnStates
          <5> QED
            BY <5>1, <5>2, ReturnInner DEF IInv, Inner, TypeOK
        <4>4. ASSUME NEW c \in Conns, Accept(c) PROVE Inner'
          BY <4>4, AcceptInner DEF IInv, Fresh, Accept
        <4> QED
          BY <2>2, <4>1, <4>2, <4>3, <4>4, KeepsInner DEF Next, Serve, IInv
      <3> QED
        BY <2>2, <3>1, FreshKept DEF IInv
    <2> QED
      BY <2>1, <2>2
  <1> QED
    BY <1>1, <1>2, PTL DEF Spec

\* Type correctness; in particular permits are never overdrawn or invented.
THEOREM TypeCorrect == Spec => []TypeOK
  BY Inductive, PTL DEF IInv, Inner

\* Permits are conserved along every way out of a connection's task.
THEOREM SlotsConservedHolds == Spec => []SlotsConserved
  BY Inductive, PTL DEF IInv, Inner

\* The server never serves more than max_connections connections at a time.
THEOREM ServedBoundedHolds == Spec => []ServedBounded
  <1>1. IInv => ServedBounded
    BY HoldersFinite, ServerAssumption DEF IInv, Inner, TypeOK, SlotsConserved, ServedBounded
  <1> QED
    BY Inductive, <1>1, PTL

\* Listeners belong to authenticated, served connections and are few.
THEOREM ListenersBoundedHolds == Spec => []ListenersBounded
  <1>1. IInv => ListenersBounded
    BY ServerAssumption DEF IInv, Inner, TypeOK, ListenersCounted, ServedAuthed, ListenersServed,
                            ListenersBounded, Alive
  <1> QED
    BY Inductive, <1>1, PTL

\* Permits and listeners together: a connection costs what the limits say.
THEOREM CapacityKeptHolds == Spec => []CapacityKept
  BY SlotsConservedHolds, ListenersBoundedHolds, PTL DEF CapacityKept

=============================================================================
