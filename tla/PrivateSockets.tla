--------------------------- MODULE PrivateSockets ---------------------------
(***************************************************************************)
(* A server endpoint's listening socket and the private sockets connected  *)
(* to its peers: MultiSocket (hush-core/src/fastsock.rs), the drivers of   *)
(* quinn's connections that send through it, the endpoint's receive task,  *)
(* and follow_peer (hush-core/src/server.rs), which adopts a connection's  *)
(* peer and its new address after a migration.                             *)
(*                                                                         *)
(* Sends run on the threads of their drivers, beside the receive task.     *)
(* tokio's reactor, which finds out that sockets are readable or writable, *)
(* needs a worker: it does not run while a driver retries without yielding.*)
(***************************************************************************)
EXTENDS Integers, Sequences, SequencesExt

CONSTANTS Conns, Peers,         \* connections and the addresses of their peers
          MaxEntries,           \* bound: PrivateSockets made
          MaxArrivals,          \* bound: datagrams that arrive
          MaxSends,             \* bound: sends of each connection
          Main, None            \* the listener's name

Ids == 1..MaxEntries

VARIABLES
    peer,               \* [Conns -> Peers]: remote_address
    entry,              \* [Ids -> PrivateSocket]: peer, opened in the kernel,
                        \*   stored in socket, failed, writable (seen by the reactor)
    made,               \* how many were made
    privates,           \* MultiSocket::privates, as ids
    guard, older,       \* [Conns -> follow_peer's guard, and the one it replaces]
    driver, using,      \* [Conns -> where its try_send is, and the entry it found]
    sends,              \* [Conns -> datagrams handed to try_send]
    mainReady,          \* the listener counts as writable
    queue,              \* [socket -> datagrams in its buffer]
    arrivals,
    recv, todo,         \* the receive task, and the privates it still polls
    registered,         \* sockets whose reads wake it
    woken, wakerSet     \* it was woken; recv_waker is set

sockVars == <<peer, entry, made, privates, guard, older, driver, using, sends, mainReady,
              queue, arrivals, recv, todo, registered, woken, wakerSet>>
recvVars == <<recv, todo, registered, wakerSet>>
followVars == <<peer, made, privates, guard, older>>

NewEntry(p) == [peer |-> p, opened |-> FALSE, stored |-> FALSE, failed |-> FALSE, writable |-> FALSE]

SocketsInit ==
    /\ peer \in [Conns -> Peers]
    /\ entry = [i \in Ids |-> NewEntry(None)] /\ made = 0 /\ privates = <<>>
    /\ guard = [c \in Conns |-> None] /\ older = [c \in Conns |-> None]
    /\ driver = [c \in Conns |-> "idle"] /\ using = [c \in Conns |-> None]
    /\ sends = [c \in Conns |-> 0] /\ mainReady = TRUE
    /\ queue = [s \in Ids \cup {Main} |-> 0] /\ arrivals = 0
    /\ recv = "parked" /\ todo = <<>> /\ registered = {} /\ woken = TRUE /\ wakerSet = FALSE

-----------------------------------------------------------------------------
(* follow_peer.                                                           *)

\* adopt of the peer's address at the start, or of its new one after a
\* migration, before the older guard drops.
Adopt(c, p) ==
    /\ (guard[c] = None) = (p = peer[c])
    /\ older[c] = None /\ made < MaxEntries
    /\ peer' = [peer EXCEPT ![c] = p]
    /\ made' = made + 1
    /\ entry' = [entry EXCEPT ![made'] = NewEntry(p)]
    /\ privates' = Append(privates, made')
    /\ guard' = [guard EXCEPT ![c] = made'] /\ older' = [older EXCEPT ![c] = guard[c]]
    /\ UNCHANGED <<driver, using, sends, mainReady, queue, arrivals, recvVars, woken>>

\* The address of a migrated peer cannot be adopted: the listener serves it.
AdoptFails(c, p) ==
    /\ guard[c] # None /\ p # peer[c] /\ older[c] = None
    /\ peer' = [peer EXCEPT ![c] = p]
    /\ guard' = [guard EXCEPT ![c] = None] /\ older' = [older EXCEPT ![c] = guard[c]]
    /\ UNCHANGED <<made, privates, entry, driver, using, sends, mainReady, queue, arrivals,
                   recvVars, woken>>

\* A guard drops: the one of the old address, or that of a connection that is
\* over.  close_private takes its entry from the list.
DropGuard(c) ==
    \/ /\ older[c] # None
       /\ privates' = SelectSeq(privates, LAMBDA i : i # older[c])
       /\ older' = [older EXCEPT ![c] = None]
       /\ UNCHANGED <<peer, made, guard, entry, driver, using, sends, mainReady, queue, arrivals,
                      recvVars, woken>>
    \/ /\ older[c] = None /\ guard[c] # None /\ driver[c] = "idle"
       /\ privates' = SelectSeq(privates, LAMBDA i : i # guard[c])
       /\ guard' = [guard EXCEPT ![c] = None]
       /\ UNCHANGED <<peer, made, older, entry, driver, using, sends, mainReady, queue, arrivals,
                      recvVars, woken>>

-----------------------------------------------------------------------------
(* try_send, on the thread of connection c's driver.                      *)

\* The listed entry of the peer that has not failed.
Candidates(c) ==
    {k \in DOMAIN privates : entry[privates[k]].peer = peer[c] /\ ~entry[privates[k]].failed}
First(c) == privates[CHOOSE k \in Candidates(c) : \A j \in Candidates(c) : k <= j]

\* quinn sends once the listener counts as writable.
FindPrivate(c) ==
    /\ driver[c] = "idle" /\ sends[c] < MaxSends /\ mainReady
    /\ sends' = [sends EXCEPT ![c] = @ + 1]
    /\ \/ /\ Candidates(c) = {}
          /\ driver' = [driver EXCEPT ![c] = "listener"] /\ UNCHANGED using
       \/ /\ Candidates(c) # {}
          /\ using' = [using EXCEPT ![c] = First(c)]
          /\ driver' = [driver EXCEPT ![c] = IF entry[First(c)].stored THEN "private" ELSE "open"]
    /\ UNCHANGED <<followVars, entry, mainReady, queue, arrivals, recvVars, woken>>

\* open_private binds, connects and probes.  From here the kernel delivers the
\* peer's datagrams to the new socket.
OpenPrivate(c) ==
    /\ driver[c] = "open"
    /\ \/ /\ entry' = [entry EXCEPT ![using[c]].opened = TRUE]
          /\ driver' = [driver EXCEPT ![c] = "store"]
       \/ /\ entry' = [entry EXCEPT ![using[c]].failed = TRUE]
          /\ driver' = [driver EXCEPT ![c] = "listener"]
    /\ UNCHANGED <<followVars, using, sends, mainReady, queue, arrivals, recvVars, woken>>

StorePrivate(c) ==
    /\ driver[c] = "store"
    /\ entry' = [entry EXCEPT ![using[c]].stored = TRUE]
    /\ driver' = [driver EXCEPT ![c] = "wake"]
    /\ UNCHANGED <<followVars, using, sends, mainReady, queue, arrivals, recvVars, woken>>

\* Mutant of WakeReceiver: the receive task is not told of the new socket.
WakeReceiverNot(c) ==
    /\ driver[c] = "wake" /\ driver' = [driver EXCEPT ![c] = "private"]
    /\ UNCHANGED <<followVars, entry, using, sends, mainReady, queue, arrivals, recvVars, woken>>

WakeReceiver(c) ==
    /\ driver[c] = "wake" /\ driver' = [driver EXCEPT ![c] = "private"]
    /\ woken' = (woken \/ wakerSet)
    /\ UNCHANGED <<followVars, entry, using, sends, mainReady, queue, arrivals, recvVars>>

\* Mutant of SendPrivate: the WouldBlock of the private socket is returned, so
\* that quinn tries again while the listener is writable.
SendPrivateBlocks(c) ==
    /\ driver[c] = "private"
    /\ \/ entry[using[c]].writable /\ driver' = [driver EXCEPT ![c] = "idle"]
       \/ ~entry[using[c]].writable /\ UNCHANGED driver
    /\ UNCHANGED <<followVars, entry, using, sends, mainReady, queue, arrivals, recvVars, woken>>

\* The private socket sends (or loses) the datagram; or is found dead, is closed
\* and left; or would block, as it does until the reactor has seen it.
SendPrivate(c) ==
    /\ driver[c] = "private"
    /\ \/ /\ entry[using[c]].writable
          /\ driver' = [driver EXCEPT ![c] = "idle"] /\ UNCHANGED entry
       \/ /\ entry' = [entry EXCEPT ![using[c]].failed = TRUE, ![using[c]].opened = FALSE,
                                    ![using[c]].stored = FALSE]
          /\ driver' = [driver EXCEPT ![c] = "listener"]
       \/ /\ ~entry[using[c]].writable
          /\ driver' = [driver EXCEPT ![c] = "listener"] /\ UNCHANGED entry
    /\ using' = [using EXCEPT ![c] = IF driver'[c] = "idle" THEN None ELSE @]
    /\ UNCHANGED <<followVars, sends, mainReady, queue, arrivals, recvVars, woken>>

\* The listener takes the datagram, EPIPE and EADDRNOTAVAIL included, or would
\* block: then quinn waits until the listener is writable and sends again.
SendListener(c) ==
    /\ driver[c] = "listener"
    /\ \/ driver' = [driver EXCEPT ![c] = "idle"] /\ UNCHANGED mainReady
       \/ /\ sends[c] < MaxSends
          /\ driver' = [driver EXCEPT ![c] = "waiting"] /\ mainReady' = FALSE
    /\ using' = [using EXCEPT ![c] = None]
    /\ UNCHANGED <<followVars, entry, sends, queue, arrivals, recvVars, woken>>

Resend(c) ==
    /\ driver[c] = "waiting" /\ mainReady
    /\ driver' = [driver EXCEPT ![c] = "idle"]
    /\ UNCHANGED <<followVars, entry, using, sends, mainReady, queue, arrivals, recvVars, woken>>

-----------------------------------------------------------------------------
(* The kernel and the reactor.                                            *)

\* A socket is open while its entry is held: listed, in a send, or in a poll.
IsOpen(i) ==
    /\ entry[i].opened
    /\ i \in Range(privates) \/ i \in Range(using) \/ i \in Range(todo)

\* A datagram of p goes to a socket connected to p, or else to the listener.
Arrival(p) ==
    /\ arrivals < MaxArrivals /\ arrivals' = arrivals + 1
    /\ LET own == {i \in Ids : IsOpen(i) /\ entry[i].peer = p}
       IN \E s \in IF own = {} THEN {Main} ELSE own : queue' = [queue EXCEPT ![s] = @ + 1]
    /\ UNCHANGED <<followVars, entry, driver, using, sends, mainReady, recvVars, woken>>

\* The reactor wakes the receive task for a socket it registered that has data,
\* and notes what is writable.  No driver occupies its worker.
Yielding == \A c \in Conns : driver[c] \in {"idle", "waiting"}

ReactorReadable(s) ==
    /\ Yielding /\ s \in registered /\ queue[s] > 0
    /\ registered' = registered \ {s} /\ woken' = TRUE
    /\ UNCHANGED <<followVars, entry, driver, using, sends, mainReady, queue, arrivals,
                   recv, todo, wakerSet>>

ReactorWritable ==
    /\ Yielding
    /\ mainReady' = TRUE
    /\ entry' = [i \in Ids |-> [entry[i] EXCEPT !.writable = @ \/ entry[i].opened]]
    /\ UNCHANGED <<followVars, driver, using, sends, queue, arrivals, recvVars, woken>>

-----------------------------------------------------------------------------
(* poll_recv, in the endpoint's receive task.                             *)

Wakeup ==
    /\ recv = "parked" /\ woken
    /\ recv' = "main" /\ woken' = FALSE /\ wakerSet' = TRUE
    /\ UNCHANGED <<followVars, entry, driver, using, sends, mainReady, queue, arrivals,
                   todo, registered>>

\* The listener first; data returns from poll_recv, which is called again.
PollMain ==
    /\ recv = "main"
    /\ \/ /\ queue[Main] > 0
          /\ queue' = [queue EXCEPT ![Main] = @ - 1] /\ UNCHANGED <<recv, todo, registered>>
       \/ /\ queue[Main] = 0
          /\ registered' = registered \cup {Main}
          /\ recv' = "privates" /\ todo' = privates /\ UNCHANGED queue
    /\ UNCHANGED <<followVars, entry, driver, using, sends, mainReady, arrivals, woken, wakerSet>>

\* The next of the listed entries as they were; with none left it is parked.
PollPrivate ==
    /\ recv = "privates"
    /\ \/ /\ todo = <<>> /\ recv' = "parked" /\ UNCHANGED <<todo, queue, registered>>
       \/ /\ todo # <<>>
          /\ LET i == Head(todo)
             IN \/ /\ ~entry[i].stored
                   /\ todo' = Tail(todo) /\ UNCHANGED <<recv, queue, registered>>
                \/ /\ entry[i].stored /\ queue[i] > 0
                   /\ queue' = [queue EXCEPT ![i] = @ - 1]
                   /\ recv' = "main" /\ todo' = <<>> /\ UNCHANGED registered
                \/ /\ entry[i].stored /\ queue[i] = 0
                   /\ registered' = registered \cup {i}
                   /\ todo' = Tail(todo) /\ UNCHANGED <<recv, queue>>
    /\ UNCHANGED <<followVars, entry, driver, using, sends, mainReady, arrivals, woken, wakerSet>>

Drive(c) ==
    \/ OpenPrivate(c) \/ StorePrivate(c) \/ WakeReceiver(c)
    \/ SendPrivate(c) \/ SendListener(c) \/ Resend(c)

Receive == Wakeup \/ PollMain \/ PollPrivate
Reactor == ReactorWritable \/ \E s \in Ids \cup {Main} : ReactorReadable(s)

SocketsNext ==
    \/ \E c \in Conns : (\E p \in Peers : Adopt(c, p) \/ AdoptFails(c, p))
                        \/ DropGuard(c) \/ FindPrivate(c) \/ Drive(c)
    \/ \E p \in Peers : Arrival(p)
    \/ Receive \/ Reactor

-----------------------------------------------------------------------------
(* Properties.                                                            *)

\* A datagram in the buffer of an open socket is read, also when it arrived
\* before the receive task had heard of the socket.
DatagramsRead ==
    \A s \in Ids \cup {Main} :
        (queue[s] > 0 /\ (s = Main \/ IsOpen(s)))
            ~> (queue[s] = 0 \/ (s # Main /\ ~IsOpen(s)))

\* A send comes to an end: through the private socket, or through the listener
\* when the private one is dead, refused or not writable yet.
SendEnds == \A c \in Conns : (driver[c] # "idle") ~> (driver[c] = "idle")

=============================================================================
