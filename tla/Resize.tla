------------------------------- MODULE Resize -------------------------------
(***************************************************************************)
(* From the client's terminal to the remote pty: choose_mode and           *)
(* watch_resize (hush), stream_open_writer, one unidirectional stream per  *)
(* header, the server's side_task, which reads them in the order they were *)
(* opened and whose end is how wait_for_child learns of a lost connection  *)
(* (Session), and resize_task (hush-core/src/session.rs).                  *)
(***************************************************************************)
EXTENDS Integers, Sequences

CONSTANTS Sizes,        \* sizes of the terminal window
          MaxChanges,   \* bound: how often the window changes
          ClientCap,    \* capacity of the client's channel of headers
          ServerCap,    \* capacity of the server's channel of sizes
          NoHeader

VARIABLES
    mode,               \* what choose_mode chose: "pty" or "pipes"
    winSize, changes,   \* the terminal window, and how often it changed
    winch,              \* a SIGWINCH the stream of signals has not delivered
    watcher,            \* watch_resize: "off", "waiting", "woken", or the size it sends
    headers,            \* the channel to stream_open_writer
    writer,             \* the header stream_open_writer holds, NoHeader, or "ended"
    opened, arrived,    \* streams in the order of their ids, and those whose data came
    accepted,           \* how many of them side_task has accepted
    side,               \* side_task: "accept", "reading", "ended", or the size it sends
    sizes,              \* the channel to resize_task
    ptySize,            \* the size of the remote terminal
    conn, child,        \* the connection, and the remote process
    noticed             \* history: the window last changed with a handler installed

resizeVars == <<mode, winSize, changes, winch, watcher, headers, writer, opened, arrived,
                accepted, side, sizes, ptySize, conn, child, noticed>>

clientVars == <<winSize, changes, winch, watcher, noticed>>
sideVars == <<accepted, side, sizes, ptySize>>

\* The request carried the size of the moment; run_pty opened a pty with it.
ResizeInit ==
    /\ mode \in {"pty", "pipes"} /\ winSize \in Sizes /\ changes = 0
    /\ winch = FALSE /\ watcher = "off" /\ headers = <<>> /\ writer = NoHeader
    /\ opened = <<>> /\ arrived = {} /\ accepted = 0 /\ side = "accept" /\ sizes = <<>>
    /\ ptySize = winSize /\ conn = "up" /\ child = "running" /\ noticed = TRUE

-----------------------------------------------------------------------------
(* The client.                                                            *)

\* The window changes; without a handler SIGWINCH is ignored, and signals that
\* were not received yet are one.
ChangeSize(s) ==
    /\ changes < MaxChanges /\ s # winSize
    /\ winSize' = s /\ changes' = changes + 1
    /\ winch' = (watcher # "off") /\ noticed' = (watcher # "off")
    /\ UNCHANGED <<mode, watcher, headers, writer, opened, arrived, conn, child, sideVars>>

\* Mutant of StartWatching: sizes are watched for a session without a terminal.
StartWatchingAny ==
    /\ watcher = "off" /\ watcher' = "waiting"
    /\ UNCHANGED <<mode, winSize, changes, winch, noticed, headers, writer, opened, arrived,
                   conn, child, sideVars>>

\* run_pty spawns watch_resize once the server is ready; run_pipes does not.
StartWatching ==
    /\ mode = "pty" /\ watcher = "off" /\ watcher' = "waiting"
    /\ UNCHANGED <<mode, winSize, changes, winch, noticed, headers, writer, opened, arrived,
                   conn, child, sideVars>>

\* sigwinch.recv returns, and terminal_size is called after it.
TakeSignal ==
    /\ watcher = "waiting" /\ winch
    /\ winch' = FALSE /\ watcher' = "woken"
    /\ UNCHANGED <<mode, winSize, changes, noticed, headers, writer, opened, arrived,
                   conn, child, sideVars>>

ReadSize ==
    /\ watcher = "woken" /\ watcher' = winSize
    /\ UNCHANGED <<mode, winSize, changes, winch, noticed, headers, writer, opened, arrived,
                   conn, child, sideVars>>

\* Mutant of SendHeader: without room in the channel the size is dropped.
SendHeaderTry ==
    /\ watcher \in Sizes
    /\ headers' = IF writer # "ended" /\ Len(headers) < ClientCap
                    THEN Append(headers, watcher) ELSE headers
    /\ watcher' = "waiting"
    /\ UNCHANGED <<mode, winSize, changes, winch, noticed, writer, opened, arrived,
                   conn, child, sideVars>>

\* Waits for room, and goes on when the writer is gone.
SendHeader ==
    /\ watcher \in Sizes
    /\ \/ writer = "ended" /\ UNCHANGED headers
       \/ writer # "ended" /\ Len(headers) < ClientCap /\ headers' = Append(headers, watcher)
    /\ watcher' = "waiting"
    /\ UNCHANGED <<mode, winSize, changes, winch, noticed, writer, opened, arrived,
                   conn, child, sideVars>>

WriterTake ==
    /\ writer = NoHeader /\ headers # <<>>
    /\ writer' = Head(headers) /\ headers' = Tail(headers)
    /\ UNCHANGED <<mode, clientVars, opened, arrived, conn, child, sideVars>>

\* open_uni, the frame and its end, or the error of a lost connection.
WriterOpen ==
    /\ writer \in Sizes
    /\ \/ conn = "up" /\ opened' = Append(opened, writer) /\ writer' = NoHeader /\ UNCHANGED headers
       \/ conn = "lost" /\ writer' = "ended" /\ headers' = <<>> /\ UNCHANGED opened
    /\ UNCHANGED <<mode, clientVars, arrived, conn, child, sideVars>>

-----------------------------------------------------------------------------
(* The network and the server.                                            *)

\* The data of a stream arrives, in any order among the streams.
Arrive(n) ==
    /\ conn = "up" /\ n \in DOMAIN opened \ arrived
    /\ arrived' = arrived \cup {n}
    /\ UNCHANGED <<mode, clientVars, headers, writer, opened, conn, child, sideVars>>

Lose ==
    /\ conn = "up" /\ conn' = "lost"
    /\ UNCHANGED <<mode, clientVars, headers, writer, opened, arrived, child, sideVars>>

\* accept_uni yields streams in the order of their ids: the arrival of a later
\* one opens those before it.  It fails on a lost connection.
SideAccept ==
    /\ side = "accept"
    /\ \/ /\ \E n \in arrived : n > accepted
          /\ accepted' = accepted + 1 /\ side' = "reading"
       \/ conn = "lost" /\ side' = "ended" /\ UNCHANGED accepted
    /\ UNCHANGED <<mode, clientVars, headers, writer, opened, arrived, sizes, ptySize, conn, child>>

SideRead ==
    /\ side = "reading"
    /\ \/ accepted \in arrived /\ side' = opened[accepted]
       \/ conn = "lost" /\ side' = "accept"
    /\ UNCHANGED <<mode, clientVars, headers, writer, opened, arrived, accepted, sizes, ptySize,
                   conn, child>>

\* resize_tx.send waits for room, and fails once resize_task is aborted.
SideSend ==
    /\ side \in Sizes
    /\ \/ child = "running" /\ Len(sizes) < ServerCap /\ sizes' = Append(sizes, side)
       \/ child = "exited" /\ UNCHANGED sizes
    /\ side' = "accept"
    /\ UNCHANGED <<mode, clientVars, headers, writer, opened, arrived, accepted, ptySize,
                   conn, child>>

\* resize_task; only run_pty has one.
ApplySize ==
    /\ mode = "pty" /\ child = "running" /\ sizes # <<>>
    /\ ptySize' = Head(sizes) /\ sizes' = Tail(sizes)
    /\ UNCHANGED <<mode, clientVars, headers, writer, opened, arrived, accepted, side, conn, child>>

\* wait_for_child returns: by itself, or because side_task is gone and with it
\* the sender of signals.  resize_task and side_task are aborted.
ChildExit ==
    /\ child = "running" /\ child' = "exited"
    /\ sizes' = <<>>
    /\ UNCHANGED <<mode, clientVars, headers, writer, opened, arrived, accepted, side, ptySize, conn>>

ResizeStep ==
    \/ StartWatching \/ TakeSignal \/ ReadSize \/ SendHeader
    \/ WriterTake \/ WriterOpen
    \/ SideAccept \/ SideRead \/ SideSend \/ ApplySize
    \/ \E n \in DOMAIN opened : Arrive(n)

ResizeNext ==
    \/ ResizeStep
    \/ \E s \in Sizes : ChangeSize(s)
    \/ Lose \/ ChildExit

-----------------------------------------------------------------------------
(* Properties.                                                            *)

\* Through two channels, streams that arrive in any order and signals that are
\* merged, the remote terminal ends up with the size of the window, if its last
\* change was after watch_resize had its handler.
ResizeSettles ==
    <>[](\/ mode = "pipes" \/ conn = "lost" \/ child = "exited" \/ ~noticed
         \/ ptySize = winSize)

\* A full channel of sizes never keeps side_task, and so wait_for_child, from
\* seeing that the connection is lost.
DisconnectNoticed ==
    (conn = "lost") ~> (side = "ended" \/ child = "exited")

=============================================================================
