------------------------------- MODULE Session -------------------------------
(***************************************************************************)
(* One interactive session on an established connection: the client's      *)
(* run_pty and run_pipes (hush/src/session.rs), the server's               *)
(* run_server_session, run_pty, run_pipes, wait_for_child and              *)
(* terminate_child_group (hush-core/src/session.rs), the copy tasks they   *)
(* spawn, the remote process and the network between them.                 *)
(*                                                                         *)
(* Output is counted in chunks.  For every output stream s of the mode,    *)
(*     shown[s] <= arrived[s] <= sent[s] <= made[s]                        *)
(* follow a chunk from the process through the server's copy task and the  *)
(* network to the client's terminal.  Time is abstract: a timer may expire *)
(* whenever it runs.  A process that the session's child started in the    *)
(* background (`bg`) may keep the output open after the child exits.       *)
(***************************************************************************)
EXTENDS Naturals

CONSTANTS Modes,        \* session modes considered, of "pty" and "pipes"
          Endings,      \* how a process ends by itself, of "code" and "other" (a signal)
          MaxChunks,    \* [mode -> bound on the chunks a process writes per stream]
          MaxSignals    \* bound on the signals the user sends through the client

ASSUME SessionAssumption ==
    /\ Modes \subseteq {"pty", "pipes"} /\ Endings \subseteq {"code", "other"}
    /\ MaxChunks \in [{"pty", "pipes"} -> Nat] /\ MaxSignals \in Nat

VARIABLES
    mode,       \* "pty" or "pipes", in the session request
    \* the client
    cli,        \* where run_pty or run_pipes is
    cliEnd,     \* SessionEnd, once decided, or how the process died
    cliConn,    \* the client's view of the connection is up
    raw,        \* the local terminal is in raw mode
    watchdog,   \* the SIGTERM watchdog is armed
    shown,      \* chunks written to the local terminal
    cliCopy,    \* the client's copy task of each stream
    \* the server
    srv,        \* where run_server_session is
    srvConn,    \* the server's view of the connection is up
    result,     \* status or error the session will report
    sent,       \* chunks written to the QUIC stream
    srvCopy,    \* the server's copy task of each stream
    \* the remote process
    child,      \* "none", "running", "exited", "reaped"
    exit,       \* how it exited
    bg,         \* a background process still holds the output open
    made,       \* chunks written by child and bg
    \* the network
    cut,        \* packets no longer get through
    arrived,    \* chunks received by the client's QUIC stack
    arrivedFin, \* streams whose end has been received by the client
    flying,     \* Signal side streams on their way to the server
    signals,    \* signals in the server's channel, for wait_for_child
    sentSignals,\* signals sent so far
    statusMsg,  \* the SessionExitStatus or SessionError stream: "none", "sent", "arrived"
    stdin,      \* the client's input: "open", "finished" (sent), "shut" (child sees EOF)
    \* history
    srvTimedOut, cliTimedOut,  \* a drain gave up waiting
    signalFailed,              \* kill(2) failed while forwarding a signal
    termed                     \* watch_signals took a SIGTERM

clientVars == <<cli, cliEnd, cliConn, raw, watchdog, shown, cliCopy, cliTimedOut, termed>>
serverVars == <<srv, srvConn, result, sent, srvCopy, srvTimedOut, signalFailed>>
procVars == <<child, exit, bg, made>>
netVars == <<cut, arrived, arrivedFin, flying, signals, sentSignals, statusMsg, stdin>>
vars == <<mode, clientVars, serverVars, procVars, netVars>>

Streams == IF mode = "pty" THEN {"out"} ELSE {"out", "err"}
AllStreams == {"out", "err"}

Init ==
    /\ mode \in Modes
    /\ cli = "open" /\ cliEnd = "none" /\ cliConn = TRUE
    /\ raw = (mode = "pty")
    /\ watchdog = FALSE
    /\ shown = [s \in AllStreams |-> 0]
    /\ cliCopy = [s \in AllStreams |-> "none"]
    /\ srv = "idle" /\ srvConn = TRUE /\ result = "none"
    /\ sent = [s \in AllStreams |-> 0]
    /\ srvCopy = [s \in AllStreams |-> "none"]
    /\ child = "none" /\ exit = "none" /\ bg = FALSE
    /\ made = [s \in AllStreams |-> 0]
    /\ cut = FALSE
    /\ arrived = [s \in AllStreams |-> 0]
    /\ arrivedFin = {}
    /\ flying = 0 /\ signals = 0 /\ sentSignals = 0
    /\ statusMsg = "none"
    /\ stdin = "open"
    /\ srvTimedOut = FALSE /\ cliTimedOut = FALSE /\ signalFailed = FALSE
    /\ termed = FALSE

\* A chunk of stream s passes a stage.
Advance(stage, s) == [stage EXCEPT ![s] = @ + 1]

-----------------------------------------------------------------------------
(* The server's session.                                                  *)

\* The Session header arrives; the server refuses it when max_sessions is 0.
SrvAccept ==
    /\ srv = "idle" /\ cli # "open" /\ ~cut
    /\ \/ srv' = "ready" /\ UNCHANGED result
       \/ srv' = "ended" /\ result' = "refused"
    /\ UNCHANGED <<mode, clientVars, procVars, netVars,
                   srvConn, sent, srvCopy, srvTimedOut, signalFailed>>

\* SessionReady is written; in pipes mode the stderr stream is opened next.
SrvReady ==
    /\ srv \in {"ready", "stderr"}
    /\ srv' = CASE ~srvConn -> "ended"
                [] srvConn /\ srv = "ready" /\ mode = "pipes" -> "stderr"
                [] OTHER -> "spawn"
    /\ result' = IF srvConn THEN result ELSE "error"
    /\ UNCHANGED <<mode, clientVars, procVars, netVars,
                   srvConn, sent, srvCopy, srvTimedOut, signalFailed>>

\* The child is spawned in a session of its own, with its copy tasks.
SrvSpawn ==
    /\ srv = "spawn"
    /\ \/ /\ srv' = "wait" /\ child' = "running"
          /\ srvCopy' = [s \in AllStreams |-> IF s \in Streams THEN "copying" ELSE "none"]
          /\ UNCHANGED result
       \/ /\ srv' = "report" /\ result' = "error"
          /\ UNCHANGED <<child, srvCopy>>
    /\ UNCHANGED <<mode, clientVars, netVars, exit, bg, made,
                   srvConn, sent, srvTimedOut, signalFailed>>

\* wait_for_child, signal arm: forwarded to the process group.  A failing
\* kill(2) abandons the child and reports an error.
SrvSignal ==
    /\ srv = "wait" /\ signals > 0
    /\ signals' = signals - 1
    /\ \/ /\ \/ UNCHANGED <<child, exit>>
             \/ child = "running" /\ child' = "exited" /\ exit' = "signal"
          /\ UNCHANGED <<srv, result, signalFailed>>
       \/ /\ srv' = "report" /\ result' = "error" /\ signalFailed' = TRUE
          /\ UNCHANGED <<child, exit>>
    /\ UNCHANGED <<mode, clientVars, bg, made, cut, arrived, arrivedFin, flying, sentSignals,
                   statusMsg, stdin, srvConn, sent, srvCopy, srvTimedOut>>

\* Mutant: the session gives up without terminating the child.
SrvClientGoneReturns ==
    /\ srv = "wait" /\ ~srvConn /\ signals = 0
    /\ srv' = "report"
    /\ UNCHANGED <<mode, clientVars, procVars, netVars,
                   srvConn, result, sent, srvCopy, srvTimedOut, signalFailed>>

\* wait_for_child, signal arm with the channel closed: the connection is gone
\* and every signal received before that has been taken.
SrvClientGone ==
    /\ srv = "wait" /\ ~srvConn /\ signals = 0
    /\ srv' = "hup"
    /\ UNCHANGED <<mode, clientVars, procVars, netVars,
                   srvConn, result, sent, srvCopy, srvTimedOut, signalFailed>>

\* Mutant: terminate_child_group never escalates to SIGKILL.
SrvKillNever == FALSE

\* terminate_child_group: the child outlived its two seconds after SIGHUP.
SrvKill ==
    /\ srv = "hup"
    /\ srv' = "kill"
    /\ UNCHANGED <<mode, clientVars, procVars, netVars,
                   srvConn, result, sent, srvCopy, srvTimedOut, signalFailed>>

\* process_exit_from_status: a signal that RemoteSignal does not know becomes
\* code 255.
ProcessExit == IF exit = "other" THEN "code" ELSE exit

\* child.wait() returns, in either function; the input task is aborted.
SrvReap ==
    /\ srv \in {"wait", "hup", "kill"} /\ child = "exited"
    /\ child' = "reaped"
    /\ srv' = "drainOut"
    /\ result' = ProcessExit
    /\ UNCHANGED <<mode, clientVars, netVars, exit, bg, made,
                   srvConn, sent, srvCopy, srvTimedOut, signalFailed>>

\* Only run_pty gives up on its output task.
DrainTimesOut == mode = "pty" /\ srvCopy["out"] = "copying"

\* The output tasks are awaited, stdout before stderr.
SrvDrain ==
    /\ \/ /\ srv = "drainOut" /\ srvCopy["out"] \in {"done", "failed"}
          /\ srv' = IF mode = "pipes" THEN "drainErr" ELSE "report"
          /\ UNCHANGED srvTimedOut
       \/ /\ srv = "drainErr" /\ srvCopy["err"] \in {"done", "failed"}
          /\ srv' = "report"
          /\ UNCHANGED srvTimedOut
       \/ /\ srv = "drainOut" /\ DrainTimesOut
          /\ srv' = "report"
          /\ srvTimedOut' = TRUE
    /\ UNCHANGED <<mode, clientVars, procVars, netVars,
                   srvConn, result, sent, srvCopy, signalFailed>>

\* send.stopped(): acknowledged, or the connection is lost.
Stopped == statusMsg = "arrived" \/ ~srvConn

\* Mutant of SrvReport: the session ends without a word to the client.
SrvReportNothing ==
    /\ srv = "report" /\ srv' = "ended"
    /\ UNCHANGED <<mode, clientVars, procVars, netVars,
                   srvConn, result, sent, srvCopy, srvTimedOut, signalFailed>>

\* send_session_end opens the side stream and waits until it is acknowledged.
SrvReport ==
    /\ \/ /\ srv = "report" /\ srvConn
          /\ srv' = "reported" /\ statusMsg' = "sent"
       \/ /\ srv = "report" /\ ~srvConn
          /\ srv' = "ended" /\ UNCHANGED statusMsg
       \/ /\ srv = "reported" /\ Stopped
          /\ srv' = "ended" /\ UNCHANGED statusMsg
    /\ UNCHANGED <<mode, clientVars, procVars, cut, arrived, arrivedFin, flying,
                   signals, sentSignals, stdin, srvConn, result, sent, srvCopy, srvTimedOut,
                   signalFailed>>

-----------------------------------------------------------------------------
(* The server's copy tasks.                                               *)

\* Nobody holds the process's end open: in pty mode the server itself does,
\* through the Command it keeps until the child has exited.
AtEof ==
    /\ child \in {"exited", "reaped"} /\ ~bg
    /\ mode = "pty" => srv \in {"drainOut", "report", "reported", "ended"}

\* copy_reader_to_quic and copy_pty_to_quic: a chunk, or a failed write.
SrvCopyChunk(s) ==
    /\ srvCopy[s] = "copying" /\ sent[s] < made[s]
    /\ IF srvConn
         THEN sent' = Advance(sent, s) /\ UNCHANGED srvCopy
         ELSE srvCopy' = [srvCopy EXCEPT ![s] = "failed"] /\ UNCHANGED sent
    /\ UNCHANGED <<mode, clientVars, procVars, netVars, srv, srvConn, result,
                   srvTimedOut, signalFailed>>

\* Mutant: copy_reader_to_quic does not wait for the acknowledgement either.
AfterFinishNoAck == "done"
AfterFinish == IF mode = "pty" THEN "done" ELSE "finished"

\* At EOF the stream is finished.  Pipes then wait for the acknowledgement of
\* everything, a pty does not.
SrvCopyEof(s) ==
    /\ srvCopy[s] = "copying" /\ sent[s] = made[s] /\ AtEof
    /\ srvCopy' = [srvCopy EXCEPT ![s] = AfterFinish]
    /\ UNCHANGED <<mode, clientVars, procVars, netVars, srv, srvConn, result, sent,
                   srvTimedOut, signalFailed>>

SrvCopyAcked(s) ==
    /\ srvCopy[s] = "finished" /\ (s \in arrivedFin \/ ~srvConn)
    /\ srvCopy' = [srvCopy EXCEPT ![s] = "done"]
    /\ UNCHANGED <<mode, clientVars, procVars, netVars, srv, srvConn, result, sent,
                   srvTimedOut, signalFailed>>

\* Mutant: copy_quic_to_writer does not shut the child's stdin down.
SrvStdinEofForgotten == FALSE

\* copy_quic_to_writer: the end of the client's input closes the child's
\* stdin (a pty has no such end), unless the task was aborted first.
SrvStdinEof ==
    /\ mode = "pipes" /\ stdin = "finished" /\ ~cut /\ srvConn /\ srv = "wait"
    /\ stdin' = "shut"
    /\ UNCHANGED <<mode, clientVars, serverVars, procVars, cut, arrived, arrivedFin,
                   flying, signals, sentSignals, statusMsg>>

-----------------------------------------------------------------------------
(* The remote process.                                                    *)

ChildWrite(s) ==
    /\ s \in Streams /\ (child = "running" \/ bg) /\ made[s] < MaxChunks[mode]
    /\ made' = Advance(made, s)
    /\ UNCHANGED <<mode, clientVars, serverVars, netVars, child, exit, bg>>

ChildFork ==
    /\ child = "running" /\ ~bg
    /\ bg' = TRUE
    /\ UNCHANGED <<mode, clientVars, serverVars, netVars, child, exit, made>>

ChildExit ==
    /\ child = "running"
    /\ child' = "exited" /\ exit' \in Endings
    /\ UNCHANGED <<mode, clientVars, serverVars, netVars, bg, made>>

\* SIGHUP may be ignored.
ChildHup ==
    /\ child = "running" /\ srv = "hup"
    /\ child' = "exited" /\ exit' = "hup"
    /\ UNCHANGED <<mode, clientVars, serverVars, netVars, bg, made>>

\* SIGKILL may not; background processes of the same group die with the child.
ChildKilled ==
    /\ child = "running" /\ srv = "kill"
    /\ child' = "exited" /\ exit' = "kill"
    /\ bg' \in {bg, FALSE}
    /\ UNCHANGED <<mode, clientVars, serverVars, netVars, made>>

BgExit ==
    /\ bg
    /\ bg' = FALSE
    /\ UNCHANGED <<mode, clientVars, serverVars, netVars, child, exit, made>>

-----------------------------------------------------------------------------
(* The network and the two QUIC stacks.                                   *)

ClientHears == ~cut /\ cliConn /\ cli # "exited"

Arrive(s) ==
    /\ ClientHears
    /\ \/ /\ arrived[s] < sent[s]
          /\ arrived' = Advance(arrived, s)
          /\ UNCHANGED arrivedFin
       \/ /\ arrived[s] = sent[s] /\ srvCopy[s] \in {"finished", "done"}
          /\ s \notin arrivedFin
          /\ arrivedFin' = arrivedFin \cup {s}
          /\ UNCHANGED arrived
    /\ UNCHANGED <<mode, clientVars, serverVars, procVars, cut, flying, signals,
                   sentSignals, statusMsg, stdin>>

ArriveStatus ==
    /\ ClientHears /\ statusMsg = "sent"
    /\ statusMsg' = "arrived"
    /\ UNCHANGED <<mode, clientVars, serverVars, procVars, cut, arrived, arrivedFin,
                   flying, signals, sentSignals, stdin>>

\* side_task: the header of a Signal stream is read into the signal channel.
ArriveSignal ==
    /\ flying > 0 /\ ~cut /\ srvConn /\ srv \notin {"idle", "ended"}
    /\ flying' = flying - 1 /\ signals' = signals + 1
    /\ UNCHANGED <<mode, clientVars, serverVars, procVars, cut, arrived, arrivedFin,
                   sentSignals, statusMsg, stdin>>

Cut ==
    /\ ~cut
    /\ cut' = TRUE
    /\ UNCHANGED <<mode, clientVars, serverVars, procVars, arrived, arrivedFin, flying,
                   signals, sentSignals, statusMsg, stdin>>

\* The server learns of the end of the connection: a close frame, or the idle
\* timeout of long_idle_transport.
SrvLosesConn ==
    /\ srvConn /\ (cut \/ ~cliConn \/ cli = "exited")
    /\ srvConn' = FALSE
    /\ UNCHANGED <<mode, clientVars, procVars, netVars, srv, result, sent, srvCopy,
                   srvTimedOut, signalFailed>>

CliLosesConn ==
    /\ cliConn /\ cut
    /\ cliConn' = FALSE
    /\ UNCHANGED <<mode, serverVars, procVars, netVars, cli, cliEnd, raw, watchdog,
                   shown, cliCopy, cliTimedOut, termed>>

-----------------------------------------------------------------------------
(* The client.                                                            *)

CliKeep == <<mode, serverVars, procVars, netVars>>

\* RawModeGuard::enable_if_terminal, open_bi and the Session header.
CliOpen ==
    /\ cli = "open"
    /\ cli' = "ready"
    /\ UNCHANGED <<CliKeep, cliEnd, cliConn, raw, watchdog, shown, cliCopy, cliTimedOut,
                   termed>>

\* Every early return: the guard's Drop restores the terminal.
CliFails ==
    /\ cli' = "exited" /\ cliEnd' = "error" /\ raw' = FALSE
    /\ UNCHANGED <<CliKeep, cliConn, watchdog, shown, cliCopy, cliTimedOut, termed>>

\* SIGTERM arms the watchdog.  Mutant: it is only forwarded.
ArmsNever(isTerm) == watchdog
Arms(isTerm) == watchdog \/ isTerm

\* expect_session_ready, then in pipes mode accept_uni until SessionStderr.
CliReady ==
    \/ /\ \/ cli = "ready" /\ srv \notin {"idle", "ready"}
          \/ cli = "stderr" /\ srv \notin {"idle", "ready", "stderr"}
       /\ ClientHears /\ result # "refused"
       /\ cli' = IF cli = "ready" /\ mode = "pipes" THEN "stderr" ELSE "running"
       /\ cliCopy' = IF cli' = "running"
                       THEN [s \in AllStreams |-> IF s \in Streams THEN "copying" ELSE "none"]
                       ELSE cliCopy
       /\ watchdog' = (cli' = "running" /\ Arms(termed))
       /\ UNCHANGED <<CliKeep, cliEnd, cliConn, raw, shown, cliTimedOut, termed>>
    \/ /\ cli \in {"ready", "stderr"}
       /\ ~cliConn \/ (ClientHears /\ result = "refused")
       /\ CliFails

\* The select loop ends: status or error from the side stream, the connection
\* lost, or the escape, which also closes the connection.
CliEnd ==
    /\ cli = "running"
    /\ \/ /\ statusMsg = "arrived"
          /\ cliEnd' = IF result = "error" THEN "error" ELSE "remote"
          /\ UNCHANGED cliConn
       \/ /\ ~cliConn
          /\ cliEnd' = "error"
          /\ UNCHANGED cliConn
    /\ cli' = "drainOut"
    /\ watchdog' = FALSE
    /\ UNCHANGED <<CliKeep, raw, shown, cliCopy, cliTimedOut, termed>>

CliEscape ==
    /\ cli = "running"
    /\ cliEnd' = "escape" /\ cliConn' = FALSE
    /\ cli' = "drainOut"
    /\ watchdog' = FALSE
    /\ UNCHANGED <<CliKeep, raw, shown, cliCopy, cliTimedOut, termed>>

\* watch_signals, pipes mode only: the signal goes to the server, and SIGTERM
\* also arms the watchdog, but waits in local_signal_rx until the loop runs.
CliSignal(isTerm) ==
    /\ cli \in {"open", "ready", "stderr", "running"} /\ mode = "pipes"
    /\ sentSignals < MaxSignals
    /\ sentSignals' = sentSignals + 1
    /\ flying' = flying + 1
    /\ watchdog' = (cli = "running" /\ Arms(isTerm))
    /\ termed' = (termed \/ isTerm)
    /\ UNCHANGED <<mode, serverVars, procVars, cut, arrived, arrivedFin, signals,
                   statusMsg, stdin, cli, cliEnd, cliConn, raw, shown, cliCopy,
                   cliTimedOut>>

\* One second after SIGTERM the client terminates itself.
CliWatchdog ==
    /\ watchdog /\ cli = "running"
    /\ cli' = "exited" /\ cliEnd' = "sigterm"
    /\ UNCHANGED <<CliKeep, cliConn, raw, watchdog, shown, cliCopy, cliTimedOut, termed>>

\* A copy task is awaited.  Mutant: the client exits on the status at once.
AwaitedAtOnce(s) == TRUE
Awaited(s) == cliCopy[s] \in {"done", "failed"}

\* drop(raw), before process::exit.
RawDropped == raw /\ cli' # "exited"

\* The copy tasks are awaited for two seconds each, stdout first; then the
\* terminal is restored and the process exits.
CliDrain ==
    /\ \/ /\ cli = "drainOut" /\ Awaited("out")
          /\ UNCHANGED cliTimedOut
       \/ /\ cli = "drainErr" /\ Awaited("err")
          /\ UNCHANGED cliTimedOut
       \/ /\ \/ cli = "drainOut" /\ cliCopy["out"] = "copying"
             \/ cli = "drainErr" /\ cliCopy["err"] = "copying"
          /\ cliTimedOut' = TRUE
    /\ cli' = IF cli = "drainOut" /\ mode = "pipes" THEN "drainErr" ELSE "exited"
    /\ raw' = RawDropped
    /\ UNCHANGED <<CliKeep, cliEnd, cliConn, watchdog, shown, cliCopy, termed>>

\* quic_to_terminal and quic_to_stdio.
CliCopy(s) ==
    /\ cliCopy[s] = "copying" /\ cli # "exited"
    /\ \/ /\ shown[s] < arrived[s]
          /\ shown' = Advance(shown, s)
          /\ UNCHANGED cliCopy
       \/ /\ shown[s] = arrived[s] /\ s \in arrivedFin
          /\ cliCopy' = [cliCopy EXCEPT ![s] = "done"]
          /\ UNCHANGED shown
       \/ /\ shown[s] = arrived[s] /\ s \notin arrivedFin /\ ~cliConn
          /\ cliCopy' = [cliCopy EXCEPT ![s] = "failed"]
          /\ UNCHANGED shown
    /\ UNCHANGED <<CliKeep, cli, cliEnd, cliConn, raw, watchdog, cliTimedOut, termed>>

\* stdio_to_quic reaches the end of the local input and finishes the stream.
CliStdinEof ==
    /\ cli = "running" /\ stdin = "open" /\ cliConn
    /\ stdin' = "finished"
    /\ UNCHANGED <<mode, clientVars, serverVars, procVars, cut, arrived, arrivedFin,
                   flying, signals, sentSignals, statusMsg>>

-----------------------------------------------------------------------------

\* The sequential code of each side, and each task it spawned.
SrvTask ==
    \/ SrvAccept \/ SrvReady \/ SrvSpawn \/ SrvSignal \/ SrvClientGone \/ SrvKill
    \/ SrvReap \/ SrvDrain \/ SrvReport
SrvCopy(s) == SrvCopyChunk(s) \/ SrvCopyEof(s) \/ SrvCopyAcked(s)
CliTask == CliOpen \/ CliReady \/ CliEnd \/ CliDrain

\* What users, remote programs and networks do when they please.
Free ==
    \/ \E s \in AllStreams : ChildWrite(s)
    \/ ChildFork \/ ChildExit \/ ChildHup \/ BgExit
    \/ CliEscape \/ CliStdinEof \/ Cut
    \/ \E isTerm \in BOOLEAN : CliSignal(isTerm)

Next ==
    \/ SrvTask \/ CliTask \/ CliWatchdog \/ Free
    \/ \E s \in AllStreams : SrvCopy(s) \/ Arrive(s) \/ CliCopy(s)
    \/ ArriveStatus \/ ArriveSignal \/ SrvStdinEof \/ SrvLosesConn \/ CliLosesConn
    \/ ChildKilled

\* Both runtimes keep polling ready tasks and expired timers, packets get
\* through while the network is up, a dead peer is noticed, SIGKILL kills.
Fairness ==
    /\ WF_vars(SrvTask) /\ WF_vars(CliTask) /\ WF_vars(CliWatchdog)
    /\ \A s \in AllStreams :
        WF_vars(SrvCopy(s)) /\ WF_vars(Arrive(s)) /\ WF_vars(CliCopy(s))
    /\ WF_vars(ArriveStatus) /\ WF_vars(ArriveSignal) /\ WF_vars(SrvStdinEof)
    /\ WF_vars(SrvLosesConn) /\ WF_vars(CliLosesConn) /\ WF_vars(ChildKilled)

Spec == Init /\ [][Next]_vars
FairSpec == Spec /\ Fairness

-----------------------------------------------------------------------------
(* Properties.                                                            *)

\* A client that exits with the remote status over a connection that held, and
\* with no drain having timed out on either side, has shown every byte the
\* remote processes wrote: the status never overtakes the output for good.
OutputComplete ==
    (cli = "exited" /\ cliEnd = "remote" /\ cliConn /\ ~srvTimedOut /\ ~cliTimedOut)
        => \A s \in Streams : shown[s] = made[s]

\* In pipes mode the server waits for acknowledgements, so the exit status
\* reaches the client only after all of stdout and stderr did.
PipesOutputBeforeStatus ==
    (mode = "pipes" /\ statusMsg = "arrived" /\ result # "error")
        => \A s \in Streams : arrived[s] = made[s] /\ s \in arrivedFin

\* However a session ended, its child has exited and been reaped, unless
\* forwarding a signal failed.
NoChildLeftBehind ==
    (srv = "ended" /\ ~signalFailed) => child \in {"none", "reaped"}

\* The status the client exits with is the one the reaped child exited with,
\* except that a signal outside RemoteSignal is seen as a code.
StatusIsExit ==
    cliEnd = "remote" => child = "reaped" /\ result \in {exit, "code"} /\ exit # "none"
                           /\ (exit \in {"hup", "kill", "signal"} => result = exit)

\* Whichever way run_pty ends the client, past process::exit too, the local
\* terminal is out of raw mode.
TerminalRestored == cli = "exited" => ~raw

\* Nothing is left of a session that ended, on either side, and what the client
\* reports is what happened.
CleanEnd == NoChildLeftBehind /\ StatusIsExit /\ TerminalRestored

\* Once the server knows the connection is gone the session ends, with its child
\* terminated and reaped even if it ignores SIGHUP; in pipes mode a background
\* process that silently keeps the output open may hold up the end, not the rest.
DisconnectEnds ==
    (~srvConn /\ srv # "idle")
        ~> (srv = "ended" \/ (mode = "pipes" /\ bg /\ child \in {"none", "reaped"}))

\* When the child is gone the client exits, unless the network failed or, in
\* pipes mode, a background process keeps the output open.
ExitReachesClient ==
    (child = "reaped") ~> (cli = "exited" \/ cut \/ (mode = "pipes" /\ bg))

\* SIGTERM ends the client even when the child ignores it and the server never
\* answers, also when it came before the session was ready.
SigtermEndsClient == termed ~> (cli = "exited")

\* The end of the client's input reaches the child of a pipes session, unless
\* the connection or the wait for the child is over first.
StdinEofReachesChild ==
    (mode = "pipes" /\ stdin = "finished")
        ~> (stdin = "shut" \/ cut \/ ~srvConn \/ srv \notin {"idle", "ready", "stderr", "spawn", "wait"})

=============================================================================
