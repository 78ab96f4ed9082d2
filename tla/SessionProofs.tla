---------------------------- MODULE SessionProofs ----------------------------
(***************************************************************************)
(* Sessions of any length: whatever a program writes, however often it is  *)
(* signalled and wherever the connection breaks, output and status reach   *)
(* the client in order, the child is reaped and the terminal restored.     *)
(* And the filters of the terminal, for input and output of any length and *)
(* any cuts: every byte typed is kept, the escape is the one that was      *)
(* typed, and the screen on record is the one shown.                       *)
(***************************************************************************)
EXTENDS Session, EscapeFilter, AltScreen, SequenceTheorems, WellFoundedInduction, TLAPS

CliStates == {"open", "ready", "stderr", "running", "drainOut", "drainErr", "exited"}
SrvStates == {"idle", "ready", "stderr", "spawn", "wait", "hup", "kill", "drainOut", "drainErr",
              "report", "reported", "ended"}
Exits == {"code", "other", "signal", "hup", "kill"}
Counts == [AllStreams -> Nat]

ClientTypeOK ==
    /\ cli \in CliStates /\ cliEnd \in {"none", "error", "remote", "escape", "sigterm"}
    /\ cliConn \in BOOLEAN /\ raw \in BOOLEAN /\ watchdog \in BOOLEAN
    /\ shown \in Counts /\ cliCopy \in [AllStreams -> {"none", "copying", "done", "failed"}]
    /\ cliTimedOut \in BOOLEAN /\ termed \in BOOLEAN

ServerTypeOK ==
    /\ srv \in SrvStates /\ srvConn \in BOOLEAN
    /\ result \in {"none", "refused", "error"} \cup Exits
    /\ sent \in Counts
    /\ srvCopy \in [AllStreams -> {"none", "copying", "finished", "done", "failed"}]
    /\ srvTimedOut \in BOOLEAN /\ signalFailed \in BOOLEAN

WorldTypeOK ==
    /\ mode \in {"pty", "pipes"}
    /\ child \in {"none", "running", "exited", "reaped"} /\ exit \in {"none"} \cup Exits
    /\ bg \in BOOLEAN /\ made \in Counts
    /\ cut \in BOOLEAN /\ arrived \in Counts /\ arrivedFin \subseteq AllStreams
    /\ flying \in Nat /\ signals \in Nat /\ sentSignals \in Nat
    /\ statusMsg \in {"none", "sent", "arrived"} /\ stdin \in {"open", "finished", "shut"}

\* Every variable of a session keeps its shape.
TypeOK == ClientTypeOK /\ ServerTypeOK /\ WorldTypeOK

\* How far the server is says what has become of its child.
ChildStage ==
    /\ srv \in {"idle", "ready", "stderr", "spawn"} => child = "none"
    /\ srv \in {"wait", "hup", "kill"} => child \in {"running", "exited"}
    /\ srv \in {"drainOut", "drainErr"} => child = "reaped"
    /\ srv \in {"report", "reported", "ended"} => signalFailed \/ child \in {"none", "reaped"}

\* What it reports is an error or the way the child exited, and it is reported last.
StatusStage ==
    /\ child \in {"exited", "reaped"} => exit # "none"
    /\ child = "reaped" => result = ProcessExit
    /\ srv = "report" => child = "reaped" \/ result = "error"
    /\ statusMsg # "none" =>
        srv \in {"reported", "ended"} /\ (child = "reaped" \/ result = "error")

\* A chunk passes its stages in order, and nothing follows the end of a stream.
OutputOrder ==
    \A s \in AllStreams :
        /\ shown[s] <= arrived[s] /\ arrived[s] <= sent[s] /\ sent[s] <= made[s]
        /\ srvCopy[s] \in {"finished", "done"} =>
            sent[s] = made[s] /\ child \in {"exited", "reaped"} /\ ~bg
        /\ s \in arrivedFin => arrived[s] = sent[s] /\ srvCopy[s] \in {"finished", "done"}

\* Over pipes a copy task is through once the end of its stream is acknowledged,
\* unless the connection is lost, and the session waits for all of them.
PipesDrained ==
    /\ \A s \in AllStreams :
        /\ srvCopy[s] = "failed" => ~srvConn
        /\ srvCopy[s] = "done" /\ mode = "pipes" => s \in arrivedFin \/ ~srvConn
    /\ srv = "drainErr" => mode = "pipes" /\ srvCopy["out"] \in {"done", "failed"}
    /\ srv = "report" /\ child = "reaped" /\ mode = "pipes" =>
        \A s \in AllStreams : srvCopy[s] \in {"done", "failed"}
    /\ statusMsg # "none" /\ child = "reaped" /\ mode = "pipes" => AllStreams \subseteq arrivedFin

\* The client waits for its copy tasks, unless it gives up on them.
ClientDrained ==
    /\ \A s \in AllStreams :
        /\ cliCopy[s] = "done" => s \in arrivedFin /\ shown[s] = arrived[s]
        /\ cliCopy[s] = "failed" => ~cliConn
    /\ cli = "drainErr" => mode = "pipes"
    /\ cli \in {"open", "ready", "stderr", "running"} => cliEnd = "none"
    /\ cliEnd = "remote" => statusMsg = "arrived" /\ result # "error"
    /\ cli = "drainErr" /\ ~cliTimedOut => cliCopy["out"] \in {"done", "failed"}
    /\ cli = "exited" /\ cliEnd = "remote" /\ ~cliTimedOut =>
        \A s \in Streams : cliCopy[s] \in {"done", "failed"}

\* Only a terminal is raw, and only over pipes are signals caught.
RawStage ==
    /\ raw => mode = "pty"
    /\ watchdog \/ termed => mode = "pipes"
    /\ cli = "exited" => ~raw

IInv ==
    TypeOK /\ ChildStage /\ StatusStage /\ OutputOrder /\ PipesDrained /\ ClientDrained /\ RawStage

-----------------------------------------------------------------------------

\* The invariant holds before the session opens.
LEMMA InitIInv == Init => IInv
  <1> SUFFICES ASSUME Init PROVE IInv
    OBVIOUS
  <1>1. TypeOK
    BY SessionAssumption DEF Init, TypeOK, ClientTypeOK, ServerTypeOK, WorldTypeOK, CliStates,
       SrvStates, Exits, Counts, AllStreams
  <1>2. ChildStage /\ StatusStage /\ OutputOrder
    BY DEF Init, ChildStage, StatusStage, OutputOrder, AllStreams
  <1>3. PipesDrained /\ ClientDrained /\ RawStage
    BY DEF Init, PipesDrained, ClientDrained, RawStage, AllStreams
  <1> QED
    BY <1>1, <1>2, <1>3 DEF IInv

\* The sequential code of the server preserves the invariant.
LEMMA SrvSteps ==
    ASSUME IInv,
           \/ SrvAccept \/ SrvReady \/ SrvSpawn \/ SrvSignal \/ SrvClientGone
           \/ SrvKill \/ SrvReap \/ SrvDrain \/ SrvReport
    PROVE  IInv'
  <1> USE DEF IInv, TypeOK, clientVars, serverVars, procVars, netVars
  <1>1. CASE SrvAccept
    <2>1. ServerTypeOK'
      BY <1>1 DEF SrvAccept, ServerTypeOK, SrvStates, Counts, Exits
    <2>2. ChildStage'
      BY <1>1 DEF SrvAccept, ChildStage
    <2>3. StatusStage'
      BY <1>1 DEF SrvAccept, StatusStage, ProcessExit, ChildStage
    <2>4. PipesDrained'
      BY <1>1 DEF SrvAccept, PipesDrained
    <2>5. ClientDrained'
      BY <1>1 DEF SrvAccept, ClientDrained, StatusStage, OutputOrder
    <2>6. ClientTypeOK' /\ WorldTypeOK' /\ OutputOrder' /\ RawStage'
      BY <1>1 DEF SrvAccept, ClientTypeOK, WorldTypeOK, OutputOrder, RawStage
    <2> QED
      BY <2>1, <2>2, <2>3, <2>4, <2>5, <2>6
  <1>2. CASE SrvReady
    <2>1. ServerTypeOK'
      BY <1>2 DEF SrvReady, ServerTypeOK, SrvStates, Counts, Exits
    <2>2. ChildStage'
      BY <1>2 DEF SrvReady, ChildStage
    <2>3. StatusStage'
      BY <1>2 DEF SrvReady, StatusStage, ProcessExit, ChildStage
    <2>4. PipesDrained'
      BY <1>2 DEF SrvReady, PipesDrained
    <2>5. ClientDrained'
      BY <1>2 DEF SrvReady, ClientDrained, StatusStage, OutputOrder
    <2>6. ClientTypeOK' /\ WorldTypeOK' /\ OutputOrder' /\ RawStage'
      BY <1>2 DEF SrvReady, ClientTypeOK, WorldTypeOK, OutputOrder, RawStage
    <2> QED
      BY <2>1, <2>2, <2>3, <2>4, <2>5, <2>6
  <1>3. CASE SrvSpawn
    <2>1. ServerTypeOK'
      BY <1>3 DEF SrvSpawn, ServerTypeOK, SrvStates, Counts, Exits
    <2>2. WorldTypeOK'
      BY <1>3 DEF SrvSpawn, WorldTypeOK, Counts, Exits
    <2>3. ChildStage'
      BY <1>3 DEF SrvSpawn, ChildStage
    <2>4. StatusStage'
      BY <1>3 DEF SrvSpawn, StatusStage, ProcessExit, ChildStage
    <2>5. OutputOrder'
      BY <1>3 DEF SrvSpawn, OutputOrder, ChildStage, StatusStage
    <2>6. PipesDrained'
      BY <1>3 DEF SrvSpawn, PipesDrained, StatusStage, ChildStage, OutputOrder
    <2>7. ClientDrained'
      BY <1>3 DEF SrvSpawn, ClientDrained, StatusStage, OutputOrder
    <2>8. ClientTypeOK' /\ RawStage'
      BY <1>3 DEF SrvSpawn, ClientTypeOK, RawStage
    <2> QED
      BY <2>1, <2>2, <2>3, <2>4, <2>5, <2>6, <2>7, <2>8
  <1>4. CASE SrvSignal
    <2>1. ServerTypeOK'
      BY <1>4 DEF SrvSignal, ServerTypeOK, SrvStates, Counts, Exits
    <2>2. WorldTypeOK'
      BY <1>4 DEF SrvSignal, WorldTypeOK, Counts, Exits
    <2>3. ChildStage'
      BY <1>4 DEF SrvSignal, ChildStage
    <2>4. StatusStage'
      BY <1>4 DEF SrvSignal, StatusStage, ProcessExit, ChildStage
    <2>5. OutputOrder'
      BY <1>4 DEF SrvSignal, OutputOrder
    <2>6. PipesDrained'
      BY <1>4 DEF SrvSignal, PipesDrained, StatusStage, ChildStage, OutputOrder
    <2>7. ClientDrained'
      BY <1>4 DEF SrvSignal, ClientDrained, StatusStage, OutputOrder
    <2>8. ClientTypeOK' /\ RawStage'
      BY <1>4 DEF SrvSignal, ClientTypeOK, RawStage
    <2> QED
      BY <2>1, <2>2, <2>3, <2>4, <2>5, <2>6, <2>7, <2>8
  <1>5. CASE SrvClientGone
    <2>1. ServerTypeOK'
      BY <1>5 DEF SrvClientGone, ServerTypeOK, SrvStates, Counts, Exits
    <2>2. ChildStage'
      BY <1>5 DEF SrvClientGone, ChildStage
    <2>3. StatusStage'
      BY <1>5 DEF SrvClientGone, StatusStage, ProcessExit
    <2>4. PipesDrained'
      BY <1>5 DEF SrvClientGone, PipesDrained
    <2>5. ClientTypeOK' /\ WorldTypeOK' /\ OutputOrder' /\ ClientDrained' /\ RawStage'
      BY <1>5 DEF SrvClientGone, ClientTypeOK, WorldTypeOK, OutputOrder, ClientDrained,
             RawStage, Streams
    <2> QED
      BY <2>1, <2>2, <2>3, <2>4, <2>5
  <1>6. CASE SrvKill
    <2>1. ServerTypeOK'
      BY <1>6 DEF SrvKill, ServerTypeOK, SrvStates, Counts, Exits
    <2>2. ChildStage'
      BY <1>6 DEF SrvKill, ChildStage
    <2>3. StatusStage'
      BY <1>6 DEF SrvKill, StatusStage, ProcessExit
    <2>4. PipesDrained'
      BY <1>6 DEF SrvKill, PipesDrained
    <2>5. ClientTypeOK' /\ WorldTypeOK' /\ OutputOrder' /\ ClientDrained' /\ RawStage'
      BY <1>6 DEF SrvKill, ClientTypeOK, WorldTypeOK, OutputOrder, ClientDrained, RawStage,
             Streams
    <2> QED
      BY <2>1, <2>2, <2>3, <2>4, <2>5
  <1>7. CASE SrvReap
    <2>1. ServerTypeOK'
      BY <1>7 DEF SrvReap, ServerTypeOK, SrvStates, Counts, Exits, ProcessExit, WorldTypeOK
    <2>2. WorldTypeOK'
      BY <1>7 DEF SrvReap, WorldTypeOK, Counts, Exits
    <2>3. ChildStage'
      BY <1>7 DEF SrvReap, ChildStage
    <2>4. StatusStage'
      BY <1>7 DEF SrvReap, StatusStage, ProcessExit
    <2>5. OutputOrder'
      BY <1>7 DEF SrvReap, OutputOrder
    <2>6. PipesDrained'
      BY <1>7 DEF SrvReap, PipesDrained, StatusStage, ChildStage, OutputOrder
    <2>7. ClientDrained'
      BY <1>7 DEF SrvReap, ClientDrained, StatusStage, OutputOrder
    <2>8. ClientTypeOK' /\ RawStage'
      BY <1>7 DEF SrvReap, ClientTypeOK, RawStage
    <2> QED
      BY <2>1, <2>2, <2>3, <2>4, <2>5, <2>6, <2>7, <2>8
  <1>8. CASE SrvDrain
    <2>1. ServerTypeOK'
      BY <1>8 DEF SrvDrain, DrainTimesOut, ServerTypeOK, SrvStates, Counts, Exits
    <2>2. ChildStage'
      BY <1>8 DEF SrvDrain, DrainTimesOut, ChildStage
    <2>3. StatusStage'
      BY <1>8 DEF SrvDrain, DrainTimesOut, StatusStage, ProcessExit, ChildStage
    <2>4. PipesDrained'
      BY <1>8 DEF SrvDrain, DrainTimesOut, PipesDrained, StatusStage, ChildStage, OutputOrder,
             ServerTypeOK, WorldTypeOK, Counts, AllStreams, Streams
    <2>5. ClientTypeOK' /\ WorldTypeOK' /\ OutputOrder' /\ ClientDrained' /\ RawStage'
      BY <1>8 DEF SrvDrain, ClientTypeOK, WorldTypeOK, OutputOrder, ClientDrained, RawStage,
             Streams
    <2> QED
      BY <2>1, <2>2, <2>3, <2>4, <2>5
  <1>9. CASE SrvReport
    <2>1. ServerTypeOK'
      BY <1>9 DEF SrvReport, Stopped, ServerTypeOK, SrvStates, Counts, Exits
    <2>2. WorldTypeOK'
      BY <1>9 DEF SrvReport, Stopped, WorldTypeOK, Counts, Exits
    <2>3. ChildStage'
      BY <1>9 DEF SrvReport, Stopped, ChildStage
    <2>4. StatusStage'
      BY <1>9 DEF SrvReport, Stopped, StatusStage, ProcessExit
    <2>5. PipesDrained'
      BY <1>9 DEF SrvReport, Stopped, PipesDrained
    <2>6. ClientDrained'
      BY <1>9 DEF SrvReport, Stopped, ClientDrained, StatusStage, OutputOrder, ClientTypeOK,
             WorldTypeOK, ServerTypeOK, Counts, AllStreams, Streams
    <2>7. ClientTypeOK' /\ OutputOrder' /\ RawStage'
      BY <1>9 DEF SrvReport, ClientTypeOK, OutputOrder, RawStage
    <2> QED
      BY <2>1, <2>2, <2>3, <2>4, <2>5, <2>6, <2>7
  <1> QED
    BY <1>1, <1>2, <1>3, <1>4, <1>5, <1>6, <1>7, <1>8, <1>9

\* The copy tasks of the server preserve the invariant.
LEMMA CopySteps ==
    ASSUME IInv, NEW s \in AllStreams,
           \/ SrvCopyChunk(s) \/ SrvCopyEof(s) \/ SrvCopyAcked(s) \/ SrvStdinEof
    PROVE  IInv'
  <1> USE DEF IInv, TypeOK, clientVars, serverVars, procVars, netVars
  <1>1. CASE SrvCopyChunk(s)
    <2>1. ServerTypeOK'
      BY <1>1 DEF SrvCopyChunk, Advance, ServerTypeOK, SrvStates, Counts, Exits
    <2>2. OutputOrder'
      BY <1>1 DEF SrvCopyChunk, Advance, OutputOrder, ChildStage, StatusStage, ServerTypeOK,
             WorldTypeOK, ClientTypeOK, Counts
    <2>3. PipesDrained'
      BY <1>1 DEF SrvCopyChunk, Advance, PipesDrained, StatusStage, ChildStage, OutputOrder,
             ServerTypeOK, WorldTypeOK, Counts, AllStreams, Streams
    <2>4. ClientTypeOK' /\ WorldTypeOK' /\ ChildStage' /\ StatusStage' /\ ClientDrained' /\ RawStage'
      BY <1>1 DEF SrvCopyChunk, ClientTypeOK, WorldTypeOK, ChildStage, StatusStage,
             ClientDrained, RawStage, ProcessExit, Streams
    <2> QED
      BY <2>1, <2>2, <2>3, <2>4
  <1>2. CASE SrvCopyEof(s)
    <2>1. ServerTypeOK'
      BY <1>2 DEF SrvCopyEof, AfterFinish, AtEof, ServerTypeOK, SrvStates, Counts, Exits
    <2>2. OutputOrder'
      BY <1>2 DEF SrvCopyEof, AfterFinish, AtEof, OutputOrder
    <2>3. PipesDrained'
      BY <1>2 DEF SrvCopyEof, AfterFinish, AtEof, PipesDrained
    <2>4. ClientTypeOK' /\ WorldTypeOK' /\ ChildStage' /\ StatusStage' /\ ClientDrained' /\ RawStage'
      BY <1>2 DEF SrvCopyEof, ClientTypeOK, WorldTypeOK, ChildStage, StatusStage,
             ClientDrained, RawStage, ProcessExit, Streams
    <2> QED
      BY <2>1, <2>2, <2>3, <2>4
  <1>3. CASE SrvCopyAcked(s)
    <2>1. ServerTypeOK'
      BY <1>3 DEF SrvCopyAcked, ServerTypeOK, SrvStates, Counts, Exits
    <2>2. OutputOrder'
      BY <1>3 DEF SrvCopyAcked, OutputOrder
    <2>3. PipesDrained'
      BY <1>3 DEF SrvCopyAcked, PipesDrained
    <2>4. ClientTypeOK' /\ WorldTypeOK' /\ ChildStage' /\ StatusStage' /\ ClientDrained' /\ RawStage'
      BY <1>3 DEF SrvCopyAcked, ClientTypeOK, WorldTypeOK, ChildStage, StatusStage,
             ClientDrained, RawStage, ProcessExit, Streams
    <2> QED
      BY <2>1, <2>2, <2>3, <2>4
  <1>4. CASE SrvStdinEof
    <2>1. WorldTypeOK'
      BY <1>4 DEF SrvStdinEof, WorldTypeOK, Counts, Exits
    <2>2. ClientTypeOK' /\ ServerTypeOK' /\ ChildStage' /\ StatusStage' /\ OutputOrder' /\ PipesDrained' /\
            ClientDrained' /\ RawStage'
      BY <1>4 DEF SrvStdinEof, ClientTypeOK, ServerTypeOK, ChildStage, StatusStage,
             OutputOrder, PipesDrained, ClientDrained, RawStage, ProcessExit, Streams
    <2> QED
      BY <2>1, <2>2
  <1> QED
    BY <1>1, <1>2, <1>3, <1>4

\* The remote processes preserve the invariant.
LEMMA ProcSteps ==
    ASSUME IInv, NEW s \in AllStreams,
           \/ ChildWrite(s) \/ ChildFork \/ ChildExit \/ ChildHup \/ ChildKilled
           \/ BgExit
    PROVE  IInv'
  <1> USE DEF IInv, TypeOK, clientVars, serverVars, procVars, netVars
  <1>1. CASE ChildWrite(s)
    <2>1. WorldTypeOK'
      BY <1>1 DEF ChildWrite, Advance, WorldTypeOK, Counts, Exits
    <2>2. OutputOrder'
      BY <1>1 DEF ChildWrite, Advance, OutputOrder, ChildStage, StatusStage, ServerTypeOK,
             WorldTypeOK, ClientTypeOK, Counts
    <2>3. ClientTypeOK' /\ ServerTypeOK' /\ ChildStage' /\ StatusStage' /\ PipesDrained' /\
            ClientDrained' /\ RawStage'
      BY <1>1 DEF ChildWrite, ClientTypeOK, ServerTypeOK, ChildStage, StatusStage,
             PipesDrained, ClientDrained, RawStage, ProcessExit, Streams
    <2> QED
      BY <2>1, <2>2, <2>3
  <1>2. CASE ChildFork
    <2>1. WorldTypeOK'
      BY <1>2 DEF ChildFork, WorldTypeOK, Counts, Exits
    <2>2. OutputOrder'
      BY <1>2 DEF ChildFork, OutputOrder
    <2>3. ClientTypeOK' /\ ServerTypeOK' /\ ChildStage' /\ StatusStage' /\ PipesDrained' /\
            ClientDrained' /\ RawStage'
      BY <1>2 DEF ChildFork, ClientTypeOK, ServerTypeOK, ChildStage, StatusStage, PipesDrained,
             ClientDrained, RawStage, ProcessExit, Streams
    <2> QED
      BY <2>1, <2>2, <2>3
  <1>3. CASE ChildExit
    <2>1. WorldTypeOK'
      BY <1>3, SessionAssumption DEF ChildExit, WorldTypeOK, Counts, Exits
    <2>2. ChildStage'
      BY <1>3 DEF ChildExit, ChildStage
    <2>3. StatusStage'
      BY <1>3, SessionAssumption DEF ChildExit, StatusStage, ProcessExit
    <2>4. OutputOrder'
      BY <1>3 DEF ChildExit, OutputOrder
    <2>5. PipesDrained'
      BY <1>3 DEF ChildExit, PipesDrained
    <2>6. ClientTypeOK' /\ ServerTypeOK' /\ ClientDrained' /\ RawStage'
      BY <1>3 DEF ChildExit, ClientTypeOK, ServerTypeOK, ClientDrained, RawStage, Streams
    <2> QED
      BY <2>1, <2>2, <2>3, <2>4, <2>5, <2>6
  <1>4. CASE ChildHup
    <2>1. WorldTypeOK'
      BY <1>4 DEF ChildHup, WorldTypeOK, Counts, Exits
    <2>2. ChildStage'
      BY <1>4 DEF ChildHup, ChildStage
    <2>3. StatusStage'
      BY <1>4 DEF ChildHup, StatusStage, ProcessExit
    <2>4. OutputOrder'
      BY <1>4 DEF ChildHup, OutputOrder
    <2>5. PipesDrained'
      BY <1>4 DEF ChildHup, PipesDrained
    <2>6. ClientTypeOK' /\ ServerTypeOK' /\ ClientDrained' /\ RawStage'
      BY <1>4 DEF ChildHup, ClientTypeOK, ServerTypeOK, ClientDrained, RawStage, Streams
    <2> QED
      BY <2>1, <2>2, <2>3, <2>4, <2>5, <2>6
  <1>5. CASE ChildKilled
    <2>1. WorldTypeOK'
      BY <1>5 DEF ChildKilled, WorldTypeOK, Counts, Exits
    <2>2. ChildStage'
      BY <1>5 DEF ChildKilled, ChildStage
    <2>3. StatusStage'
      BY <1>5 DEF ChildKilled, StatusStage, ProcessExit
    <2>4. OutputOrder'
      BY <1>5 DEF ChildKilled, OutputOrder
    <2>5. PipesDrained'
      BY <1>5 DEF ChildKilled, PipesDrained
    <2>6. ClientTypeOK' /\ ServerTypeOK' /\ ClientDrained' /\ RawStage'
      BY <1>5 DEF ChildKilled, ClientTypeOK, ServerTypeOK, ClientDrained, RawStage, Streams
    <2> QED
      BY <2>1, <2>2, <2>3, <2>4, <2>5, <2>6
  <1>6. CASE BgExit
    <2>1. WorldTypeOK'
      BY <1>6 DEF BgExit, WorldTypeOK, Counts, Exits
    <2>2. OutputOrder'
      BY <1>6 DEF BgExit, OutputOrder
    <2>3. ClientTypeOK' /\ ServerTypeOK' /\ ChildStage' /\ StatusStage' /\ PipesDrained' /\
            ClientDrained' /\ RawStage'
      BY <1>6 DEF BgExit, ClientTypeOK, ServerTypeOK, ChildStage, StatusStage, PipesDrained,
             ClientDrained, RawStage, ProcessExit, Streams
    <2> QED
      BY <2>1, <2>2, <2>3
  <1> QED
    BY <1>1, <1>2, <1>3, <1>4, <1>5, <1>6

\* The network and the QUIC stacks preserve the invariant.
LEMMA NetSteps ==
    ASSUME IInv, NEW s \in AllStreams,
           \/ Arrive(s) \/ ArriveStatus \/ ArriveSignal \/ Cut \/ SrvLosesConn
           \/ CliLosesConn
    PROVE  IInv'
  <1> USE DEF IInv, TypeOK, clientVars, serverVars, procVars, netVars
  <1>1. CASE Arrive(s)
    <2>1. WorldTypeOK'
      BY <1>1 DEF Arrive, Advance, ClientHears, WorldTypeOK, Counts, Exits
    <2>2. OutputOrder'
      BY <1>1 DEF Arrive, Advance, ClientHears, OutputOrder, ChildStage, StatusStage,
             ServerTypeOK, WorldTypeOK, ClientTypeOK, Counts
    <2>3. PipesDrained'
      BY <1>1 DEF Arrive, Advance, ClientHears, PipesDrained
    <2>4. ClientDrained'
      BY <1>1 DEF Arrive, Advance, ClientHears, ClientDrained, StatusStage, OutputOrder,
             ClientTypeOK, WorldTypeOK, ServerTypeOK, Counts
    <2>5. ClientTypeOK' /\ ServerTypeOK' /\ ChildStage' /\ StatusStage' /\ RawStage'
      BY <1>1 DEF Arrive, ClientTypeOK, ServerTypeOK, ChildStage, StatusStage, RawStage,
             ProcessExit
    <2> QED
      BY <2>1, <2>2, <2>3, <2>4, <2>5
  <1>2. CASE ArriveStatus
    <2>1. WorldTypeOK'
      BY <1>2 DEF ArriveStatus, ClientHears, WorldTypeOK, Counts, Exits
    <2>2. StatusStage'
      BY <1>2 DEF ArriveStatus, ClientHears, StatusStage, ProcessExit
    <2>3. PipesDrained'
      BY <1>2 DEF ArriveStatus, ClientHears, PipesDrained
    <2>4. ClientDrained'
      BY <1>2 DEF ArriveStatus, ClientHears, ClientDrained
    <2>5. ClientTypeOK' /\ ServerTypeOK' /\ ChildStage' /\ OutputOrder' /\ RawStage'
      BY <1>2 DEF ArriveStatus, ClientTypeOK, ServerTypeOK, ChildStage, OutputOrder, RawStage
    <2> QED
      BY <2>1, <2>2, <2>3, <2>4, <2>5
  <1>3. CASE ArriveSignal
    <2>1. WorldTypeOK'
      BY <1>3 DEF ArriveSignal, WorldTypeOK, Counts, Exits
    <2>2. ClientTypeOK' /\ ServerTypeOK' /\ ChildStage' /\ StatusStage' /\ OutputOrder' /\ PipesDrained' /\
            ClientDrained' /\ RawStage'
      BY <1>3 DEF ArriveSignal, ClientTypeOK, ServerTypeOK, ChildStage, StatusStage,
             OutputOrder, PipesDrained, ClientDrained, RawStage, ProcessExit, Streams
    <2> QED
      BY <2>1, <2>2
  <1>4. CASE Cut
    <2>1. WorldTypeOK'
      BY <1>4 DEF Cut, WorldTypeOK, Counts, Exits
    <2>2. ClientTypeOK' /\ ServerTypeOK' /\ ChildStage' /\ StatusStage' /\ OutputOrder' /\ PipesDrained' /\
            ClientDrained' /\ RawStage'
      BY <1>4 DEF Cut, ClientTypeOK, ServerTypeOK, ChildStage, StatusStage, OutputOrder,
             PipesDrained, ClientDrained, RawStage, ProcessExit, Streams
    <2> QED
      BY <2>1, <2>2
  <1>5. CASE SrvLosesConn
    <2>1. ServerTypeOK'
      BY <1>5 DEF SrvLosesConn, ServerTypeOK, SrvStates, Counts, Exits
    <2>2. PipesDrained'
      BY <1>5 DEF SrvLosesConn, PipesDrained
    <2>3. ClientTypeOK' /\ WorldTypeOK' /\ ChildStage' /\ StatusStage' /\ OutputOrder' /\ ClientDrained' /\
            RawStage'
      BY <1>5 DEF SrvLosesConn, ClientTypeOK, WorldTypeOK, ChildStage, StatusStage,
             OutputOrder, ClientDrained, RawStage, ProcessExit, Streams
    <2> QED
      BY <2>1, <2>2, <2>3
  <1>6. CASE CliLosesConn
    <2>1. ClientTypeOK'
      BY <1>6 DEF CliLosesConn, ClientTypeOK, CliStates, Counts
    <2>2. ClientDrained'
      BY <1>6 DEF CliLosesConn, ClientDrained, StatusStage, OutputOrder, ClientTypeOK,
             WorldTypeOK, ServerTypeOK, Counts, AllStreams, Streams
    <2>3. ServerTypeOK' /\ WorldTypeOK' /\ ChildStage' /\ StatusStage' /\ OutputOrder' /\ PipesDrained' /\
            RawStage'
      BY <1>6 DEF CliLosesConn, ServerTypeOK, WorldTypeOK, ChildStage, StatusStage,
             OutputOrder, PipesDrained, RawStage, ProcessExit
    <2> QED
      BY <2>1, <2>2, <2>3
  <1> QED
    BY <1>1, <1>2, <1>3, <1>4, <1>5, <1>6

\* The client preserves the invariant.
LEMMA CliSteps ==
    ASSUME IInv,
           NEW s \in AllStreams, NEW isTerm \in BOOLEAN,
           \/ CliOpen \/ CliReady \/ CliEnd \/ CliEscape \/ CliSignal(isTerm)
           \/ CliWatchdog \/ CliDrain \/ CliCopy(s) \/ CliStdinEof
    PROVE  IInv'
  <1> USE DEF IInv, TypeOK, clientVars, serverVars, procVars, netVars, CliKeep
  <1>1. CASE CliOpen
    <2>1. ClientTypeOK'
      BY <1>1 DEF CliOpen, ClientTypeOK, CliStates, Counts
    <2>2. ClientDrained'
      BY <1>1 DEF CliOpen, ClientDrained
    <2>3. RawStage'
      BY <1>1 DEF CliOpen, RawStage
    <2>4. ServerTypeOK' /\ WorldTypeOK' /\ ChildStage' /\ StatusStage' /\ OutputOrder' /\ PipesDrained'
      BY <1>1 DEF CliOpen, ServerTypeOK, WorldTypeOK, ChildStage, StatusStage, OutputOrder,
             PipesDrained, ProcessExit
    <2> QED
      BY <2>1, <2>2, <2>3, <2>4
  <1>2. CASE CliReady
    <2>1. ClientTypeOK'
      BY <1>2 DEF CliReady, CliFails, Arms, ClientHears, ClientTypeOK, CliStates, Counts
    <2>2. ClientDrained'
      BY <1>2 DEF CliReady, CliFails, Arms, ClientHears, ClientDrained
    <2>3. RawStage'
      BY <1>2 DEF CliReady, CliFails, Arms, ClientHears, RawStage, WorldTypeOK, Counts
    <2>4. ServerTypeOK' /\ WorldTypeOK' /\ ChildStage' /\ StatusStage' /\ OutputOrder' /\ PipesDrained'
      BY <1>2 DEF CliReady, CliFails, ServerTypeOK, WorldTypeOK, ChildStage, StatusStage,
             OutputOrder, PipesDrained, ProcessExit
    <2> QED
      BY <2>1, <2>2, <2>3, <2>4
  <1>3. CASE CliEnd
    <2>1. ClientTypeOK'
      BY <1>3 DEF CliEnd, ClientTypeOK, CliStates, Counts
    <2>2. ClientDrained'
      BY <1>3 DEF CliEnd, ClientDrained
    <2>3. RawStage'
      BY <1>3 DEF CliEnd, RawStage
    <2>4. ServerTypeOK' /\ WorldTypeOK' /\ ChildStage' /\ StatusStage' /\ OutputOrder' /\ PipesDrained'
      BY <1>3 DEF CliEnd, ServerTypeOK, WorldTypeOK, ChildStage, StatusStage, OutputOrder,
             PipesDrained, ProcessExit
    <2> QED
      BY <2>1, <2>2, <2>3, <2>4
  <1>4. CASE CliEscape
    <2>1. ClientTypeOK'
      BY <1>4 DEF CliEscape, ClientTypeOK, CliStates, Counts
    <2>2. ClientDrained'
      BY <1>4 DEF CliEscape, ClientDrained
    <2>3. RawStage'
      BY <1>4 DEF CliEscape, RawStage
    <2>4. ServerTypeOK' /\ WorldTypeOK' /\ ChildStage' /\ StatusStage' /\ OutputOrder' /\ PipesDrained'
      BY <1>4 DEF CliEscape, ServerTypeOK, WorldTypeOK, ChildStage, StatusStage, OutputOrder,
             PipesDrained, ProcessExit
    <2> QED
      BY <2>1, <2>2, <2>3, <2>4
  <1>5. CASE CliSignal(isTerm)
    <2>1. ClientTypeOK'
      BY <1>5 DEF CliSignal, Arms, ClientTypeOK, CliStates, Counts
    <2>2. WorldTypeOK'
      BY <1>5 DEF CliSignal, Arms, WorldTypeOK, Counts, Exits
    <2>3. RawStage'
      BY <1>5 DEF CliSignal, Arms, RawStage
    <2>4. ServerTypeOK' /\ ChildStage' /\ StatusStage' /\ OutputOrder' /\ PipesDrained' /\ ClientDrained'
      BY <1>5 DEF CliSignal, ServerTypeOK, ChildStage, StatusStage, OutputOrder, PipesDrained,
             ClientDrained, ProcessExit, Streams
    <2> QED
      BY <2>1, <2>2, <2>3, <2>4
  <1>6. CASE CliWatchdog
    <2>1. ClientTypeOK'
      BY <1>6 DEF CliWatchdog, ClientTypeOK, CliStates, Counts
    <2>2. ClientDrained'
      BY <1>6 DEF CliWatchdog, ClientDrained
    <2>3. RawStage'
      BY <1>6 DEF CliWatchdog, RawStage
    <2>4. ServerTypeOK' /\ WorldTypeOK' /\ ChildStage' /\ StatusStage' /\ OutputOrder' /\ PipesDrained'
      BY <1>6 DEF CliWatchdog, ServerTypeOK, WorldTypeOK, ChildStage, StatusStage, OutputOrder,
             PipesDrained, ProcessExit
    <2> QED
      BY <2>1, <2>2, <2>3, <2>4
  <1>7. CASE CliDrain
    <2>1. ClientTypeOK'
      BY <1>7 DEF CliDrain, Awaited, RawDropped, ClientTypeOK, CliStates, Counts
    <2>2. ClientDrained'
      BY <1>7 DEF CliDrain, Awaited, RawDropped, ClientDrained, StatusStage, OutputOrder,
             ClientTypeOK, WorldTypeOK, ServerTypeOK, Counts, AllStreams, Streams
    <2>3. RawStage'
      BY <1>7 DEF CliDrain, Awaited, RawDropped, RawStage
    <2>4. ServerTypeOK' /\ WorldTypeOK' /\ ChildStage' /\ StatusStage' /\ OutputOrder' /\ PipesDrained'
      BY <1>7 DEF CliDrain, ServerTypeOK, WorldTypeOK, ChildStage, StatusStage, OutputOrder,
             PipesDrained, ProcessExit
    <2> QED
      BY <2>1, <2>2, <2>3, <2>4
  <1>8. CASE CliCopy(s)
    <2>1. ClientTypeOK'
      BY <1>8 DEF CliCopy, Advance, ClientTypeOK, CliStates, Counts
    <2>2. OutputOrder'
      BY <1>8 DEF CliCopy, Advance, OutputOrder, ChildStage, StatusStage, ServerTypeOK,
             WorldTypeOK, ClientTypeOK, Counts
    <2>3. ClientDrained'
      BY <1>8 DEF CliCopy, Advance, ClientDrained, StatusStage, OutputOrder, ClientTypeOK,
             WorldTypeOK, ServerTypeOK, Counts, AllStreams, Streams
    <2>4. ServerTypeOK' /\ WorldTypeOK' /\ ChildStage' /\ StatusStage' /\ PipesDrained' /\ RawStage'
      BY <1>8 DEF CliCopy, ServerTypeOK, WorldTypeOK, ChildStage, StatusStage, PipesDrained,
             RawStage, ProcessExit
    <2> QED
      BY <2>1, <2>2, <2>3, <2>4
  <1>9. CASE CliStdinEof
    <2>1. WorldTypeOK'
      BY <1>9 DEF CliStdinEof, WorldTypeOK, Counts, Exits
    <2>2. ClientTypeOK' /\ ServerTypeOK' /\ ChildStage' /\ StatusStage' /\ OutputOrder' /\ PipesDrained' /\
            ClientDrained' /\ RawStage'
      BY <1>9 DEF CliStdinEof, ClientTypeOK, ServerTypeOK, ChildStage, StatusStage,
             OutputOrder, PipesDrained, ClientDrained, RawStage, ProcessExit, Streams
    <2> QED
      BY <2>1, <2>2
  <1> QED
    BY <1>1, <1>2, <1>3, <1>4, <1>5, <1>6, <1>7, <1>8, <1>9

\* Nothing happens.
LEMMA Stutter ==
    ASSUME IInv, UNCHANGED vars
    PROVE  IInv'
  BY DEF IInv, TypeOK, ClientTypeOK, ServerTypeOK, WorldTypeOK, ChildStage, StatusStage, OutputOrder,
         PipesDrained, ClientDrained, RawStage, ProcessExit, Streams, vars, clientVars, serverVars,
         procVars, netVars

\* The invariant that carries the properties of a session.
THEOREM Invariance == Spec => []IInv
  <1>1. IInv /\ [Next]_vars => IInv'
    <2> SUFFICES ASSUME IInv, [Next]_vars PROVE IInv'
      OBVIOUS
    <2>1. CASE UNCHANGED vars
      BY <2>1, Stutter
    <2>2. CASE SrvTask
      BY <2>2, SrvSteps DEF SrvTask
    <2>3. CASE CliTask \/ CliWatchdog
      <3>1. PICK s \in AllStreams : TRUE
        BY DEF AllStreams
      <3>2. PICK t \in BOOLEAN : TRUE
        OBVIOUS
      <3> QED
        BY <2>3, CliSteps DEF CliTask
    <2>4. CASE Free
      BY <2>4, CliSteps, ProcSteps, NetSteps DEF Free, AllStreams
    <2>5. CASE \E s \in AllStreams : SrvCopy(s) \/ Arrive(s) \/ CliCopy(s)
      BY <2>5, CopySteps, NetSteps, CliSteps DEF SrvCopy
    <2>6. CASE \/ ArriveStatus \/ ArriveSignal \/ SrvStdinEof \/ SrvLosesConn \/ CliLosesConn
               \/ ChildKilled
      BY <2>6, NetSteps, CopySteps, ProcSteps DEF AllStreams
    <2> QED
      BY <2>1, <2>2, <2>3, <2>4, <2>5, <2>6 DEF Next
  <1> QED
    BY <1>1, InitIInv, PTL DEF Spec

-----------------------------------------------------------------------------
(* What follows from it.                                                   *)

\* Every variable of a session keeps its shape.
THEOREM TypeCorrect == Spec => []TypeOK
  <1>1. IInv => TypeOK
    BY DEF IInv
  <1> QED
    BY <1>1, Invariance, PTL

\* A client that exits with the remote status, through CliDrain and with its
\* connection up, has shown all that the remote processes wrote.
THEOREM ShowsAll == Spec => []OutputComplete
  <1>1. IInv => OutputComplete
    <2> SUFFICES ASSUME IInv, cli = "exited", cliEnd = "remote", cliConn, ~cliTimedOut,
                        NEW s \in Streams
                 PROVE  shown[s] = made[s]
      BY DEF OutputComplete
    <2>1. s \in AllStreams /\ cliCopy[s] = "done"
      BY DEF IInv, ClientDrained, Streams, AllStreams
    <2>2. s \in arrivedFin /\ shown[s] = arrived[s]
      BY <2>1 DEF IInv, ClientDrained
    <2> QED
      BY <2>1, <2>2 DEF IInv, OutputOrder
  <1> QED
    BY <1>1, Invariance, PTL

\* Over pipes all output is at the client before the status is.
THEOREM StatusLast == Spec => []PipesOutputBeforeStatus
  <1>1. IInv => PipesOutputBeforeStatus
    <2> SUFFICES ASSUME IInv, mode = "pipes", statusMsg = "arrived", result # "error",
                        NEW s \in Streams
                 PROVE  arrived[s] = made[s] /\ s \in arrivedFin
      BY DEF PipesOutputBeforeStatus
    <2>1. s \in arrivedFin
      BY DEF IInv, StatusStage, PipesDrained, Streams, AllStreams
    <2> QED
      BY <2>1 DEF IInv, TypeOK, WorldTypeOK, OutputOrder
  <1> QED
    BY <1>1, Invariance, PTL

\* The child is reaped, the status is its own and the terminal is restored.
THEOREM EndsClean == Spec => []CleanEnd
  <1>1. IInv => NoChildLeftBehind
    BY DEF IInv, ChildStage, NoChildLeftBehind
  <1>2. IInv => StatusIsExit
    BY DEF IInv, StatusStage, ClientDrained, ProcessExit, StatusIsExit
  <1>3. IInv => TerminalRestored
    BY DEF IInv, RawStage, TerminalRestored
  <1> QED
    BY <1>1, <1>2, <1>3, Invariance, PTL DEF CleanEnd

-----------------------------------------------------------------------------
(* The disconnect escape in the terminal's input, for inputs of any length *)
(* over any set of bytes, cut anywhere.                                    *)

\* The buffers of the filter hold bytes of the input.
FilterTypeOK(bytes) ==
    /\ typed \in Seq(bytes) /\ read \in 0..Len(typed)
    /\ rest \in Seq(bytes) /\ out \in Seq(bytes) /\ held \in Seq(bytes)

\* A non-empty set of natural numbers has a least element.
LEMMA LeastOf ==
    ASSUME NEW S, S \subseteq Nat, S # {}
    PROVE  \E m \in S : \A n \in S : m <= n
  <1> DEFINE R == OpToRel(<, Nat)
  <1>1. IsWellFoundedOn(R, Nat)
    BY NatLessThanWellFounded
  <1>2. \A m, n \in Nat : n < m => <<n, m>> \in R
    BY DEF OpToRel
  <1> HIDE DEF R
  <1>3. PICK m \in S : \A n \in S : <<n, m>> \notin R
    BY <1>1, WFMin
  <1>4. \A n \in S : m \in Nat /\ n \in Nat /\ ~(n < m)
    BY <1>2, <1>3
  <1> QED
    BY <1>4

\* A control sequence that begins at the first byte.
IsCsi(s) == Len(s) >= 2 /\ s[1] = "ESC" /\ s[2] = "["

\* Its parameters reach up to byte e.
ParamsTo(s, e) == \A m \in 3..e : s[m] \in ParamBytes

\* It ends at byte e, and the key that it then is.
EndsAt(s, e) == IsCsi(s) /\ e \in 3..Len(s) /\ s[e] \notin ParamBytes /\ ParamsTo(s, e - 1)

EndKey(s, e) ==
    IF s[e] \in FinalBytes THEN [len |-> e, key |-> ClassifyCsi(SubSeq(s, 3, e - 1), s[e])]
    ELSE [len |-> e - 1, key |-> "other"]

\* What next_escape_key returns where a control sequence has an end.
LEMMA KeyEnds ==
    ASSUME NEW bytes, NEW s \in Seq(bytes), NEW e, EndsAt(s, e)
    PROVE  NextEscapeKey(s) = EndKey(s, e)
  <1> DEFINE ends == {i \in 3..Len(s) : s[i] \notin ParamBytes}
             least == CHOOSE m \in ends : \A n \in ends : m <= n
  <1>1. e \in ends /\ e \in 3..Len(s) /\ Len(s) \in Nat
    BY DEF EndsAt
  <1>2. \A n \in ends : e <= n
    BY <1>1 DEF EndsAt, ParamsTo
  <1>3. least \in ends /\ \A n \in ends : least <= n
    BY <1>1, <1>2, Zenon
  <1>4. least = e
    <2>1. least \in 3..Len(s)
      BY <1>3
    <2>2. least <= e /\ e <= least
      BY <1>1, <1>2, <1>3
    <2> HIDE DEF least, ends
    <2> QED
      BY <1>1, <2>1, <2>2
  <1>5. IsCsi(s) /\ ends # {}
    BY <1>1 DEF EndsAt
  <1>6. NextEscapeKey(s) = EndKey(s, least)
    BY <1>5, Zenon DEF NextEscapeKey, EndKey, IsCsi
  <1> QED
    BY <1>4, <1>6

\* Every input has a key by itself, a sequence that ends, or an open sequence.
LEMMA KeyCases ==
    ASSUME NEW bytes, NEW s \in Seq(bytes), s # <<>>
    PROVE  \/ ~IsCsi(s) /\ NextEscapeKey(s) = [len |-> 1, key |-> ClassifyByte(s[1])]
           \/ \E e \in 3..Len(s) : EndsAt(s, e)
           \/ /\ IsCsi(s) /\ ParamsTo(s, Len(s))
              /\ NextEscapeKey(s) = IF Len(s) > MaxPartial THEN [len |-> Len(s), key |-> "other"]
                                    ELSE Incomplete
  <1> DEFINE ends == {i \in 3..Len(s) : s[i] \notin ParamBytes}
  <1>1. CASE ~IsCsi(s)
    BY <1>1 DEF NextEscapeKey, IsCsi
  <1>2. CASE IsCsi(s) /\ ends = {}
    <2>1. ParamsTo(s, Len(s))
      BY <1>2 DEF ParamsTo
    <2>2. NextEscapeKey(s) = IF Len(s) > MaxPartial THEN [len |-> Len(s), key |-> "other"]
                             ELSE Incomplete
      BY <1>2 DEF NextEscapeKey, IsCsi
    <2> QED
      BY <1>2, <2>1, <2>2
  <1>3. CASE IsCsi(s) /\ ends # {}
    <2>1. Len(s) \in Nat /\ ends \subseteq Nat
      OBVIOUS
    <2>2. PICK e \in ends : \A n \in ends : e <= n
      BY <1>3, <2>1, LeastOf
    <2>3. e \in 3..Len(s) /\ s[e] \notin ParamBytes
      OBVIOUS
    <2>4. \A m \in 3..e - 1 : m \in 3..Len(s) /\ ~(e <= m)
      BY <2>1, <2>3
    <2>5. \A m \in 3..e - 1 : s[m] \in ParamBytes
      BY <2>2, <2>4
    <2> QED
      BY <1>3, <2>3, <2>5 DEF EndsAt, ParamsTo
  <1> QED
    BY <1>1, <1>2, <1>3

\* next_escape_key takes a byte at least, unless a sequence is incomplete, and
\* never more than there is.
LEMMA KeyWithin ==
    ASSUME NEW bytes, NEW s \in Seq(bytes), s # <<>>
    PROVE  /\ NextEscapeKey(s).len \in 0..Len(s)
           /\ NextEscapeKey(s) # Incomplete => NextEscapeKey(s).len \in 1..Len(s)
  <1>1. Len(s) \in Nat /\ Len(s) >= 1
    OBVIOUS
  <1>2. CASE NextEscapeKey(s) = [len |-> 1, key |-> ClassifyByte(s[1])]
    BY <1>1, <1>2
  <1>3. CASE \E e \in 3..Len(s) : EndsAt(s, e)
    <2>1. PICK e \in 3..Len(s) : EndsAt(s, e)
      BY <1>3
    <2>2. NextEscapeKey(s) = EndKey(s, e)
      BY <2>1, KeyEnds
    <2>3. EndKey(s, e).len \in {e, e - 1}
      BY DEF EndKey
    <2> QED
      BY <1>1, <2>2, <2>3
  <1>4. CASE NextEscapeKey(s) = [len |-> Len(s), key |-> "other"]
    BY <1>1, <1>4
  <1>5. CASE NextEscapeKey(s) = Incomplete
    BY <1>1, <1>5 DEF Incomplete
  <1> QED
    BY <1>2, <1>3, <1>4, <1>5, KeyCases

\* What is read first and what is read next.
LEMMA Adjacent ==
    ASSUME NEW bytes, NEW s \in Seq(bytes), NEW k \in 0..Len(s), NEW n \in k..Len(s)
    PROVE  SubSeq(s, 1, k) \o SubSeq(s, k + 1, n) = SubSeq(s, 1, n)
  <1>1. 1 \in 1..Len(s) + 1 /\ k \in 1 - 1..Len(s)
    OBVIOUS
  <1> QED
    BY <1>1, ConcatAdjacentSubSeq, Zenon

\* A sequence cut in two is put together again.
LEMMA CutAndJoined ==
    ASSUME NEW bytes, NEW s \in Seq(bytes), NEW n \in 0..Len(s)
    PROVE  /\ SubSeq(s, 1, n) \in Seq(bytes) /\ SubSeq(s, n + 1, Len(s)) \in Seq(bytes)
           /\ SubSeq(s, 1, n) \o SubSeq(s, n + 1, Len(s)) = s
  <1>1. Len(s) \in Nat /\ n \in Nat /\ n <= Len(s) /\ \A i \in 1..Len(s) : s[i] \in bytes
    OBVIOUS
  <1>2. SubSeq(s, 1, n) \in Seq(bytes) /\ SubSeq(s, n + 1, Len(s)) \in Seq(bytes)
    BY <1>1
  <1>3. SubSeq(s, 1, n) \o SubSeq(s, n + 1, Len(s)) = SubSeq(s, 1, Len(s))
    <2>1. n \in 0..Len(s) /\ Len(s) \in n..Len(s)
      BY <1>1
    <2> QED
      BY <2>1, Adjacent, Zenon
  <1> QED
    BY <1>2, <1>3, SubSeqFull

\* What handle does with the bytes of a key: unless they complete the escape they
\* are behind what was forwarded and held.
LEMMA HandleKeeps ==
    ASSUME NEW bytes, FilterTypeOK(bytes), ended = "no",
           NEW key, NEW b \in Seq(bytes), Handle(key, b)
    PROVE  /\ out' \in Seq(bytes) /\ held' \in Seq(bytes)
           /\ ended' = "escape" \/ (ended' = "no" /\ out' \o held' = out \o held \o b)
  <1>1. out \in Seq(bytes) /\ held \in Seq(bytes)
    BY DEF FilterTypeOK
  <1>2. /\ out \o held \in Seq(bytes) /\ held \o b \in Seq(bytes) /\ (out \o held) \o b \in Seq(bytes)
        /\ out \o b \in Seq(bytes)
    BY <1>1, ConcatProperties
  <1>3. (out \o held) \o b = out \o (held \o b)
    BY <1>1, ConcatAssociative
  <1>4. ((out \o held) \o b) \o <<>> = (out \o held) \o b
    BY <1>2, ConcatEmptySeq
  <1>5. CASE held # <<>> /\ key = "dot"
    BY <1>1, <1>5 DEF Handle
  <1>6. CASE held # <<>> /\ key = "ignore"
    BY <1>1, <1>2, <1>3, <1>6 DEF Handle
  <1>7. CASE /\ ~(held # <<>> /\ key \in {"dot", "ignore"})
             /\ key = "tilde" /\ lineStart /\ held = <<>>
    <2>1. out \o held = out
      BY <1>1, <1>7, ConcatEmptySeq
    <2> QED
      BY <1>1, <1>2, <1>7, <2>1 DEF Handle
  <1>8. CASE /\ ~(held # <<>> /\ key \in {"dot", "ignore"})
             /\ ~(key = "tilde" /\ lineStart /\ held = <<>>)
    <2>1. out' = (out \o held) \o b /\ held' = <<>> /\ ended' = ended
      BY <1>8 DEF Handle
    <2> QED
      BY <1>2, <1>4, <2>1
  <1> QED
    BY <1>5, <1>6, <1>7, <1>8

\* A step of the filter keeps its buffers and the bytes in them.
LEMMA FilterStep ==
    ASSUME NEW bytes, FilterTypeOK(bytes), InputKept, [FilterNext]_filterVars
    PROVE  FilterTypeOK(bytes)' /\ InputKept'
  <1>1. /\ typed \in Seq(bytes) /\ read \in 0..Len(typed) /\ Len(typed) \in Nat
        /\ rest \in Seq(bytes) /\ out \in Seq(bytes) /\ held \in Seq(bytes)
        /\ out \o held \in Seq(bytes)
    BY ConcatProperties DEF FilterTypeOK
  <1> DEFINE through == out \o held
  <1>2. through \in Seq(bytes)
    BY <1>1
  <1>3. CASE UNCHANGED filterVars
    BY <1>3 DEF filterVars, FilterTypeOK, InputKept
  <1>4. ASSUME NEW n \in DOMAIN typed, Read(n) PROVE FilterTypeOK(bytes)' /\ InputKept'
    <2>1. n \in read + 1..Len(typed) /\ ended = "no"
      BY <1>4 DEF Read
    <2> DEFINE new == SubSeq(typed, read + 1, n)
    <2>2. new \in Seq(bytes)
      BY <1>1, <2>1
    <2>3. rest \o new \in Seq(bytes)
      BY <1>1, <2>2, ConcatProperties
    <2>4. FilterTypeOK(bytes)'
      BY <1>1, <1>4, <2>1, <2>3 DEF Read, FilterTypeOK
    <2>5. through \o (rest \o new) = (through \o rest) \o new
      <3> HIDE DEF new, through
      <3> QED
        BY <1>1, <1>2, <2>2
    <2>6. SubSeq(typed, 1, read) \o new = SubSeq(typed, 1, n)
      <3>1. read \in 0..Len(typed) /\ n \in read..Len(typed)
        BY <1>1, <2>1
      <3> QED
        BY <1>1, <3>1, Adjacent, Zenon
    <2>7. InputKept'
      BY <1>4, <2>1, <2>5, <2>6 DEF Read, InputKept
    <2> QED
      BY <2>4, <2>7
  <1>5. CASE Push
    <2> DEFINE k == IF rest = <<>> THEN Incomplete ELSE NextEscapeKey(rest)
               b == SubSeq(rest, 1, k.len)
               left == SubSeq(rest, k.len + 1, Len(rest))
    <2>1. CASE k = Incomplete
      BY <1>5, <2>1 DEF Push, FilterTypeOK, InputKept
    <2>2. CASE k # Incomplete
      <3>1. rest # <<>> /\ ended = "no" /\ Handle(k.key, b) /\ rest' = left
            /\ UNCHANGED <<typed, read>>
        BY <1>5, <2>2 DEF Push
      <3>2. k.len \in 0..Len(rest)
        BY <1>1, <3>1, KeyWithin
      <3>3. b \in Seq(bytes) /\ left \in Seq(bytes)
        BY <1>1, <3>2, CutAndJoined
      <3>4. b \o left = rest
        BY <1>1, <3>2, CutAndJoined
      <3> HIDE DEF b, left, k
      <3>5. /\ out' \in Seq(bytes) /\ held' \in Seq(bytes)
            /\ ended' = "escape" \/ (ended' = "no" /\ out' \o held' = (out \o held) \o b)
        BY <3>1, <3>3, HandleKeeps
      <3>6. FilterTypeOK(bytes)'
        BY <1>1, <3>1, <3>3, <3>5 DEF FilterTypeOK
      <3>7. (through \o b) \o left = through \o (b \o left)
        <4> HIDE DEF through
        <4> QED
          BY <1>2, <3>3
      <3>8. InputKept'
        BY <3>1, <3>4, <3>5, <3>7 DEF InputKept
      <3> QED
        BY <3>6, <3>8
    <2> QED
      BY <2>1, <2>2
  <1>6. CASE StdinEof
    <2>1. (out \o held) \o rest = typed
      BY <1>1, <1>6, SubSeqFull DEF StdinEof, InputKept
    <2> QED
      BY <1>1, <1>6, <2>1 DEF StdinEof, Finish, FilterTypeOK, InputKept
  <1> QED
    BY <1>3, <1>4, <1>5, <1>6 DEF FilterNext

\* Whatever is typed and wherever the reads cut it, every byte is forwarded, held
\* or carried over, once and in order, and forwarded at the end of the input.
THEOREM InputSafe ==
    ASSUME NEW CONSTANT bytes, NEW CONSTANT inputs, inputs \subseteq Seq(bytes)
    PROVE  FilterSpec(inputs) => []InputKept
  <1>1. FilterInit(inputs) => FilterTypeOK(bytes) /\ InputKept
    <2> SUFFICES ASSUME FilterInit(inputs) PROVE FilterTypeOK(bytes) /\ InputKept
      OBVIOUS
    <2>1. typed \in Seq(bytes) /\ Len(typed) \in Nat /\ <<>> \in Seq(bytes)
      BY DEF FilterInit
    <2>2. SubSeq(typed, 1, 0) = <<>> /\ (<<>> \o <<>>) \o <<>> = <<>>
      BY <2>1, SubSeqEmpty, ConcatEmptySeq
    <2> QED
      BY <2>1, <2>2 DEF FilterInit, FilterTypeOK, InputKept
  <1>2. FilterTypeOK(bytes) /\ InputKept /\ [FilterNext]_filterVars
            => (FilterTypeOK(bytes) /\ InputKept)'
    BY FilterStep
  <1> QED
    BY <1>1, <1>2, PTL DEF FilterSpec

-----------------------------------------------------------------------------
(* The escape of the user is the one the filter finds: each key stays the  *)
(* same key however the reads cut the input, the keys that push handled    *)
(* are the first ones of the input, and the filter tracks them.            *)

\* An open sequence that is longer than the code waits for.
TooLong(s) == IsCsi(s) /\ ParamsTo(s, Len(s)) /\ Len(s) > MaxPartial

\* A key that is complete is the same key when more is read, unless the reads cut
\* an ESC from its [ or an open sequence was let through.
LEMMA KeyStable ==
    ASSUME NEW bytes, NEW s \in Seq(bytes), NEW t \in Seq(bytes),
           s # <<>>, Len(s) <= Len(t), \A i \in 1..Len(s) : t[i] = s[i],
           ~TooLong(s), Len(s) = 1 => ~IsCsi(t), NextEscapeKey(s) # Incomplete
    PROVE  NextEscapeKey(t) = NextEscapeKey(s)
  <1>1. /\ Len(s) \in Nat /\ Len(t) \in Nat /\ Len(s) >= 1 /\ t # <<>>
        /\ t[1] = s[1] /\ (Len(s) >= 2 => t[2] = s[2])
    OBVIOUS
  <1>2. CASE ~IsCsi(s) /\ NextEscapeKey(s) = [len |-> 1, key |-> ClassifyByte(s[1])]
    <2>1. ~IsCsi(t)
      <3>1. CASE Len(s) >= 2
        BY <1>1, <1>2, <3>1 DEF IsCsi
      <3>2. CASE Len(s) = 1
        BY <3>2
      <3>3. \A n \in Nat : n >= 1 => n >= 2 \/ n = 1
        OBVIOUS
      <3> QED
        BY <1>1, <3>1, <3>2, <3>3, Zenon
    <2>2. NextEscapeKey(t) = [len |-> 1, key |-> ClassifyByte(t[1])]
      BY <2>1 DEF NextEscapeKey, IsCsi
    <2> QED
      BY <1>1, <1>2, <2>2
  <1>3. CASE \E e \in 3..Len(s) : EndsAt(s, e)
    <2>1. PICK e \in 3..Len(s) : EndsAt(s, e)
      BY <1>3
    <2>2. e \in 3..Len(t) /\ t[e] = s[e] /\ \A m \in 3..e - 1 : t[m] = s[m]
      BY <1>1
    <2>3. EndsAt(t, e)
      BY <1>1, <2>1, <2>2 DEF EndsAt, IsCsi, ParamsTo
    <2>4. SubSeq(t, 3, e - 1) = SubSeq(s, 3, e - 1)
      BY <1>1, <2>2
    <2>5. NextEscapeKey(s) = EndKey(s, e) /\ NextEscapeKey(t) = EndKey(t, e)
      BY <2>1, <2>3, KeyEnds
    <2> QED
      BY <2>2, <2>4, <2>5 DEF EndKey
  <1>4. CASE IsCsi(s) /\ ParamsTo(s, Len(s)) /\ NextEscapeKey(s) = 
             IF Len(s) > MaxPartial THEN [len |-> Len(s), key |-> "other"] ELSE Incomplete
    BY <1>4 DEF TooLong
  <1> QED
    BY <1>2, <1>3, <1>4, KeyCases

\* The classification of a kitty key event is what the user meant by it.
LEMMA KittyMeant ==
    ASSUME NEW p \in DOMAIN Kitty
    PROVE  ClassifyKitty(Kitty[p]) = Meant[p]
  <1>1. p \in {"pEnter", "pTilde", "pTildeUp", "pText", "pDot", "pCtrlDot", "pShift"}
    BY DEF Kitty
  <1>2. Absent \notin Nat
    BY FilterAssumption
  <1>3. CASE p = "pEnter"
    BY <1>2, <1>3 DEF Kitty, Meant, ClassifyKitty, Mods
  <1>4. CASE p = "pTilde"
    BY <1>2, <1>4 DEF Kitty, Meant, ClassifyKitty, Mods
  <1>5. CASE p = "pTildeUp"
    BY <1>2, <1>5 DEF Kitty, Meant, ClassifyKitty, Mods
  <1>6. CASE p = "pText"
    BY <1>2, <1>6 DEF Kitty, Meant, ClassifyKitty, Mods
  <1>7. CASE p = "pDot"
    BY <1>2, <1>7 DEF Kitty, Meant, ClassifyKitty, Mods
  <1>8. CASE p = "pCtrlDot"
    BY <1>2, <1>8 DEF Kitty, Meant, ClassifyKitty, Mods
  <1>9. CASE p = "pShift"
    BY <1>2, <1>9 DEF Kitty, Meant, ClassifyKitty, Mods
  <1> QED
    BY <1>1, <1>3, <1>4, <1>5, <1>6, <1>7, <1>8, <1>9

\* The key at a byte is the one next_escape_key finds there.
LEMMA KeyMeant ==
    ASSUME NEW bytes, NEW s \in Seq(bytes), NEW i \in 1..Len(s)
    PROVE  KeyAt(s, i) = NextEscapeKey(SubSeq(s, i, Len(s)))
  <1> DEFINE event == /\ i + 3 <= Len(s) /\ s[i] = "ESC" /\ s[i + 1] = "["
                      /\ s[i + 2] \in DOMAIN Kitty /\ s[i + 3] = "u"
             t == SubSeq(s, i, Len(s))
  <1>1. CASE ~event
    BY <1>1 DEF KeyAt
  <1>2. CASE event
    <2>1. t \in Seq(bytes) /\ Len(t) = Len(s) - i + 1 /\ \A m \in 1..Len(t) : t[m] = s[i + m - 1]
      OBVIOUS
    <2>2. Len(t) >= 4 /\ Len(t) \in Nat
      BY <1>2, <2>1
    <2>3. t[1] = "ESC" /\ t[2] = "[" /\ t[3] = s[i + 2] /\ t[4] = "u"
      BY <1>2, <2>1, <2>2
    <2>4. t[3] \in ParamBytes
      BY <1>2, <2>3 DEF ParamBytes
    <2>5. "u" \notin ParamBytes /\ "u" \in FinalBytes
      BY DEF ParamBytes, Kitty, FinalBytes
    <2> HIDE DEF t
    <2>6. EndsAt(t, 4)
      BY <2>2, <2>3, <2>4, <2>5 DEF EndsAt, IsCsi, ParamsTo
    <2>7. NextEscapeKey(t) = [len |-> 4, key |-> ClassifyCsi(SubSeq(t, 3, 3), "u")]
      BY <2>1, <2>3, <2>5, <2>6, KeyEnds DEF EndKey
    <2> DEFINE params == SubSeq(t, 3, 3)
    <2>8. params \in Seq(bytes) /\ Len(params) = 1 /\ params[1] = t[3]
      BY <2>1, <2>2
    <2>9. t[3] \in DOMAIN Kitty /\ t[3] # "?"
      BY <1>2, <2>3 DEF Kitty
    <2>10. ClassifyCsi(params, "u") = ClassifyKitty(Kitty[t[3]])
      <3> HIDE DEF params
      <3>1. Len(<<>>) # Len(params)
        BY <2>8
      <3>2. params # <<>>
        BY <3>1
      <3> QED
        BY <2>8, <2>9, <3>2 DEF ClassifyCsi
    <2>11. ClassifyKitty(Kitty[t[3]]) = Meant[t[3]]
      BY <2>9, KittyMeant
    <2>12. KeyAt(s, i) = [len |-> 4, key |-> Meant[s[i + 2]]]
      BY <1>2 DEF KeyAt
    <2> QED
      BY <2>3, <2>7, <2>10, <2>11, <2>12 DEF t
  <1> QED
    BY <1>1, <1>2

\* A key takes no more than there is, and a byte at least when it is complete.
LEMMA KeyLen ==
    ASSUME NEW bytes, NEW s \in Seq(bytes), NEW i \in 1..Len(s)
    PROVE  /\ KeyAt(s, i).len \in Nat /\ i + KeyAt(s, i).len \in i..Len(s) + 1
           /\ KeyAt(s, i) # Incomplete => KeyAt(s, i).len >= 1
  <1> DEFINE t == SubSeq(s, i, Len(s))
  <1>1. t \in Seq(bytes) /\ Len(t) = Len(s) - i + 1 /\ Len(s) \in Nat
    OBVIOUS
  <1>2. t # <<>>
    BY <1>1
  <1>3. KeyAt(s, i) = NextEscapeKey(t)
    BY KeyMeant
  <1> HIDE DEF t
  <1>4. /\ KeyAt(s, i).len \in 0..Len(t)
        /\ KeyAt(s, i) # Incomplete => KeyAt(s, i).len \in 1..Len(t)
    BY <1>1, <1>2, <1>3, KeyWithin
  <1> QED
    BY <1>1, <1>4

\* A complete key at byte j that byte i follows.
Behind(s, j, i) == KeyAt(s, j) # Incomplete /\ j + KeyAt(s, j).len = i

\* The bytes a key may start at are what their definition says: the function it
\* defines by recursion exists.  They are the least set with the first byte in it
\* that is closed under what follows a key.
LEMMA StartsFollow ==
    ASSUME NEW s, Len(s) \in Nat
    PROVE  /\ Starts(s) \subseteq 1..Len(s) + 1
           /\ \A i \in 1..Len(s) + 1 :
                i \in Starts(s) <=> i = 1 \/ \E j \in 1..i - 1 : Behind(s, j, i) /\ j \in Starts(s)
  <1> DEFINE B == 1..Len(s) + 1
             From(i, D) == i = 1 \/ \E j \in 1..i - 1 : Behind(s, j, i) /\ j \in D
             Closed(D) == \A i \in B : From(i, D) => i \in D
             L == {i \in B : \A D \in SUBSET B : Closed(D) => i \in D}
             Run(f) == f = [i \in B |-> i = 1 \/ \E j \in 1..i - 1 : Behind(s, j, i) /\ f[j]]
  <1>1. Closed(L)
    <2> SUFFICES ASSUME NEW i \in B, From(i, L), NEW D \in SUBSET B, Closed(D) PROVE i \in D
      BY Zenon
    <2>1. From(i, D)
      BY Zenon
    <2> QED
      BY <2>1, Zenon
  <1>2. \A i \in L : From(i, L)
    <2> DEFINE M == {i \in L : From(i, L)}
    <2>1. M \in SUBSET B
      BY Zenon
    <2>2. \A i \in B : From(i, M) => From(i, L)
      BY Zenon
    <2>3. Closed(M)
      BY <1>1, <2>2, Zenon
    <2>4. \A i \in L : i \in M
      BY <2>1, <2>3, Zenon
    <2> QED
      BY <2>4, Zenon
  <1>3. \A i \in B : i \in L <=> From(i, L)
    BY <1>1, <1>2, Zenon
  <1> DEFINE f == [i \in B |-> i \in L]
  <1>4. \A i \in B : \A j \in 1..i - 1 : j \in B /\ f[j] = (j \in L)
    <2>1. \A i \in B : \A j \in 1..i - 1 : j \in B
      OBVIOUS
    <2> QED
      BY <2>1, Zenon
  <1> HIDE DEF L
  <1>5. \A i \in B : (i \in L) <=> (i = 1 \/ \E j \in 1..i - 1 : Behind(s, j, i) /\ f[j])
    BY <1>3, <1>4, Zenon
  <1>6. Run(f)
    <2>1. \A i \in B : f[i] = (i = 1 \/ \E j \in 1..i - 1 : Behind(s, j, i) /\ f[j])
      <3> SUFFICES ASSUME NEW i \in B
                   PROVE  f[i] = (i = 1 \/ \E j \in 1..i - 1 : Behind(s, j, i) /\ f[j])
        OBVIOUS
      <3>1. f[i] = (i \in L)
        BY Zenon
      <3>2. (i \in L) <=> (i = 1 \/ \E j \in 1..i - 1 : Behind(s, j, i) /\ f[j])
        BY <1>5
      <3> DEFINE now == i = 1 \/ \E j \in 1..i - 1 : Behind(s, j, i) /\ f[j]
      <3> HIDE DEF f
      <3>3. now \in BOOLEAN /\ (i \in L) \in BOOLEAN
        OBVIOUS
      <3>4. (i \in L) = now
        <4> HIDE DEF now
        <4> QED BY <3>2, <3>3 DEF now
      <3> QED
        BY <3>1, <3>4
    <2>2. f = [i \in B |-> f[i]]
      BY Zenon
    <2> HIDE DEF f
    <2> QED
      BY <2>1, <2>2, Zenon
  <1> DEFINE start == CHOOSE g : Run(g)
  <1>7. Run(start)
    BY <1>6, Zenon
  <1>8. Starts(s) = {i \in B : start[i]}
    BY Zenon DEF Starts, Behind
  <1> HIDE DEF start
  <1>9. \A i \in B : start[i] = (i = 1 \/ \E j \in 1..i - 1 : Behind(s, j, i) /\ start[j])
    BY <1>7, Zenon
  <1>10. \A i \in B : \A j \in 1..i - 1 : j \in B
    OBVIOUS
  <1>11. \A i \in B : i \in Starts(s) <=> i = 1 \/ \E j \in 1..i - 1 : Behind(s, j, i) /\ j \in Starts(s)
    BY <1>8, <1>9, <1>10, Zenon
  <1> QED
    BY <1>8, <1>11, Zenon

\* The keys that push has handled: they start at the bytes D, follow one another
\* from the first byte on, and take the first c bytes.
Parse(s, c, D) ==
    /\ c \in 0..Len(s) /\ D \subseteq 1..c /\ 1 \in D \cup {c + 1}
    /\ \A j \in D : KeyAt(s, j) # Incomplete /\ j + KeyAt(s, j).len \in D \cup {c + 1}
    /\ \A i \in D \cup {c + 1} : i = 1 \/ \E j \in D : j + KeyAt(s, j).len = i

KeysIn(s, D) == [j \in D |-> KeyAt(s, j).key]

\* Up to the first byte that is not handled, keys start where push found them.
LEMMA ParseStarts ==
    ASSUME NEW bytes, NEW s \in Seq(bytes), NEW c, NEW D, Parse(s, c, D)
    PROVE  \A i \in 1..c + 1 : i \in Starts(s) <=> i \in D \cup {c + 1}
  <1> DEFINE bad == {i \in 1..c + 1 : ~(i \in Starts(s) <=> i \in D \cup {c + 1})}
  <1>1. Len(s) \in Nat /\ c \in Nat /\ c <= Len(s) /\ \A j \in D : j \in 1..c
    BY DEF Parse
  <1>2. SUFFICES ASSUME bad # {} PROVE FALSE
    OBVIOUS
  <1>3. bad \subseteq Nat
    BY <1>1
  <1>4. PICK i \in bad : \A n \in bad : i <= n
    <2> HIDE DEF bad
    <2> QED BY <1>2, <1>3, LeastOf
  <1>5. i \in 1..c + 1 /\ i \in 1..Len(s) + 1
    BY <1>1
  <1>6. \A j \in 1..i - 1 : j \in 1..c /\ j \notin bad
    BY <1>1, <1>4, <1>5
  <1>7. \A j \in 1..i - 1 : j \in Starts(s) <=> j \in D
    <2> SUFFICES ASSUME NEW j \in 1..i - 1 PROVE j \in Starts(s) <=> j \in D
      OBVIOUS
    <2>1. j \in 1..c + 1 /\ j # c + 1
      BY <1>1, <1>6
    <2> QED
      BY <1>6, <2>1, Zenon
  <1>8. i \in Starts(s) <=> i = 1 \/ \E j \in 1..i - 1 : Behind(s, j, i) /\ j \in Starts(s)
    BY <1>1, <1>5, StartsFollow
  <1>9. i \in Starts(s) <=> i = 1 \/ \E j \in 1..i - 1 : Behind(s, j, i) /\ j \in D
    BY <1>7, <1>8, Zenon
  <1>10. i \in Starts(s) => i \in D \cup {c + 1}
    BY <1>9, Zenon DEF Parse, Behind
  <1>11. ASSUME i \in D \cup {c + 1} PROVE i \in Starts(s)
    <2>1. CASE i = 1
      BY <1>9, <2>1, Zenon
    <2>2. CASE i # 1
      <3>1. PICK j \in D : j + KeyAt(s, j).len = i
        BY <1>11, <2>2, Zenon DEF Parse
      <3>2. KeyAt(s, j) # Incomplete /\ j \in 1..c /\ j \in 1..Len(s)
        BY <1>1, <3>1 DEF Parse
      <3>3. KeyAt(s, j).len \in Nat /\ KeyAt(s, j).len >= 1
        BY <3>2, KeyLen
      <3>4. j \in 1..i - 1
        BY <3>1, <3>2, <3>3
      <3> QED
        BY <1>9, <3>1, <3>2, <3>4, Zenon DEF Behind
    <2> QED
      BY <2>1, <2>2
  <1> QED
    BY <1>4, <1>10, <1>11, Zenon

\* A ~ is held: it starts a line and only ignored keys are behind it.
Pending(keys) ==
    \E i \in DOMAIN keys :
        /\ keys[i] = "tilde" /\ StartsLine(keys, i)
        /\ \A m \in DOMAIN keys : i < m => keys[m] = "ignore"

\* `new` is `keys`, which are all at bytes up to c, and a key at byte c + 1.
Adds(keys, new, c, k) ==
    /\ c \in Nat /\ DOMAIN keys \subseteq 1..c
    /\ DOMAIN new = DOMAIN keys \cup {c + 1}
    /\ new[c + 1] = k /\ \A i \in DOMAIN keys : new[i] = keys[i]

\* A key that is added does not change what is in front of it.
LEMMA LineKept ==
    ASSUME NEW keys, NEW new, NEW c, NEW k, Adds(keys, new, c, k), NEW i \in 1..c + 1
    PROVE  StartsLine(new, i) <=> StartsLine(keys, i)
  <1>1. /\ c \in Nat /\ \A m \in DOMAIN keys : m \in 1..c
        /\ \A m : m \in DOMAIN new <=> m \in DOMAIN keys \/ m = c + 1
        /\ \A m \in DOMAIN keys : new[m] = keys[m]
    BY DEF Adds
  <1>2. \A m \in DOMAIN new : m < i => m \in DOMAIN keys /\ new[m] = keys[m]
    BY <1>1
  <1>3. \A m \in DOMAIN keys : m \in DOMAIN new /\ new[m] = keys[m]
    BY <1>1
  <1>4. ASSUME StartsLine(new, i) PROVE StartsLine(keys, i)
    BY <1>2, <1>3, <1>4 DEF StartsLine
  <1>5. ASSUME StartsLine(keys, i) PROVE StartsLine(new, i)
    BY <1>2, <1>3, <1>5 DEF StartsLine
  <1> QED
    BY <1>4, <1>5

\* A pending ~ does not leave the line at its start.
LEMMA PendingLine ==
    ASSUME NEW keys, NEW c \in Nat, DOMAIN keys \subseteq 1..c, Pending(keys)
    PROVE  ~StartsLine(keys, c + 1)
  <1> SUFFICES ASSUME StartsLine(keys, c + 1) PROVE FALSE
    OBVIOUS
  <1>1. PICK i \in DOMAIN keys : /\ keys[i] = "tilde"
                                 /\ \A m \in DOMAIN keys : i < m => keys[m] = "ignore"
    BY DEF Pending
  <1>2. PICK p \in DOMAIN keys \cup {0} :
            /\ p < c + 1 /\ (p # 0 => keys[p] = "enter")
            /\ \A m \in DOMAIN keys : p < m /\ m < c + 1 => keys[m] = "ignore"
    BY DEF StartsLine
  <1>3. i \in Nat /\ i < c + 1 /\ 0 < i /\ p \in Nat
    OBVIOUS
  <1>4. CASE p < i
    BY <1>1, <1>2, <1>3, <1>4
  <1>5. CASE p = i
    BY <1>1, <1>2, <1>3, <1>5
  <1>6. CASE i < p
    BY <1>1, <1>2, <1>3, <1>6
  <1> QED
    BY <1>3, <1>4, <1>5, <1>6

\* The keys hold the escape when they did, or when the new one is the dot that a
\* pending ~ waits for.
LEMMA EscapesNext ==
    ASSUME NEW keys, NEW new, NEW c, NEW k, Adds(keys, new, c, k)
    PROVE  Escapes(new) <=> Escapes(keys) \/ (k = "dot" /\ Pending(keys))
  <1>1. /\ c \in Nat /\ \A m \in DOMAIN keys : m \in 1..c
        /\ \A m : m \in DOMAIN new <=> m \in DOMAIN keys \/ m = c + 1
        /\ \A m \in DOMAIN keys : new[m] = keys[m]
        /\ new[c + 1] = k
    BY DEF Adds
  <1>2. \A m \in DOMAIN new : m \in Nat /\ m <= c + 1 /\ (m < c + 1 => m \in DOMAIN keys)
    BY <1>1
  <1>3. \A m \in DOMAIN keys : /\ m \in DOMAIN new /\ new[m] = keys[m] /\ m \in Nat /\ m < c + 1
                               /\ StartsLine(new, m) <=> StartsLine(keys, m)
    BY <1>1, LineKept
  <1>4. ASSUME Escapes(new) PROVE Escapes(keys) \/ (k = "dot" /\ Pending(keys))
    <2>1. PICK i \in DOMAIN new, j \in DOMAIN new :
            /\ i < j /\ new[i] = "tilde" /\ new[j] = "dot" /\ StartsLine(new, i)
            /\ \A m \in DOMAIN new : i < m /\ m < j => new[m] = "ignore"
      BY <1>4 DEF Escapes
    <2>2. i \in DOMAIN keys
      BY <1>1, <1>2, <2>1
    <2>3. keys[i] = "tilde" /\ StartsLine(keys, i)
      BY <1>3, <2>1, <2>2
    <2>4. \A m \in DOMAIN keys : i < m /\ m < j => keys[m] = "ignore"
      BY <1>3, <2>1
    <2>5. CASE j = c + 1
      <3>1. \A m \in DOMAIN keys : i < m => keys[m] = "ignore"
        BY <1>3, <2>4, <2>5
      <3> QED
        BY <1>1, <2>1, <2>2, <2>3, <2>5, <3>1 DEF Pending
    <2>6. CASE j # c + 1
      <3>1. j \in DOMAIN keys /\ keys[j] = "dot"
        BY <1>1, <2>1, <2>6
      <3> QED
        BY <2>1, <2>2, <2>3, <2>4, <3>1 DEF Escapes
    <2> QED
      BY <2>5, <2>6
  <1>5. ASSUME Escapes(keys) PROVE Escapes(new)
    <2>1. PICK i \in DOMAIN keys, j \in DOMAIN keys :
            /\ i < j /\ keys[i] = "tilde" /\ keys[j] = "dot" /\ StartsLine(keys, i)
            /\ \A m \in DOMAIN keys : i < m /\ m < j => keys[m] = "ignore"
      BY <1>5 DEF Escapes
    <2>2. \A m \in DOMAIN new : i < m /\ m < j => new[m] = "ignore"
      BY <1>1, <1>2, <1>3, <2>1
    <2>3. i \in DOMAIN new /\ j \in DOMAIN new /\ new[i] = "tilde" /\ new[j] = "dot" /\ StartsLine(new, i)
      BY <1>3, <2>1
    <2> QED
      BY <2>1, <2>2, <2>3 DEF Escapes
  <1>6. ASSUME k = "dot", Pending(keys) PROVE Escapes(new)
    <2>1. PICK i \in DOMAIN keys :
            /\ keys[i] = "tilde" /\ StartsLine(keys, i)
            /\ \A m \in DOMAIN keys : i < m => keys[m] = "ignore"
      BY <1>6 DEF Pending
    <2>2. \A m \in DOMAIN new : i < m /\ m < c + 1 => new[m] = "ignore"
      BY <1>2, <1>3, <2>1
    <2>3. i \in DOMAIN new /\ c + 1 \in DOMAIN new /\ i < c + 1 /\ new[i] = "tilde" /\ StartsLine(new, i)
      BY <1>1, <1>3, <2>1
    <2>4. new[c + 1] = "dot"
      BY <1>1, <1>6
    <2> QED
      BY <2>2, <2>3, <2>4 DEF Escapes
  <1> QED
    BY <1>4, <1>5, <1>6

\* A ~ is pending when the new key is a ~ that starts a line, or is ignored.
LEMMA PendingNext ==
    ASSUME NEW keys, NEW new, NEW c, NEW k, Adds(keys, new, c, k)
    PROVE  Pending(new) <=> \/ k = "tilde" /\ StartsLine(keys, c + 1)
                            \/ k = "ignore" /\ Pending(keys)
  <1>1. /\ c \in Nat /\ \A m \in DOMAIN keys : m \in 1..c
        /\ \A m : m \in DOMAIN new <=> m \in DOMAIN keys \/ m = c + 1
        /\ \A m \in DOMAIN keys : new[m] = keys[m]
        /\ new[c + 1] = k
    BY DEF Adds
  <1>2. \A m \in DOMAIN new : m \in Nat /\ m <= c + 1 /\ (m < c + 1 => m \in DOMAIN keys)
    BY <1>1
  <1>3. \A m \in DOMAIN keys : /\ m \in DOMAIN new /\ new[m] = keys[m] /\ m \in Nat /\ m < c + 1
                               /\ StartsLine(new, m) <=> StartsLine(keys, m)
    BY <1>1, LineKept
  <1>4. StartsLine(new, c + 1) <=> StartsLine(keys, c + 1)
    BY <1>1, LineKept
  <1>5. ASSUME Pending(new)
        PROVE  (k = "tilde" /\ StartsLine(keys, c + 1)) \/ (k = "ignore" /\ Pending(keys))
    <2>1. PICK i \in DOMAIN new :
            /\ new[i] = "tilde" /\ StartsLine(new, i)
            /\ \A m \in DOMAIN new : i < m => new[m] = "ignore"
      BY <1>5 DEF Pending
    <2>2. CASE i = c + 1
      BY <1>1, <1>4, <2>1, <2>2
    <2>3. CASE i # c + 1
      <3>1. i \in DOMAIN keys /\ i < c + 1 /\ c + 1 \in DOMAIN new
        BY <1>1, <1>2, <2>3
      <3>2. k = "ignore"
        BY <1>1, <2>1, <3>1
      <3>3. keys[i] = "tilde" /\ StartsLine(keys, i)
        BY <1>3, <2>1, <3>1
      <3>4. \A m \in DOMAIN keys : i < m => keys[m] = "ignore"
        BY <1>3, <2>1
      <3> QED
        BY <3>1, <3>2, <3>3, <3>4 DEF Pending
    <2> QED
      BY <2>2, <2>3
  <1>6. ASSUME k = "tilde", StartsLine(keys, c + 1) PROVE Pending(new)
    <2>1. c + 1 \in DOMAIN new /\ new[c + 1] = "tilde" /\ StartsLine(new, c + 1)
      BY <1>1, <1>4, <1>6
    <2>2. \A m \in DOMAIN new : ~(c + 1 < m)
      BY <1>1, <1>2
    <2> QED
      BY <2>1, <2>2 DEF Pending
  <1>7. ASSUME k = "ignore", Pending(keys) PROVE Pending(new)
    <2>1. PICK i \in DOMAIN keys :
            /\ keys[i] = "tilde" /\ StartsLine(keys, i)
            /\ \A m \in DOMAIN keys : i < m => keys[m] = "ignore"
      BY <1>7 DEF Pending
    <2>2. \A m \in DOMAIN new : i < m => new[m] = "ignore"
      BY <1>1, <1>3, <1>7, <2>1
    <2>3. i \in DOMAIN new /\ new[i] = "tilde" /\ StartsLine(new, i)
      BY <1>3, <2>1
    <2> QED
      BY <2>2, <2>3 DEF Pending
  <1> QED
    BY <1>5, <1>6, <1>7

\* The next key starts a line behind an Enter, or where the new one did and is
\* ignored.
LEMMA LineNext ==
    ASSUME NEW keys, NEW new, NEW c, NEW k, Adds(keys, new, c, k), NEW d \in Nat, d > c
    PROVE  StartsLine(new, d + 1) <=> k = "enter" \/ (k = "ignore" /\ StartsLine(keys, c + 1))
  <1>1. /\ c \in Nat /\ \A m \in DOMAIN keys : m \in 1..c
        /\ \A m : m \in DOMAIN new <=> m \in DOMAIN keys \/ m = c + 1
        /\ \A m \in DOMAIN keys : new[m] = keys[m]
        /\ new[c + 1] = k
    BY DEF Adds
  <1>2. \A m \in DOMAIN new : m \in Nat /\ m < d + 1 /\ m <= c + 1 /\ (m < c + 1 => m \in DOMAIN keys)
    BY <1>1
  <1>3. \A m \in DOMAIN keys : m \in DOMAIN new /\ new[m] = keys[m] /\ m \in Nat /\ m < c + 1
    BY <1>1
  <1>4. ASSUME StartsLine(new, d + 1)
        PROVE  k = "enter" \/ (k = "ignore" /\ StartsLine(keys, c + 1))
    <2>1. PICK p \in DOMAIN new \cup {0} :
            /\ p < d + 1 /\ (p # 0 => new[p] = "enter")
            /\ \A m \in DOMAIN new : p < m /\ m < d + 1 => new[m] = "ignore"
      BY <1>4 DEF StartsLine
    <2>2. CASE p = c + 1
      BY <1>1, <2>1, <2>2
    <2>3. CASE p # c + 1
      <3>1. p \in DOMAIN keys \cup {0} /\ p < c + 1 /\ c + 1 \in DOMAIN new
        BY <1>1, <1>2, <2>3
      <3>2. k = "ignore"
        BY <1>1, <1>2, <2>1, <3>1
      <3>3. p # 0 => keys[p] = "enter"
        BY <1>3, <2>1, <3>1
      <3>4. \A m \in DOMAIN keys : p < m => keys[m] = "ignore"
        BY <1>2, <1>3, <2>1
      <3> QED
        BY <3>1, <3>2, <3>3, <3>4 DEF StartsLine
    <2> QED
      BY <2>2, <2>3
  <1>5. ASSUME k = "enter" PROVE StartsLine(new, d + 1)
    <2>1. c + 1 \in DOMAIN new /\ new[c + 1] = "enter" /\ c + 1 < d + 1
      BY <1>1, <1>5
    <2>2. \A m \in DOMAIN new : ~(c + 1 < m)
      BY <1>1, <1>2
    <2> QED
      BY <2>1, <2>2 DEF StartsLine
  <1>6. ASSUME k = "ignore", StartsLine(keys, c + 1) PROVE StartsLine(new, d + 1)
    <2>1. PICK p \in DOMAIN keys \cup {0} :
            /\ p < c + 1 /\ (p # 0 => keys[p] = "enter")
            /\ \A m \in DOMAIN keys : p < m /\ m < c + 1 => keys[m] = "ignore"
      BY <1>6 DEF StartsLine
    <2>2. \A m \in DOMAIN new : p < m => new[m] = "ignore"
      BY <1>1, <1>3, <1>6, <2>1
    <2>3. p \in DOMAIN new \cup {0} /\ p < d + 1 /\ (p # 0 => new[p] = "enter")
      BY <1>1, <1>3, <2>1
    <2> QED
      BY <2>2, <2>3 DEF StartsLine
  <1> QED
    BY <1>4, <1>5, <1>6

\* When nothing complete is left, the keys of the input are those push handled.
LEMMA ParseEnd ==
    ASSUME NEW bytes, NEW s \in Seq(bytes), NEW c, NEW D, Parse(s, c, D),
           c < Len(s) => KeyAt(s, c + 1) = Incomplete
    PROVE  Keys(s) = KeysIn(s, D)
  <1>1. Len(s) \in Nat /\ c \in Nat /\ c <= Len(s) /\ \A j \in D : j \in 1..c
    BY DEF Parse
  <1>2. \A i \in 1..c + 1 : i \in Starts(s) <=> i \in D \cup {c + 1}
    BY ParseStarts
  <1> DEFINE bad == {i \in Starts(s) : i > c + 1}
  <1>3. bad = {}
    <2> SUFFICES ASSUME bad # {} PROVE FALSE
      OBVIOUS
    <2>1. Starts(s) \subseteq 1..Len(s) + 1
      BY <1>1, StartsFollow
    <2>2. bad \subseteq Nat
      BY <2>1
    <2>3. PICK i \in bad : \A n \in bad : i <= n
      <3> HIDE DEF bad
      <3> QED BY <2>2, LeastOf
    <2>4. i \in Starts(s) /\ i \in 1..Len(s) + 1 /\ i > c + 1 /\ i # 1
      BY <1>1, <2>1
    <2>5. PICK j \in 1..i - 1 : Behind(s, j, i) /\ j \in Starts(s)
      BY <1>1, <2>4, StartsFollow
    <2>6. j \in Nat /\ j < i /\ j >= 1 /\ i \in Nat
      BY <2>4, <2>5
    <2>7. j <= c + 1
      <3>1. j \notin bad
        BY <2>3, <2>6
      <3> QED
        BY <1>1, <2>5, <2>6, <3>1
    <2>8. j \in D \cup {c + 1}
      BY <1>1, <1>2, <2>5, <2>6, <2>7
    <2>9. CASE j = c + 1
      <3>1. c < Len(s)
        BY <1>1, <2>4, <2>9
      <3> QED
        BY <2>5, <2>9, <3>1 DEF Behind
    <2>10. CASE j \in D
      <3>1. i \in D \cup {c + 1}
        BY <2>5, <2>10 DEF Behind, Parse
      <3> QED
        BY <1>1, <2>4, <3>1
    <2> QED
      BY <2>8, <2>9, <2>10
  <1>4. Starts(s) \subseteq 1..Len(s) + 1
    BY <1>1, StartsFollow
  <1> DEFINE whole == {n \in Starts(s) : n <= Len(s) /\ KeyAt(s, n) # Incomplete}
  <1>5. ASSUME NEW n \in D PROVE n \in whole
    <2>1. n \in 1..c /\ n \in 1..c + 1
      BY <1>1
    <2> QED
      BY <1>1, <1>2, <1>5, <2>1 DEF Parse
  <1>6. ASSUME NEW n \in whole PROVE n \in D
    <2>1. n \in 1..Len(s) + 1 /\ n \in Starts(s) /\ n <= Len(s) /\ KeyAt(s, n) # Incomplete
      BY <1>4, <1>6
    <2>2. n <= c + 1
      BY <1>1, <1>3, <2>1
    <2>3. n \in D \cup {c + 1}
      BY <1>1, <1>2, <2>1, <2>2
    <2>4. n # c + 1
      BY <1>1, <2>1
    <2> QED
      BY <2>3, <2>4
  <1>7. whole = D
    BY <1>5, <1>6, Zenon
  <1> HIDE DEF whole
  <1> QED
    BY <1>7, Zenon DEF Keys, KeysIn, whole

\* An escape in the keys push handled is one of the whole input.
LEMMA ParseMore ==
    ASSUME NEW bytes, NEW s \in Seq(bytes), NEW c, NEW D, Parse(s, c, D), Escapes(KeysIn(s, D))
    PROVE  Escapes(Keys(s))
  <1>1. Len(s) \in Nat /\ c \in Nat /\ c <= Len(s) /\ \A j \in D : j \in 1..c
    BY DEF Parse
  <1>2. \A i \in 1..c + 1 : i \in Starts(s) <=> i \in D \cup {c + 1}
    BY ParseStarts
  <1> DEFINE keys == KeysIn(s, D)
             all == Keys(s)
  <1>3. DOMAIN keys = D /\ \A m \in D : keys[m] = KeyAt(s, m).key
    BY DEF KeysIn
  <1>4. /\ \A m : m \in DOMAIN all <=> m \in Starts(s) /\ m <= Len(s) /\ KeyAt(s, m) # Incomplete
        /\ \A m \in DOMAIN all : all[m] = KeyAt(s, m).key
    BY DEF Keys
  <1>5. Starts(s) \subseteq 1..Len(s) + 1
    BY <1>1, StartsFollow
  <1>6. ASSUME NEW m \in DOMAIN keys
        PROVE  m \in DOMAIN all /\ all[m] = keys[m] /\ m \in 1..c
    <2>1. m \in D /\ m \in 1..c /\ m \in 1..c + 1 /\ m <= Len(s)
      BY <1>1, <1>3
    <2>2. m \in Starts(s) /\ KeyAt(s, m) # Incomplete
      BY <1>2, <2>1 DEF Parse
    <2> QED
      BY <1>3, <1>4, <2>1, <2>2
  <1>7. ASSUME NEW m \in DOMAIN all, m <= c PROVE m \in DOMAIN keys /\ all[m] = keys[m]
    <2>1. m \in Starts(s) /\ m \in 1..c + 1 /\ m # c + 1
      BY <1>1, <1>4, <1>5, <1>7
    <2>2. m \in D
      BY <1>2, <2>1
    <2> QED
      BY <1>3, <1>4, <2>2
  <1>8. \A m \in DOMAIN all : m \in Nat
    BY <1>1, <1>4, <1>5
  <1> HIDE DEF keys, all
  <1>9. ASSUME NEW i \in DOMAIN keys, StartsLine(keys, i) PROVE StartsLine(all, i)
    <2>1. PICK p \in DOMAIN keys \cup {0} :
            /\ p < i /\ (p # 0 => keys[p] = "enter")
            /\ \A m \in DOMAIN keys : p < m /\ m < i => keys[m] = "ignore"
      BY <1>9 DEF StartsLine
    <2>2. i \in 1..c
      BY <1>6
    <2>3. \A m \in DOMAIN all : m < i => m <= c
      BY <1>1, <1>8, <2>2
    <2>4. \A m \in DOMAIN all : p < m /\ m < i => all[m] = "ignore"
      BY <1>7, <2>1, <2>3
    <2>5. p \in DOMAIN all \cup {0} /\ (p # 0 => all[p] = "enter")
      BY <1>6, <2>1
    <2> QED
      BY <2>1, <2>4, <2>5 DEF StartsLine
  <1>10. PICK i \in DOMAIN keys, j \in DOMAIN keys :
            /\ i < j /\ keys[i] = "tilde" /\ keys[j] = "dot" /\ StartsLine(keys, i)
            /\ \A m \in DOMAIN keys : i < m /\ m < j => keys[m] = "ignore"
    BY DEF Escapes, keys
  <1>11. \A m \in DOMAIN all : m < j => m <= c
    BY <1>1, <1>6, <1>8
  <1>12. \A m \in DOMAIN all : i < m /\ m < j => all[m] = "ignore"
    BY <1>7, <1>10, <1>11
  <1>13. i \in DOMAIN all /\ j \in DOMAIN all /\ all[i] = "tilde" /\ all[j] = "dot"
    BY <1>6, <1>10
  <1>14. StartsLine(all, i)
    BY <1>9, <1>10
  <1>15. Escapes(all)
    BY <1>10, <1>12, <1>13, <1>14 DEF Escapes
  <1> QED
    BY <1>15 DEF all

\* The next key push handles joins the others.
LEMMA ParseNext ==
    ASSUME NEW bytes, NEW s \in Seq(bytes), NEW c, NEW D, Parse(s, c, D),
           c < Len(s), KeyAt(s, c + 1) # Incomplete
    PROVE  /\ Parse(s, c + KeyAt(s, c + 1).len, D \cup {c + 1})
           /\ Adds(KeysIn(s, D), KeysIn(s, D \cup {c + 1}), c, KeyAt(s, c + 1).key)
  <1> DEFINE E == D \cup {c + 1}
             d == c + KeyAt(s, c + 1).len
  <1>1. Len(s) \in Nat /\ c \in Nat /\ c <= Len(s) /\ D \subseteq 1..c
    BY DEF Parse
  <1>2. c + 1 \in 1..Len(s)
    BY <1>1
  <1>3. KeyAt(s, c + 1).len \in Nat /\ KeyAt(s, c + 1).len >= 1
        /\ (c + 1) + KeyAt(s, c + 1).len <= Len(s) + 1
    BY <1>1, <1>2, KeyLen
  <1>4. d \in 0..Len(s) /\ d >= c + 1 /\ (c + 1) + KeyAt(s, c + 1).len = d + 1
    BY <1>1, <1>3
  <1>5. E \subseteq 1..d /\ 1 \in E \cup {d + 1}
    BY <1>1, <1>4 DEF Parse
  <1> HIDE DEF d
  <1>6. \A j \in E : KeyAt(s, j) # Incomplete /\ j + KeyAt(s, j).len \in E \cup {d + 1}
    <2>1. \A j \in D : KeyAt(s, j) # Incomplete /\ j + KeyAt(s, j).len \in E
      BY DEF Parse
    <2> QED
      BY <1>4, <2>1, Zenon
  <1>7. \A i \in E \cup {d + 1} : i = 1 \/ \E j \in E : j + KeyAt(s, j).len = i
    <2>1. \A i \in E : i = 1 \/ \E j \in D : j + KeyAt(s, j).len = i
      BY DEF Parse
    <2> QED
      BY <1>4, <2>1, Zenon
  <1>8. Parse(s, d, E)
    BY <1>4, <1>5, <1>6, <1>7, Zenon DEF Parse
  <1>9. Adds(KeysIn(s, D), KeysIn(s, E), c, KeyAt(s, c + 1).key)
    BY <1>1 DEF Adds, KeysIn
  <1> QED
    BY <1>8, <1>9 DEF d

\* A longer input that keeps the keys push handled keeps the way it did.
LEMMA ParseKept ==
    ASSUME NEW s, NEW t, NEW c, NEW D, Parse(s, c, D), Len(s) \in Nat, Len(t) \in Nat,
           Len(s) <= Len(t), \A j \in D : KeyAt(t, j) = KeyAt(s, j)
    PROVE  Parse(t, c, D) /\ KeysIn(t, D) = KeysIn(s, D)
  <1>1. c \in 0..Len(t)
    BY DEF Parse
  <1>2. \A j \in D : KeyAt(t, j) # Incomplete /\ j + KeyAt(t, j).len \in D \cup {c + 1}
    BY Zenon DEF Parse
  <1>3. \A i \in D \cup {c + 1} : i = 1 \/ \E j \in D : j + KeyAt(t, j).len = i
    BY Zenon DEF Parse
  <1>4. Parse(t, c, D)
    BY <1>1, <1>2, <1>3, Zenon DEF Parse
  <1>5. KeysIn(t, D) = KeysIn(s, D)
    BY Zenon DEF KeysIn
  <1> QED
    BY <1>4, <1>5

\* What the filter knows of the keys up to byte c, which it has handled: they hold
\* no escape, the bytes it holds are a pending ~ and what is ignored behind it, and
\* the flag says whether the next key starts a line.
Tracks(keys, c, holds, starts) ==
    /\ ~Escapes(keys)
    /\ holds # <<>> <=> Pending(keys)
    /\ holds = <<>> => (starts <=> StartsLine(keys, c + 1))

\* handle keeps that up, or finds the escape.
LEMMA HandleTracks ==
    ASSUME NEW keys, NEW new, NEW c, NEW k, Adds(keys, new, c, k), NEW d \in Nat, d > c,
           Tracks(keys, c, held, lineStart), NEW bytes, held \in Seq(bytes), NEW b \in Seq(bytes), b # <<>>,
           ended = "no", Handle(k, b)
    PROVE  \/ ended' = "escape" /\ Escapes(new)
           \/ ended' = "no" /\ Tracks(new, d, held', lineStart')
  <1>1. c \in Nat /\ DOMAIN keys \subseteq 1..c
    BY DEF Adds
  <1>2. Escapes(new) <=> k = "dot" /\ Pending(keys)
    BY EscapesNext DEF Tracks
  <1>3. Pending(new) <=> \/ k = "tilde" /\ StartsLine(keys, c + 1)
                         \/ k = "ignore" /\ Pending(keys)
    BY PendingNext
  <1>4. StartsLine(new, d + 1) <=> k = "enter" \/ (k = "ignore" /\ StartsLine(keys, c + 1))
    BY LineNext
  <1>5. Pending(keys) => ~StartsLine(keys, c + 1)
    BY <1>1, PendingLine
  <1>6. held # <<>> <=> Pending(keys)
    BY DEF Tracks
  <1>7. held = <<>> => (lineStart <=> StartsLine(keys, c + 1))
    BY DEF Tracks
  <1>8. CASE held # <<>> /\ k = "dot"
    BY <1>2, <1>6, <1>8 DEF Handle
  <1>9. CASE held # <<>> /\ k = "ignore"
    <2>1. held' = held \o b /\ ended' = "no"
      BY <1>9 DEF Handle
    <2>2. held' # <<>>
      BY <1>9, <2>1
    <2> QED
      BY <1>2, <1>3, <1>6, <1>9, <2>1, <2>2, Zenon DEF Tracks
  <1>10. CASE ~(held # <<>> /\ k \in {"dot", "ignore"}) /\ k = "tilde" /\ lineStart /\ held = <<>>
    <2>1. held' = b /\ ended' = "no"
      BY <1>10 DEF Handle
    <2> QED
      BY <1>2, <1>3, <1>7, <1>10, <2>1 DEF Tracks
  <1>11. CASE /\ ~(held # <<>> /\ k \in {"dot", "ignore"})
              /\ ~(k = "tilde" /\ lineStart /\ held = <<>>)
    <2>1. held' = <<>> /\ ended' = "no" /\ lineStart' = IF k = "ignore" THEN lineStart ELSE k = "enter"
      BY <1>11 DEF Handle
    <2>2. ~Escapes(new) /\ ~Pending(new)
      BY <1>2, <1>3, <1>5, <1>6, <1>7, <1>11
    <2>3. lineStart' <=> StartsLine(new, d + 1)
      BY <1>4, <1>7, <1>11, <2>1
    <2> QED
      BY <2>1, <2>2, <2>3 DEF Tracks
  <1> QED
    BY <1>8, <1>9, <1>10, <1>11

\* A part of the input, by its bytes.
LEMMA Part ==
    ASSUME NEW bytes, NEW s \in Seq(bytes), NEW a \in Nat, NEW n \in a..Len(s)
    PROVE  /\ SubSeq(s, a + 1, n) \in Seq(bytes) /\ Len(SubSeq(s, a + 1, n)) = n - a
           /\ \A i \in 1..n - a : SubSeq(s, a + 1, n)[i] = s[a + i]
  OBVIOUS

\* A part of a part of the input, by its bytes.
LEMMA PartOf ==
    ASSUME NEW bytes, NEW s \in Seq(bytes), NEW n \in 0..Len(s), NEW j \in 1..n
    PROVE  /\ SubSeq(s, 1, n) \in Seq(bytes) /\ Len(SubSeq(s, 1, n)) = n
           /\ SubSeq(SubSeq(s, 1, n), j, n) \in Seq(bytes)
           /\ Len(SubSeq(SubSeq(s, 1, n), j, n)) = n - j + 1
           /\ \A i \in 1..n - j + 1 : SubSeq(SubSeq(s, 1, n), j, n)[i] = s[j + i - 1]
  <1> DEFINE t == SubSeq(s, 1, n)
  <1>1. t \in Seq(bytes) /\ Len(t) = n /\ (\A i \in 1..n : t[i] = s[i]) /\ n \in Nat
    OBVIOUS
  <1> HIDE DEF t
  <1>2. /\ SubSeq(t, j, n) \in Seq(bytes) /\ Len(SubSeq(t, j, n)) = n - j + 1
        /\ \A i \in 1..n - j + 1 : SubSeq(t, j, n)[i] = t[j + i - 1]
    BY <1>1
  <1>3. \A i \in 1..n - j + 1 : j + i - 1 \in 1..n
    BY <1>1
  <1> QED
    BY <1>1, <1>2, <1>3 DEF t

\* A further read changes no key that was complete, unless a read cut an ESC from
\* its [ or a sequence is longer than the code waits for.
LEMMA ReadKeeps ==
    ASSUME NEW bytes, FilterTypeOK(bytes), ~Overlong, ~CutsEsc(read),
           NEW n \in read + 1..Len(typed), NEW j \in 1..read,
           KeyAt(SubSeq(typed, 1, read), j) # Incomplete
    PROVE  KeyAt(SubSeq(typed, 1, n), j) = KeyAt(SubSeq(typed, 1, read), j)
  <1>1. typed \in Seq(bytes) /\ Len(typed) \in Nat /\ read \in Nat /\ read \in 0..Len(typed)
        /\ n \in 0..Len(typed) /\ j \in 1..n /\ n > read
    BY DEF FilterTypeOK
  <1> DEFINE u == SubSeq(typed, 1, read)
             v == SubSeq(typed, 1, n)
             s == SubSeq(u, j, read)
             t == SubSeq(v, j, n)
  <1>2. /\ u \in Seq(bytes) /\ Len(u) = read /\ s \in Seq(bytes) /\ Len(s) = read - j + 1
        /\ \A i \in 1..read - j + 1 : s[i] = typed[j + i - 1]
    BY <1>1, PartOf
  <1>3. /\ v \in Seq(bytes) /\ Len(v) = n /\ t \in Seq(bytes) /\ Len(t) = n - j + 1
        /\ \A i \in 1..n - j + 1 : t[i] = typed[j + i - 1]
    BY <1>1, PartOf
  <1> HIDE DEF u, v
  <1>4. KeyAt(u, j) = NextEscapeKey(s)
    BY <1>2, KeyMeant
  <1>5. KeyAt(v, j) = NextEscapeKey(t)
    BY <1>1, <1>3, KeyMeant
  <1> HIDE DEF s, t
  <1>6. s # <<>> /\ Len(s) <= Len(t) /\ \A i \in 1..Len(s) : t[i] = s[i]
    BY <1>1, <1>2, <1>3
  <1>7. ~TooLong(s)
    <2> SUFFICES ASSUME TooLong(s) PROVE Overlong
      OBVIOUS
    <2>1. MaxPartial \in Nat
      BY FilterAssumption
    <2>2. read - j + 1 > MaxPartial /\ IsCsi(s) /\ ParamsTo(s, read - j + 1)
      BY <1>2 DEF TooLong
    <2>3. j \in 1..Len(typed) - MaxPartial
      BY <1>1, <2>1, <2>2
    <2>4. s[1] = typed[j] /\ (read - j + 1 >= 2 => s[2] = typed[j + 1])
      BY <1>1, <1>2
    <2>5. typed[j] = "ESC" /\ typed[j + 1] = "["
      BY <1>2, <2>2, <2>4 DEF IsCsi
    <2>6. ASSUME NEW m \in j + 2..j + MaxPartial PROVE typed[m] \in ParamBytes
      <3>1. m - j + 1 \in 3..read - j + 1 /\ m - j + 1 \in 1..read - j + 1 /\ j + (m - j + 1) - 1 = m
        BY <1>1, <2>1, <2>2
      <3>2. s[m - j + 1] \in ParamBytes
        BY <2>2, <3>1 DEF ParamsTo
      <3>3. s[m - j + 1] = typed[j + (m - j + 1) - 1]
        BY <1>2, <3>1
      <3> QED
        BY <3>1, <3>2, <3>3
    <2> QED
      BY <2>3, <2>5, <2>6 DEF Overlong
  <1>8. ASSUME Len(s) = 1 PROVE ~IsCsi(t)
    <2>1. j = read /\ Len(t) >= 2
      <3>1. read - j + 1 = 1
        BY <1>2, <1>8
      <3>2. j = read
        BY <1>1, <3>1
      <3>3. n - j + 1 >= 2
        BY <1>1, <3>2
      <3> QED
        BY <1>3, <3>2, <3>3
    <2>2. t[1] = typed[j + 1 - 1] /\ t[2] = typed[j + 2 - 1]
      BY <1>3, <2>1
    <2>3. t[1] = typed[read] /\ t[2] = typed[read + 1]
      BY <1>1, <2>1, <2>2
    <2>4. ~(typed[read] = "ESC" /\ typed[read + 1] = "[")
      BY <1>1 DEF CutsEsc
    <2> QED
      BY <2>3, <2>4 DEF IsCsi
  <1>9. NextEscapeKey(s) # Incomplete
    BY <1>4 DEF u
  <1>10. NextEscapeKey(t) = NextEscapeKey(s)
    BY <1>2, <1>3, <1>6, <1>7, <1>8, <1>9, KeyStable
  <1> QED
    BY <1>4, <1>5, <1>10 DEF u, v

\* The input that was read, and how much of it push has handled.
SoFar == SubSeq(typed, 1, read)
Handled == read - Len(rest)

\* What push still has to look at is the end of what was read.
Carried ==
    /\ Len(rest) <= read
    /\ \A i \in 1..Len(rest) : rest[i] = typed[Handled + i]

\* The keys that push handled are those of the input, and the filter tracks them.
Follows == \E D : Parse(SoFar, Handled, D) /\ Tracks(KeysIn(SoFar, D), Handled, held, lineStart)

\* Wherever it stands, the filter has understood what was typed.
Understood(bytes) ==
    /\ FilterTypeOK(bytes)
    /\ ended = "no" => Carried
    /\ ~harmed /\ ~Overlong =>
         /\ read > 0 => ~CutsEsc(read)
         /\ ended = "no" => Follows
         /\ ended = "no" /\ ~pushing => rest = <<>> \/ NextEscapeKey(rest) = Incomplete
         /\ ended = "escape" => Escapes(Keys(SoFar))
         /\ ended \notin {"no", "escape"} => ~Escapes(Keys(SoFar))

\* The next key of push is the key of the input behind those it handled.
LEMMA RestKey ==
    ASSUME NEW bytes, FilterTypeOK(bytes), Carried
    PROVE  /\ SoFar \in Seq(bytes) /\ Len(SoFar) = read /\ Handled \in 0..read
           /\ rest = <<>> <=> Handled = read
           /\ rest # <<>> => KeyAt(SoFar, Handled + 1) = NextEscapeKey(rest)
  <1>1. /\ typed \in Seq(bytes) /\ Len(typed) \in Nat /\ read \in Nat /\ read \in 0..Len(typed)
        /\ rest \in Seq(bytes) /\ Len(rest) \in Nat /\ Len(rest) <= read
    BY DEF FilterTypeOK, Carried
  <1>2. SoFar \in Seq(bytes) /\ Len(SoFar) = read
    BY <1>1 DEF SoFar
  <1>3. Handled \in 0..read /\ Len(rest) = read - Handled
    BY <1>1 DEF Handled
  <1>4. rest = <<>> <=> Len(rest) = 0
    BY <1>1, EmptySeq
  <1>5. rest = <<>> <=> Handled = read
    BY <1>1, <1>3, <1>4
  <1>6. ASSUME rest # <<>> PROVE KeyAt(SoFar, Handled + 1) = NextEscapeKey(rest)
    <2> DEFINE j == Handled + 1
               t == SubSeq(SoFar, j, read)
    <2>1. j \in 1..read
      BY <1>1, <1>3, <1>5, <1>6
    <2>2. read - j + 1 = Len(rest)
      BY <1>1, <1>3
    <2>3. /\ t \in Seq(bytes) /\ Len(t) = Len(rest)
          /\ \A i \in 1..Len(rest) : t[i] = typed[j + i - 1]
      <3> HIDE DEF j
      <3> QED BY <1>1, <2>1, <2>2, PartOf DEF SoFar
    <2>4. \A i \in 1..Len(rest) : j + i - 1 = Handled + i
      BY <1>1, <1>3
    <2>5. \A i \in 1..Len(rest) : t[i] = rest[i]
      <3> HIDE DEF t, j
      <3> QED BY <2>3, <2>4 DEF Carried
    <2>6. t = rest
      <3> HIDE DEF t
      <3> QED BY <1>1, <2>3, <2>5, SeqEqual
    <2>7. KeyAt(SoFar, j) = NextEscapeKey(t)
      <3> HIDE DEF j
      <3> QED BY <1>2, <2>1, KeyMeant
    <2> QED
      BY <2>6, <2>7
  <1> QED
    BY <1>2, <1>3, <1>5, <1>6

\* Where push waits for a read, the keys of the input hold no escape.
LEMMA NoEscape ==
    ASSUME NEW bytes, Understood(bytes), ~harmed, ~Overlong, ended = "no", ~pushing
    PROVE  ~Escapes(Keys(SoFar))
  <1>1. FilterTypeOK(bytes) /\ Carried /\ Follows
        /\ (rest = <<>> \/ NextEscapeKey(rest) = Incomplete)
    BY DEF Understood
  <1>2. /\ SoFar \in Seq(bytes) /\ Len(SoFar) = read /\ Handled \in 0..read
        /\ rest = <<>> <=> Handled = read
        /\ rest # <<>> => KeyAt(SoFar, Handled + 1) = NextEscapeKey(rest)
    BY <1>1, RestKey
  <1>3. PICK D : Parse(SoFar, Handled, D) /\ Tracks(KeysIn(SoFar, D), Handled, held, lineStart)
    BY <1>1 DEF Follows
  <1>4. read \in Nat
    BY <1>1 DEF FilterTypeOK
  <1>5. Handled < read => KeyAt(SoFar, Handled + 1) = Incomplete
    BY <1>1, <1>2, <1>4
  <1>6. Keys(SoFar) = KeysIn(SoFar, D)
    BY <1>2, <1>3, <1>5, ParseEnd
  <1> QED
    BY <1>3, <1>6 DEF Tracks

\* A read keeps what was understood.
LEMMA ReadUnderstood ==
    ASSUME NEW bytes, Understood(bytes), NEW n \in DOMAIN typed, Read(n)
    PROVE  Understood(bytes)'
  <1>1. /\ typed \in Seq(bytes) /\ Len(typed) \in Nat /\ read \in Nat /\ read \in 0..Len(typed)
        /\ rest \in Seq(bytes) /\ Len(rest) \in Nat
        /\ out \in Seq(bytes) /\ held \in Seq(bytes)
    BY DEF Understood, FilterTypeOK
  <1>2. /\ ended = "no" /\ n \in read + 1..Len(typed) /\ read' = n /\ ended' = "no" /\ pushing' = TRUE
        /\ rest' = rest \o SubSeq(typed, read + 1, n)
        /\ harmed' = (harmed \/ CutsEsc(n)) /\ UNCHANGED <<typed, out, held, lineStart>>
    BY DEF Read
  <1>3. Carried /\ Len(rest) <= read /\ \A i \in 1..Len(rest) : rest[i] = typed[Handled + i]
    BY <1>2 DEF Understood, Carried
  <1> DEFINE new == SubSeq(typed, read + 1, n)
  <1>4. new \in Seq(bytes) /\ Len(new) = n - read /\ \A i \in 1..n - read : new[i] = typed[read + i]
    <2>1. n \in Nat /\ n > read /\ n <= Len(typed)
      BY <1>1, <1>2
    <2>2. n \in read..Len(typed)
      BY <1>1, <2>1
    <2> QED
      BY <1>1, <2>2, Part
  <1> HIDE DEF new
  <1>5. /\ rest' \in Seq(bytes) /\ Len(rest') = Len(rest) + (n - read)
        /\ \A i \in 1..Len(rest) + (n - read) :
             rest'[i] = IF i <= Len(rest) THEN rest[i] ELSE new[i - Len(rest)]
    <2>1. rest' = rest \o new
      BY <1>2 DEF new
    <2>2. /\ rest \o new \in Seq(bytes) /\ Len(rest \o new) = Len(rest) + Len(new)
          /\ \A i \in 1..Len(rest) + Len(new) :
               (rest \o new)[i] = IF i <= Len(rest) THEN rest[i] ELSE new[i - Len(rest)]
      BY <1>1, <1>4, ConcatProperties, Zenon
    <2> QED
      BY <1>4, <2>1, <2>2, Zenon
  <1>6. FilterTypeOK(bytes)'
    BY <1>1, <1>2, <1>5 DEF FilterTypeOK
  <1>7. Handled' = Handled /\ Handled \in Nat
    BY <1>1, <1>2, <1>3, <1>5 DEF Handled
  <1>8. Len(rest') <= n
    BY <1>1, <1>2, <1>3, <1>5
  <1>9. ASSUME NEW i \in 1..Len(rest') PROVE rest'[i] = typed[Handled + i]
    <2>1. CASE i <= Len(rest)
      BY <1>1, <1>3, <1>5, <2>1
    <2>2. CASE i > Len(rest)
      <3>1. rest'[i] = new[i - Len(rest)]
        <4>1. i \in 1..Len(rest) + (n - read) /\ ~(i <= Len(rest))
          BY <1>1, <1>5, <2>2
        <4> QED
          BY <1>5, <4>1, Zenon
      <3>2. i - Len(rest) \in 1..n - read
        BY <1>1, <1>2, <1>5, <2>2
      <3>3. new[i - Len(rest)] = typed[read + (i - Len(rest))]
        BY <1>4, <3>2
      <3>4. read + (i - Len(rest)) = Handled + i
        BY <1>1, <1>5 DEF Handled
      <3> QED
        BY <3>1, <3>3, <3>4
    <2> QED
      BY <1>1, <1>5, <2>1, <2>2
  <1>10. Carried'
    BY <1>2, <1>7, <1>8, <1>9 DEF Carried
  <1>11. Overlong' <=> Overlong
    BY <1>2 DEF Overlong
  <1>12. ASSUME ~harmed', ~Overlong' PROVE ~CutsEsc(n)' /\ Follows'
    <2>1. ~harmed /\ ~CutsEsc(n) /\ ~Overlong
      BY <1>2, <1>11, <1>12
    <2>2. ~CutsEsc(n)'
      BY <1>2, <2>1 DEF CutsEsc
    <2>3. Follows /\ (read > 0 => ~CutsEsc(read))
      BY <1>2, <2>1 DEF Understood
    <2>4. PICK D : Parse(SoFar, Handled, D) /\ Tracks(KeysIn(SoFar, D), Handled, held, lineStart)
      BY <2>3 DEF Follows
    <2>5. SoFar \in Seq(bytes) /\ Len(SoFar) = read /\ Handled \in 0..read
      BY <1>3, RestKey DEF Understood
    <2> DEFINE t == SubSeq(typed, 1, n)
    <2>6. SoFar' = t /\ t \in Seq(bytes) /\ Len(t) = n
      BY <1>1, <1>2 DEF SoFar
    <2>7. ASSUME NEW j \in D PROVE KeyAt(t, j) = KeyAt(SoFar, j)
      <3>1. j \in 1..Handled /\ KeyAt(SoFar, j) # Incomplete
        BY <2>4 DEF Parse
      <3>2. j \in 1..read /\ read > 0
        BY <1>1, <2>5, <3>1
      <3> QED
        BY <1>2, <2>1, <2>3, <3>1, <3>2, ReadKeeps DEF SoFar, Understood
    <2> HIDE DEF t
    <2>8. Parse(t, Handled, D) /\ KeysIn(t, D) = KeysIn(SoFar, D)
      <3>1. Len(SoFar) <= Len(t) /\ Len(SoFar) \in Nat /\ Len(t) \in Nat
        BY <1>1, <1>2, <2>5, <2>6
      <3> QED
        BY <2>4, <2>7, <3>1, ParseKept
    <2>9. Tracks(KeysIn(SoFar, D)', Handled', held', lineStart')
      <3>1. Tracks(KeysIn(SoFar, D), Handled, held, lineStart)
        BY <2>4
      <3>2. KeysIn(SoFar, D)' = KeysIn(SoFar, D)
        BY <2>6, <2>8 DEF KeysIn
      <3> QED
        BY <1>2, <1>7, <3>1, <3>2 DEF Tracks
    <2>10. Parse(SoFar, Handled, D)'
      BY <1>7, <2>6, <2>8
    <2>11. Follows'
      BY <2>9, <2>10 DEF Follows
    <2> QED
      BY <2>2, <2>11
  <1> QED
    BY <1>2, <1>6, <1>10, <1>12 DEF Understood

\* What is left of the input behind a key.
LEMMA KeyTaken ==
    ASSUME NEW bytes, FilterTypeOK(bytes), Carried, NEW k \in 1..Len(rest),
           rest' = SubSeq(rest, k + 1, Len(rest)), UNCHANGED <<typed, read>>
    PROVE  /\ rest' \in Seq(bytes) /\ Handled' = Handled + k /\ Carried'
           /\ SubSeq(rest, 1, k) \in Seq(bytes) /\ SubSeq(rest, 1, k) # <<>>
  <1>1. /\ rest \in Seq(bytes) /\ Len(rest) \in Nat /\ read \in Nat /\ Len(rest) <= read
        /\ \A i \in 1..Len(rest) : rest[i] = typed[Handled + i]
    BY DEF FilterTypeOK, Carried
  <1> DEFINE left == SubSeq(rest, k + 1, Len(rest))
  <1>2. left \in Seq(bytes) /\ Len(left) = Len(rest) - k
        /\ \A i \in 1..Len(rest) - k : left[i] = rest[k + i]
    <2>1. k \in Nat /\ Len(rest) \in k..Len(rest)
      BY <1>1
    <2> QED
      BY <1>1, <2>1, Part
  <1> HIDE DEF left
  <1>4. rest' = left /\ Len(rest') = Len(rest) - k
    BY <1>2 DEF left
  <1>5. Handled' = Handled + k
    <2>1. Handled' = read - Len(rest')
      BY DEF Handled
    <2>2. read - (Len(rest) - k) = (read - Len(rest)) + k
      BY <1>1
    <2> QED
      BY <1>4, <2>1, <2>2 DEF Handled
  <1>6. Handled \in Nat
    BY <1>1 DEF Handled
  <1>7. ASSUME NEW i \in 1..Len(rest') PROVE rest'[i] = typed[Handled' + i]
    <2>1. i \in 1..Len(rest) - k /\ k + i \in 1..Len(rest)
      BY <1>1, <1>4
    <2>2. Handled' + i = Handled + (k + i)
      BY <1>5, <1>6, <2>1
    <2> QED
      BY <1>1, <1>2, <1>4, <2>1, <2>2
  <1>8. Len(rest') <= read
    BY <1>1, <1>4
  <1>9. Carried'
    BY <1>7, <1>8 DEF Carried
  <1>10. SubSeq(rest, 1, k) \in Seq(bytes) /\ Len(SubSeq(rest, 1, k)) = k
    BY <1>1
  <1>11. SubSeq(rest, 1, k) # <<>>
    BY <1>10
  <1> QED
    BY <1>2, <1>4, <1>5, <1>9, <1>10, <1>11

\* A key that push handles is understood.
LEMMA KeyUnderstood ==
    ASSUME NEW bytes, Understood(bytes), ended = "no", rest # <<>>,
           NextEscapeKey(rest) # Incomplete,
           Handle(NextEscapeKey(rest).key, SubSeq(rest, 1, NextEscapeKey(rest).len)),
           rest' = SubSeq(rest, NextEscapeKey(rest).len + 1, Len(rest)),
           pushing, UNCHANGED <<pushing, typed, read, harmed>>
    PROVE  Understood(bytes)'
  <1> DEFINE k == NextEscapeKey(rest)
             b == SubSeq(rest, 1, k.len)
             c == Handled
  <1>1. FilterTypeOK(bytes) /\ Carried /\ rest \in Seq(bytes) /\ held \in Seq(bytes) /\ Len(rest) \in Nat
        /\ typed \in Seq(bytes) /\ read \in 0..Len(typed) /\ read \in Nat
    BY DEF Understood, FilterTypeOK
  <1>2. k.len \in 1..Len(rest)
    BY <1>1, KeyWithin
  <1>3. /\ rest' \in Seq(bytes) /\ Handled' = c + k.len /\ Carried'
        /\ b \in Seq(bytes) /\ b # <<>>
    <2> HIDE DEF k, c
    <2> QED BY <1>1, <1>2, KeyTaken DEF k, c
  <1> HIDE DEF b
  <1>4. Handle(k.key, b)
    BY DEF b
  <1> HIDE DEF k
  <1>5. out' \in Seq(bytes) /\ held' \in Seq(bytes)
    BY <1>1, <1>3, <1>4, HandleKeeps
  <1>6. FilterTypeOK(bytes)'
    BY <1>1, <1>3, <1>5 DEF FilterTypeOK
  <1>7. (Overlong' <=> Overlong) /\ SoFar' = SoFar /\ (CutsEsc(read)' <=> CutsEsc(read))
    BY DEF Overlong, SoFar, CutsEsc
  <1>8. ASSUME ~harmed, ~Overlong
        PROVE  \/ ended' = "escape" /\ Escapes(Keys(SoFar))
               \/ ended' = "no" /\ Follows'
    <2>1. PICK D : Parse(SoFar, c, D) /\ Tracks(KeysIn(SoFar, D), c, held, lineStart)
      BY <1>8 DEF Understood, Follows
    <2>2. /\ SoFar \in Seq(bytes) /\ Len(SoFar) = read /\ c \in 0..read
          /\ (rest = <<>> <=> c = read) /\ KeyAt(SoFar, c + 1) = k
      BY <1>1, RestKey DEF k
    <2>3. c < Len(SoFar) /\ k # Incomplete
      BY <1>1, <2>2 DEF k
    <2> HIDE DEF c
    <2> DEFINE E == D \cup {c + 1}
               keys == KeysIn(SoFar, D)
               new == KeysIn(SoFar, E)
               d == c + k.len
    <2>4. Parse(SoFar, d, E) /\ Adds(keys, new, c, k.key)
      BY <2>1, <2>2, <2>3, ParseNext
    <2>5. d \in Nat /\ d > c
      BY <1>1, <1>2, <2>2
    <2> HIDE DEF E, d
    <2>6. \/ ended' = "escape" /\ Escapes(new)
          \/ ended' = "no" /\ Tracks(new, d, held', lineStart')
      <3> HIDE DEF keys, new
      <3>1. Tracks(keys, c, held, lineStart)
        BY <2>1 DEF keys
      <3> QED
        BY <1>1, <1>3, <1>4, <2>4, <2>5, <3>1, HandleTracks
    <2>7. CASE ended' = "escape" /\ Escapes(new)
      BY <2>2, <2>4, <2>7, ParseMore
    <2>8. CASE ended' = "no" /\ Tracks(new, d, held', lineStart')
      <3>1. Handled' = d
        BY <1>3 DEF d
      <3>2. Parse(SoFar', Handled', E)
        BY <1>7, <2>4, <3>1
      <3>3. Tracks(KeysIn(SoFar', E), Handled', held', lineStart')
        BY <1>7, <2>8, <3>1
      <3>4. Follows'
        BY <3>2, <3>3 DEF Follows
      <3> QED
        BY <2>8, <3>4
    <2> QED
      BY <2>6, <2>7, <2>8
  <1>9. ASSUME ~harmed, ~Overlong PROVE read > 0 => ~CutsEsc(read)
    BY <1>9 DEF Understood
  <1> QED
    BY <1>3, <1>6, <1>7, <1>8, <1>9 DEF Understood

\* A step of the filter keeps what was understood.
LEMMA UnderstoodStep ==
    ASSUME NEW bytes, Understood(bytes), [FilterNext]_filterVars
    PROVE  Understood(bytes)'
  <1>1. CASE UNCHANGED filterVars
    <2>1. UNCHANGED <<typed, read, rest, pushing, out, held, lineStart, harmed, ended>>
      BY <1>1 DEF filterVars
    <2>2. /\ FilterTypeOK(bytes)' <=> FilterTypeOK(bytes)
          /\ Carried' <=> Carried
          /\ Overlong' <=> Overlong
          /\ CutsEsc(read)' <=> CutsEsc(read)
          /\ SoFar' = SoFar /\ Handled' = Handled
      BY <2>1 DEF FilterTypeOK, Carried, Handled, Overlong, CutsEsc, SoFar
    <2>3. Follows' <=> Follows
      BY <2>1, <2>2 DEF Follows, Tracks
    <2> QED
      BY <2>1, <2>2, <2>3 DEF Understood
  <1>2. ASSUME NEW n \in DOMAIN typed, Read(n) PROVE Understood(bytes)'
    BY <1>2, ReadUnderstood
  <1>3. CASE Push
    <2>1. CASE rest = <<>> \/ NextEscapeKey(rest) = Incomplete
      <3>1. /\ UNCHANGED <<typed, read, rest, out, held, lineStart, harmed, ended>>
            /\ ended = "no" /\ pushing' = FALSE
        BY <1>3, <2>1 DEF Push
      <3>2. /\ FilterTypeOK(bytes)' <=> FilterTypeOK(bytes)
            /\ Carried' <=> Carried
            /\ Overlong' <=> Overlong
            /\ CutsEsc(read)' <=> CutsEsc(read)
            /\ SoFar' = SoFar /\ Handled' = Handled
        BY <3>1 DEF FilterTypeOK, Carried, Handled, Overlong, CutsEsc, SoFar
      <3>3. Follows' <=> Follows
        BY <3>1, <3>2 DEF Follows, Tracks
      <3> QED
        BY <2>1, <3>1, <3>2, <3>3 DEF Understood
    <2>2. CASE rest # <<>> /\ NextEscapeKey(rest) # Incomplete
      <3>1. /\ Handle(NextEscapeKey(rest).key, SubSeq(rest, 1, NextEscapeKey(rest).len))
            /\ rest' = SubSeq(rest, NextEscapeKey(rest).len + 1, Len(rest))
            /\ pushing /\ UNCHANGED <<pushing, typed, read, harmed>> /\ ended = "no"
        BY <1>3, <2>2 DEF Push
      <3> QED
        BY <2>2, <3>1, KeyUnderstood
    <2> QED
      BY <2>1, <2>2
  <1>4. CASE StdinEof
    <2>1. /\ ended = "no" /\ ~pushing /\ ended' = "eof" /\ UNCHANGED <<typed, read, harmed>>
          /\ out' = (out \o held) \o rest /\ held' = <<>> /\ rest' = <<>>
      BY <1>4 DEF StdinEof, Finish
    <2>2. FilterTypeOK(bytes)'
      <3>1. out \in Seq(bytes) /\ held \in Seq(bytes) /\ rest \in Seq(bytes)
        BY DEF Understood, FilterTypeOK
      <3>2. out \o held \in Seq(bytes)
        BY <3>1, ConcatProperties
      <3>3. (out \o held) \o rest \in Seq(bytes)
        BY <3>1, <3>2, ConcatProperties
      <3> QED
        BY <2>1, <3>3 DEF Understood, FilterTypeOK
    <2>3. /\ Overlong' <=> Overlong
          /\ CutsEsc(read)' <=> CutsEsc(read)
          /\ SoFar' = SoFar
      BY <2>1 DEF Overlong, CutsEsc, SoFar
    <2>4. ~harmed /\ ~Overlong => ~Escapes(Keys(SoFar)) /\ (read > 0 => ~CutsEsc(read))
      BY <2>1, NoEscape DEF Understood
    <2> QED
      BY <2>1, <2>2, <2>3, <2>4 DEF Understood
  <1> QED
    BY <1>1, <1>2, <1>3, <1>4 DEF FilterNext

\* Whatever is typed and wherever the reads cut it, the session disconnects exactly
\* when the input that was read holds the escape.
THEOREM EscapeSafe ==
    ASSUME NEW CONSTANT bytes, NEW CONSTANT inputs, inputs \subseteq Seq(bytes)
    PROVE  FilterSpec(inputs) => []EscapeIffTyped
  <1>1. FilterInit(inputs) => Understood(bytes)
    <2> SUFFICES ASSUME FilterInit(inputs) PROVE Understood(bytes)
      OBVIOUS
    <2>1. typed \in Seq(bytes) /\ Len(typed) \in Nat /\ <<>> \in Seq(bytes)
          /\ read = 0 /\ rest = <<>> /\ out = <<>> /\ held = <<>> /\ lineStart = TRUE
          /\ ended = "no" /\ Len(rest) = 0
      BY DEF FilterInit
    <2>2. FilterTypeOK(bytes)
      BY <2>1 DEF FilterTypeOK
    <2>3. Handled = 0
      <3>1. Handled = 0 - 0
        BY <2>1, Zenon DEF Handled
      <3> QED
        BY <3>1
    <2>4. Carried
      <3> \A i \in 1..0 : FALSE
        OBVIOUS
      <3> QED
        BY <2>1 DEF Carried
    <2>5. SoFar \in Seq(bytes) /\ Len(SoFar) = 0
      BY <2>1, <2>2, <2>4, RestKey
    <2>6. Parse(SoFar, 0, {})
      BY <2>5 DEF Parse
    <2> DEFINE none == KeysIn(SoFar, {})
    <2>7. DOMAIN none = {}
      BY DEF KeysIn
    <2> HIDE DEF none
    <2>8. ~Escapes(none) /\ ~Pending(none) /\ StartsLine(none, 0 + 1)
      BY <2>7 DEF Escapes, Pending, StartsLine
    <2>9. Tracks(none, 0, held, lineStart)
      BY <2>1, <2>8 DEF Tracks
    <2>10. Follows
      BY <2>3, <2>6, <2>9 DEF Follows, none
    <2> QED
      BY <2>1, <2>2, <2>4, <2>10 DEF Understood
  <1>2. Understood(bytes) /\ [FilterNext]_filterVars => Understood(bytes)'
    BY UnderstoodStep
  <1>3. Understood(bytes) => EscapeIffTyped
    <2> SUFFICES ASSUME Understood(bytes), ~harmed, ~Overlong, pushing => ended = "escape"
                 PROVE  (ended = "escape") <=> Escapes(Keys(SoFar))
      BY DEF EscapeIffTyped, SoFar
    <2>1. CASE ended = "escape"
      BY <2>1 DEF Understood
    <2>2. CASE ended = "no"
      BY <2>2, NoEscape
    <2>3. CASE ended \notin {"no", "escape"}
      BY <2>3 DEF Understood
    <2> QED
      BY <2>1, <2>2, <2>3
  <1> QED
    BY <1>1, <1>2, <1>3, PTL DEF FilterSpec

-----------------------------------------------------------------------------
(* The alternate screen, for outputs of any length over any set of bytes:  *)
(* the state of the tracker after n bytes is determined by the sequence    *)
(* that is open there, and the screen by the last switch.                  *)

\* The greatest number of a set, where there is one.
LEMMA GreatestIs ==
    ASSUME NEW S, S \subseteq Nat, NEW m \in S, \A n \in S : n <= m
    PROVE  Greatest(S) = m
  <1> DEFINE g == CHOOSE k \in S : \A n \in S : n <= k
  <1>1. g \in S /\ \A n \in S : n <= g
    BY Zenon
  <1> HIDE DEF g
  <1>2. g \in Nat /\ m \in Nat /\ g <= m /\ m <= g
    BY <1>1
  <1>3. g = m
    BY <1>2
  <1> QED
    BY <1>3 DEF g, Greatest

\* A set of numbers up to N has a greatest one.
LEMMA GreatestIn ==
    ASSUME NEW N \in Nat, NEW S, S \subseteq 1..N, S # {}
    PROVE  Greatest(S) \in S
  <1> DEFINE T == {N - k : k \in S}
  <1>1. T \subseteq Nat /\ T # {}
    <2>1. \A k \in S : N - k \in Nat
      OBVIOUS
    <2> QED
      BY <2>1, Zenon
  <1>2. PICK d \in T : \A k \in T : d <= k
    <2> HIDE DEF T
    <2> QED BY <1>1, LeastOf
  <1>3. PICK m \in S : d = N - m
    OBVIOUS
  <1>4. \A n \in S : N - m <= N - n
    BY <1>2, <1>3
  <1>5. \A n \in S : n <= m
    BY <1>4
  <1>6. Greatest(S) = m
    <2>1. S \subseteq Nat
      OBVIOUS
    <2> QED
      BY <1>5, <2>1, GreatestIs
  <1> QED
    BY <1>6

\* A sequence was entered at i, and only control characters follow up to n.
EntryTo(s, i, n) == i + 1 <= n /\ s[i] = "ESC" /\ s[i + 1] = "[" /\ Controls(s, i + 2, n)

InEscape(s, n) == n >= 1 /\ s[n] = "ESC"
InEntry(s, n) == \E i \in 1..n : EntryTo(s, i, n)
InPrivate(s, n) == \E i, q \in 1..n : PrivateTo(s, i, q, n)

\* What a private mode sequence may go on with.
Params == DOMAIN NumberOf \cup {";", "BEL"}

\* The names of the bytes differ.
LEMMA ByteNames ==
    /\ DOMAIN NumberOf = {"n25", "n47", "n1047", "n1049"}
    /\ \A b \in Params : b \notin {"ESC", "CAN", "[", "?", "h", "l"}
    /\ \A b \in DOMAIN NumberOf : b \notin {";", "BEL", "?"}
  BY DEF Params, NumberOf

\* One byte more in a sequence that was only entered.
LEMMA EntryStep ==
    ASSUME NEW s, NEW n \in Nat
    PROVE  InEntry(s, n + 1) <=> \/ InEntry(s, n) /\ s[n + 1] = "BEL"
                                 \/ InEscape(s, n) /\ s[n + 1] = "["
  <1>1. ASSUME InEntry(s, n + 1)
        PROVE  (InEntry(s, n) /\ s[n + 1] = "BEL") \/ (InEscape(s, n) /\ s[n + 1] = "[")
    <2>1. PICK i \in 1..n + 1 : EntryTo(s, i, n + 1)
      BY <1>1 DEF InEntry
    <2>2. CASE i = n
      BY <2>1, <2>2 DEF EntryTo, InEscape
    <2>3. CASE i # n
      <3>1. i \in 1..n /\ i + 1 <= n /\ n + 1 \in i + 2..n + 1
        BY <2>1, <2>3 DEF EntryTo
      <3>2. s[n + 1] = "BEL"
        BY <2>1, <3>1 DEF EntryTo, Controls
      <3>3. EntryTo(s, i, n)
        BY <2>1, <3>1 DEF EntryTo, Controls
      <3> QED
        BY <3>1, <3>2, <3>3 DEF InEntry
    <2> QED
      BY <2>2, <2>3
  <1>2. ASSUME InEntry(s, n), s[n + 1] = "BEL" PROVE InEntry(s, n + 1)
    <2>1. PICK i \in 1..n : EntryTo(s, i, n)
      BY <1>2 DEF InEntry
    <2>2. \A j \in i + 2..n + 1 : j = n + 1 \/ j \in i + 2..n
      OBVIOUS
    <2>3. Controls(s, i + 2, n + 1)
      BY <1>2, <2>1, <2>2 DEF EntryTo, Controls
    <2>4. i \in 1..n + 1 /\ i + 1 <= n + 1
      OBVIOUS
    <2> QED
      BY <2>1, <2>3, <2>4 DEF EntryTo, InEntry
  <1>3. ASSUME InEscape(s, n), s[n + 1] = "[" PROVE InEntry(s, n + 1)
    <2>1. n \in 1..n + 1 /\ s[n] = "ESC" /\ n + 1 <= n + 1
      BY <1>3 DEF InEscape
    <2>2. Controls(s, n + 2, n + 1)
      BY DEF Controls
    <2> QED
      BY <1>3, <2>1, <2>2 DEF EntryTo, InEntry
  <1> QED
    BY <1>1, <1>2, <1>3

\* One byte more in a private mode sequence.
LEMMA PrivateMore ==
    ASSUME NEW s, NEW n \in Nat, NEW i \in 1..n, NEW q \in 1..n, PrivateTo(s, i, q, n),
           s[n + 1] \in Params
    PROVE  PrivateTo(s, i, q, n + 1)
  <1>1. \A j \in q + 1..n + 1 : j = n + 1 \/ j \in q + 1..n
    OBVIOUS
  <1>2. \A j \in q + 1..n + 1 : s[j] \in Params
    BY <1>1 DEF PrivateTo, Params
  <1>3. q <= n + 1
    OBVIOUS
  <1> QED
    BY <1>2, <1>3 DEF PrivateTo, Params

\* A private mode sequence is open behind one that was and a parameter byte, or
\* behind the ? that makes one of an entry.
LEMMA PrivateStep ==
    ASSUME NEW s, NEW n \in Nat
    PROVE  InPrivate(s, n + 1) <=> \/ InPrivate(s, n) /\ s[n + 1] \in Params
                                   \/ InEntry(s, n) /\ s[n + 1] = "?"
  <1>1. ASSUME InPrivate(s, n + 1)
        PROVE  (InPrivate(s, n) /\ s[n + 1] \in Params) \/ (InEntry(s, n) /\ s[n + 1] = "?")
    <2>1. PICK i \in 1..n + 1, q \in 1..n + 1 : PrivateTo(s, i, q, n + 1)
      BY <1>1 DEF InPrivate
    <2>2. CASE q = n + 1
      <3>0. i + 1 < n + 1
        BY <2>1, <2>2 DEF PrivateTo
      <3>1. i \in 1..n /\ i + 1 <= n /\ (n + 1) - 1 = n
        BY <3>0
      <3>2. EntryTo(s, i, n)
        BY <2>1, <2>2, <3>1 DEF PrivateTo, EntryTo
      <3>3. s[n + 1] = "?"
        BY <2>1, <2>2 DEF PrivateTo
      <3> QED
        BY <3>1, <3>2, <3>3 DEF InEntry
    <2>3. CASE q # n + 1
      <3>0. i + 1 < q
        BY <2>1 DEF PrivateTo
      <3>1. i \in 1..n /\ q \in 1..n /\ q <= n /\ n + 1 \in q + 1..n + 1
        BY <2>3, <3>0
      <3>2. s[n + 1] \in Params
        BY <2>1, <3>1 DEF PrivateTo, Params
      <3>3. \A j \in q + 1..n : j \in q + 1..n + 1
        BY <3>1
      <3>4. PrivateTo(s, i, q, n)
        BY <2>1, <3>1, <3>3 DEF PrivateTo
      <3> QED
        BY <3>1, <3>2, <3>4 DEF InPrivate
    <2> QED
      BY <2>2, <2>3
  <1>2. ASSUME InPrivate(s, n), s[n + 1] \in Params PROVE InPrivate(s, n + 1)
    <2>1. PICK i \in 1..n, q \in 1..n : PrivateTo(s, i, q, n)
      BY <1>2 DEF InPrivate
    <2>2. PrivateTo(s, i, q, n + 1) /\ i \in 1..n + 1 /\ q \in 1..n + 1
      BY <1>2, <2>1, PrivateMore
    <2> QED
      BY <2>2 DEF InPrivate
  <1>3. ASSUME InEntry(s, n), s[n + 1] = "?" PROVE InPrivate(s, n + 1)
    <2>1. PICK i \in 1..n : EntryTo(s, i, n)
      BY <1>3 DEF InEntry
    <2>2. i \in 1..n + 1 /\ n + 1 \in 1..n + 1 /\ i + 1 < n + 1 /\ (n + 1) - 1 = n
      BY <2>1 DEF EntryTo
    <2>3. \A j \in (n + 1) + 1..n + 1 : FALSE
      OBVIOUS
    <2>4. s[i] = "ESC" /\ s[i + 1] = "[" /\ Controls(s, i + 2, (n + 1) - 1) /\ n + 1 <= n + 1
      BY <2>1, <2>2 DEF EntryTo
    <2>5. PrivateTo(s, i, n + 1, n + 1)
      BY <1>3, <2>2, <2>3, <2>4, Zenon DEF PrivateTo
    <2> QED
      BY <2>2, <2>5 DEF InPrivate
  <1> QED
    BY <1>1, <1>2, <1>3

\* There is one private mode sequence at a time.
LEMMA PrivateOnce ==
    ASSUME NEW s, NEW n \in Nat, NEW i \in 1..n, NEW q \in 1..n, NEW k \in 1..n, NEW r \in 1..n,
           PrivateTo(s, i, q, n), PrivateTo(s, k, r, n)
    PROVE  i = k /\ q = r
  <1>1. ASSUME NEW a \in 1..n, NEW b \in 1..n, PrivateTo(s, a, b, n),
               NEW c \in 1..n, a < c, s[c] = "ESC"
        PROVE  FALSE
    <2>1. c = a + 1 \/ c \in a + 2..b - 1 \/ c = b \/ c \in b + 1..n
      BY <1>1
    <2>2. c \in b + 1..n => s[c] \in Params
      BY <1>1 DEF PrivateTo, Params
    <2>3. c \in a + 2..b - 1 => s[c] = "BEL"
      BY <1>1 DEF PrivateTo, Controls
    <2>4. s[a + 1] = "[" /\ s[b] = "?"
      BY <1>1 DEF PrivateTo
    <2> QED
      BY <1>1, <2>1, <2>2, <2>3, <2>4, ByteNames
  <1>2. s[i] = "ESC" /\ s[k] = "ESC" /\ s[q] = "?" /\ s[r] = "?"
    BY DEF PrivateTo
  <1>3. ~(i < k) /\ ~(k < i)
    BY <1>1, <1>2
  <1>4. i = k
    BY <1>3
  <1>5. ~(q < r)
    <2> SUFFICES ASSUME q < r PROVE FALSE
      OBVIOUS
    <2>1. i + 1 < q
      BY DEF PrivateTo
    <2>2. q \in k + 2..r - 1
      BY <1>4, <2>1
    <2> QED
      BY <1>2, <2>2 DEF PrivateTo, Controls
  <1>6. ~(r < q)
    <2> SUFFICES ASSUME r < q PROVE FALSE
      OBVIOUS
    <2>1. k + 1 < r
      BY DEF PrivateTo
    <2>2. r \in i + 2..q - 1
      BY <1>4, <2>1
    <2> QED
      BY <1>2, <2>2 DEF PrivateTo, Controls
  <1> QED
    BY <1>4, <1>5, <1>6

IsNumber(s, j) == s[j] \in DOMAIN NumberOf

\* The last separator up to n.
LastSep(s, p, n) ==
    /\ p \in 1..n /\ s[p] \in {"?", ";"}
    /\ \A j \in p + 1..n : s[j] \in DOMAIN NumberOf \cup {"BEL"}

\* The one number behind it.
Only(s, j, p, n) == IsNumber(s, j) /\ \A k \in p + 1..n : IsNumber(s, k) => k = j

\* The parameter is what stands behind the separator, or too large for a screen.
ParamIs(v, s, p, n) ==
    \/ v = 0 /\ \A j \in p + 1..n : ~IsNumber(s, j)
    \/ \E j \in p + 1..n : Only(s, j, p, n) /\ v = NumberOf[s[j]]
    \/ v >= 10000 /\ \E j, k \in p + 1..n : j < k /\ IsNumber(s, j) /\ IsNumber(s, k)

\* The screens named between the ? and the separator at e, and what they say.
NamedTo(s, q, e) == {j \in q + 1..e - 1 : IsNamed(s, j, e)}
ModeOf(s, S) == IF S = {} THEN "none" ELSE AltMode[NumberOf[s[Greatest(S)]]]

\* With a separator more, the number between the last two joins what was named.
LEMMA NamedNext ==
    ASSUME NEW s, NEW n \in Nat, NEW i \in 1..n, NEW q \in 1..n, PrivateTo(s, i, q, n),
           NEW p, LastSep(s, p, n), q <= p, NEW j \in q + 1..n
    PROVE  IsNamed(s, j, n + 1) <=>
             \/ j < p /\ IsNamed(s, j, p)
             \/ p < j /\ Only(s, j, p, n) /\ NumberOf[s[j]] \in DOMAIN AltMode
  <1>0. p \in 1..n
    BY Zenon DEF LastSep
  <1>1. /\ s[p] \in {"?", ";"} /\ s[p] # "BEL" /\ s[p] \notin DOMAIN NumberOf
        /\ \A k \in p + 1..n : s[k] # ";" /\ s[k] # "?" /\ (IsNumber(s, k) <=> s[k] # "BEL")
    BY ByteNames DEF LastSep, IsNumber
  <1>2. q < p => s[p] = ";"
    <2>1. ASSUME q < p PROVE p \in q + 1..n
      BY <1>0, <2>1
    <2> QED
      BY <1>1, <2>1, ByteNames DEF PrivateTo, Params
  <1>3. ASSUME j < p, IsNamed(s, j, n + 1) PROVE IsNamed(s, j, p)
    <2>1. PICK k \in j + 1..n + 1 : (k = n + 1 \/ s[k] = ";") /\ Controls(s, j + 1, k - 1)
      BY <1>3 DEF IsNamed
    <2>2. k <= p
      <3>1. p \notin j + 1..k - 1
        BY <1>1, <2>1 DEF Controls
      <3> QED
        BY <1>0, <1>3, <3>1
    <2>3. k \in j + 1..p /\ (k = p \/ s[k] = ";")
      <3>1. k # n + 1 /\ k \in j + 1..p
        BY <1>0, <1>3, <2>2
      <3> QED
        BY <2>1, <3>1
    <2> QED
      BY <1>3, <2>1, <2>3 DEF IsNamed
  <1>4. ASSUME j < p, IsNamed(s, j, p) PROVE IsNamed(s, j, n + 1)
    <2>1. PICK k \in j + 1..p : (k = p \/ s[k] = ";") /\ Controls(s, j + 1, k - 1)
      BY <1>4 DEF IsNamed
    <2>2. q < p /\ k \in j + 1..n + 1
      BY <1>0, <1>4
    <2>3. s[k] = ";"
      BY <1>2, <2>1, <2>2
    <2> QED
      BY <1>4, <2>1, <2>2, <2>3 DEF IsNamed
  <1>5. ~IsNamed(s, p, n + 1)
    BY <1>1 DEF IsNamed
  <1>6. ASSUME p < j, IsNamed(s, j, n + 1)
        PROVE  Only(s, j, p, n) /\ NumberOf[s[j]] \in DOMAIN AltMode
    <2>1. IsNumber(s, j) /\ NumberOf[s[j]] \in DOMAIN AltMode
      BY <1>6 DEF IsNamed, IsNumber
    <2>2. PICK o \in 1..j - 1 : s[o] \in {"?", ";"} /\ Controls(s, o + 1, j - 1)
      BY <1>6 DEF IsNamed
    <2>3. PICK k \in j + 1..n + 1 : (k = n + 1 \/ s[k] = ";") /\ Controls(s, j + 1, k - 1)
      BY <1>6 DEF IsNamed
    <2>4. o = p
      <3>1. o \notin p + 1..n
        BY <1>1, <2>2
      <3>2. p \notin o + 1..j - 1
        BY <1>1, <2>2 DEF Controls
      <3> QED
        BY <1>0, <1>6, <3>1, <3>2
    <2>5. k = n + 1
      <3>1. k \notin p + 1..n \/ k = n + 1
        BY <1>1, <2>3
      <3> QED
        BY <1>0, <1>6, <3>1
    <2>6. ASSUME NEW x \in p + 1..n, x # j PROVE ~IsNumber(s, x)
      <3>1. x \in o + 1..j - 1 \/ x \in j + 1..k - 1
        BY <1>0, <2>4, <2>5, <2>6
      <3>2. s[x] = "BEL"
        BY <2>2, <2>3, <3>1 DEF Controls
      <3> QED
        BY <1>1, <3>2
    <2> QED
      BY <2>1, <2>6 DEF Only
  <1>7. ASSUME p < j, Only(s, j, p, n), NumberOf[s[j]] \in DOMAIN AltMode
        PROVE  IsNamed(s, j, n + 1)
    <2>1. ASSUME NEW x \in p + 1..n, x # j PROVE s[x] = "BEL"
      BY <1>1, <1>7, <2>1 DEF Only
    <2>2. \A x \in p + 1..j - 1 : x \in p + 1..n /\ x # j
      BY <1>0
    <2>3. Controls(s, p + 1, j - 1)
      BY <2>1, <2>2 DEF Controls
    <2>4. \A x \in j + 1..(n + 1) - 1 : x \in p + 1..n /\ x # j
      BY <1>0, <1>7
    <2>5. Controls(s, j + 1, (n + 1) - 1)
      BY <2>1, <2>4 DEF Controls
    <2>6. p \in 1..j - 1 /\ n + 1 \in j + 1..n + 1
      BY <1>0, <1>7
    <2>7. s[j] \in DOMAIN NumberOf
      BY <1>7 DEF Only, IsNumber
    <2> QED
      BY <1>1, <1>7, <2>3, <2>5, <2>6, <2>7, Zenon DEF IsNamed
  <1>8. j < p \/ j = p \/ p < j
    BY <1>0
  <1> QED
    BY <1>3, <1>4, <1>5, <1>6, <1>7, <1>8

\* The mode end_param leaves is that of what is named up to the separator.
LEMMA ModeNext ==
    ASSUME NEW s, NEW n \in Nat, NEW i \in 1..n, NEW q \in 1..n, PrivateTo(s, i, q, n),
           NEW p, LastSep(s, p, n), q <= p, NEW v \in Nat, ParamIs(v, s, p, n)
    PROVE  ModeOf(s, NamedTo(s, q, n + 1)) =
             IF v \in DOMAIN AltMode THEN AltMode[v] ELSE ModeOf(s, NamedTo(s, q, p))
  <1> DEFINE S == NamedTo(s, q, p)
             N == NamedTo(s, q, n + 1)
  <1>1. p \in 1..n /\ DOMAIN AltMode = {47, 1047, 1049}
    BY DEF LastSep, AltMode
  <1>2. \A j : j \in N <=> j \in q + 1..n /\ IsNamed(s, j, n + 1)
    <2>1. (n + 1) - 1 = n
      OBVIOUS
    <2> QED
      BY <2>1 DEF NamedTo
  <1>3. \A j : j \in S <=> j \in q + 1..n /\ j < p /\ IsNamed(s, j, p)
    <2>1. \A j : j \in q + 1..p - 1 <=> j \in q + 1..n /\ j < p
      BY <1>1
    <2> QED
      BY <2>1 DEF NamedTo
  <1>4. \A j : j \in N <=> j \in S \/ (/\ j \in q + 1..n /\ p < j /\ Only(s, j, p, n)
                                       /\ NumberOf[s[j]] \in DOMAIN AltMode)
    BY <1>2, <1>3, NamedNext
  <1>5. CASE v \in DOMAIN AltMode
    <2>1. PICK j \in p + 1..n : Only(s, j, p, n) /\ v = NumberOf[s[j]]
      BY <1>1, <1>5 DEF ParamIs
    <2>2. j \in q + 1..n /\ p < j
      BY <1>1
    <2>3. j \in N
      BY <1>4, <1>5, <2>1, <2>2
    <2>4. ASSUME NEW k \in N PROVE k \in Nat /\ k <= j
      <3>1. CASE k \in S
        BY <1>1, <1>3, <2>2, <3>1
      <3>2. CASE k \in q + 1..n /\ p < k /\ Only(s, k, p, n)
        <4>1. k \in p + 1..n /\ IsNumber(s, k)
          BY <1>1, <3>2 DEF Only
        <4>2. k = j
          BY <2>1, <4>1 DEF Only
        <4> QED
          BY <1>1, <2>2, <4>2
      <3> QED
        BY <1>4, <3>1, <3>2
    <2>5. Greatest(N) = j
      <3>1. N \subseteq Nat /\ \A k \in N : k <= j
        BY <2>4
      <3> HIDE DEF N
      <3> QED
        BY <2>3, <3>1, GreatestIs
    <2> HIDE DEF N
    <2>6. ModeOf(s, N) = AltMode[v]
      BY <2>1, <2>3, <2>5 DEF ModeOf
    <2> QED
      BY <1>5, <2>6 DEF N
  <1>6. CASE v \notin DOMAIN AltMode
    <2>1. ASSUME NEW j \in q + 1..n, p < j, Only(s, j, p, n), NumberOf[s[j]] \in DOMAIN AltMode
          PROVE  FALSE
      <3>1. j \in p + 1..n /\ IsNumber(s, j)
        BY <1>1, <2>1 DEF Only
      <3>2. ASSUME NEW k \in p + 1..n, Only(s, k, p, n), v = NumberOf[s[k]] PROVE FALSE
        BY <1>6, <2>1, <3>1, <3>2 DEF Only
      <3>3. ASSUME NEW k \in p + 1..n, NEW l \in p + 1..n, k < l, IsNumber(s, k), IsNumber(s, l)
            PROVE  FALSE
        <4>1. k = j /\ l = j
          BY <2>1, <3>3 DEF Only
        <4> QED
          BY <1>1, <3>3, <4>1
      <3> QED
        BY <3>1, <3>2, <3>3 DEF ParamIs
    <2>2. N = S
      <3>1. \A j : j \in N <=> j \in S
        BY <1>4, <2>1, Zenon
      <3> QED
        BY <3>1, Zenon
    <2> QED
      BY <1>6, <2>2
  <1> QED
    BY <1>5, <1>6

Trackers ==
    [state : {"ground", "escape", "entry", "private", "ignore"}, param : Nat,
     mode : {"none", "plain", "save"}, alt : {"off", "plain", "save"}]

\* The screen after n bytes.
SwitchesTo(s, n) == {e \in 1..n : s[e] \in {"h", "l"} /\ Named(s, e) # {}}
ScreenAt(s, n) ==
    IF SwitchesTo(s, n) = {} \/ s[Greatest(SwitchesTo(s, n))] = "l" THEN "off"
    ELSE ModeOf(s, Named(s, Greatest(SwitchesTo(s, n))))

\* The tracker knows the parameter it is in and the screens named before it.
Reading(t, s, n) ==
    \E i, q, p \in 1..n :
        /\ PrivateTo(s, i, q, n) /\ LastSep(s, p, n) /\ q <= p
        /\ ParamIs(t.param, s, p, n) /\ t.mode = ModeOf(s, NamedTo(s, q, p))

\* The state of the tracker after n bytes.
TrackerAt(t, s, n) ==
    /\ t \in Trackers /\ t.alt = ScreenAt(s, n)
    /\ t.state = "escape" <=> InEscape(s, n)
    /\ t.state = "entry" <=> InEntry(s, n)
    /\ t.state = "private" <=> InPrivate(s, n)
    /\ InPrivate(s, n) => Reading(t, s, n)

\* end_param on its own.
LEMMA EndParamIs ==
    ASSUME NEW t \in Trackers
    PROVE  /\ EndParam(t) \in Trackers /\ EndParam(t).state = t.state /\ EndParam(t).alt = t.alt
           /\ EndParam(t).param = 0
           /\ EndParam(t).mode = IF t.param \in DOMAIN AltMode THEN AltMode[t.param] ELSE t.mode
  <1>1. \A v \in DOMAIN AltMode : AltMode[v] \in {"plain", "save"}
    BY DEF AltMode
  <1> QED
    BY <1>1 DEF EndParam, Trackers

\* Numbers are larger than zero.
LEMMA NumberSizes ==
    \A b \in DOMAIN NumberOf : NumberOf[b] \in Nat /\ NumberOf[b] >= 25 /\ NumberOf[b] < 10000
  BY DEF NumberOf

\* One byte: what becomes of the state of the tracker and of the screen.
LEMMA TrackState ==
    ASSUME NEW t \in Trackers, NEW b
    PROVE  /\ Track(t, b) \in Trackers
           /\ Track(t, b).state = "escape" <=> b = "ESC"
           /\ Track(t, b).state = "entry" <=> \/ t.state = "entry" /\ b = "BEL"
                                              \/ t.state = "escape" /\ b = "["
           /\ Track(t, b).state = "private" <=> \/ t.state = "private" /\ b \in Params
                                                \/ t.state = "entry" /\ b = "?"
           /\ Track(t, b).alt =
                IF t.state = "private" /\ b \in {"h", "l"} /\ EndParam(t).mode # "none"
                THEN IF b = "h" THEN EndParam(t).mode ELSE "off"
                ELSE t.alt
  <1>1. /\ t.state \in {"ground", "escape", "entry", "private", "ignore"}
        /\ t.param \in Nat /\ t.mode \in {"none", "plain", "save"} /\ t.alt \in {"off", "plain", "save"}
    BY DEF Trackers
  <1>2. \A x \in {"ground", "escape", "entry", "private", "ignore"} :
            /\ [t EXCEPT !.state = x] \in Trackers
            /\ [t EXCEPT !.state = x].state = x /\ [t EXCEPT !.state = x].alt = t.alt
    BY DEF Trackers
  <1>3. CASE b = "ESC"
    BY <1>2, <1>3, ByteNames DEF Track
  <1>4. CASE b # "ESC" /\ (b = "CAN" \/ t.state = "ground")
    <2>1. Track(t, b) = [t EXCEPT !.state = "ground"]
      BY <1>4, Zenon DEF Track
    <2>2. /\ Track(t, b) \in Trackers /\ Track(t, b).state = "ground" /\ Track(t, b).alt = t.alt
      BY <1>2, <2>1
    <2>3. CASE t.state = "ground"
      BY <1>4, <2>2, <2>3
    <2>4. CASE b = "CAN"
      <3>1. b \notin Params /\ b \notin {"h", "l"}
        BY <2>4, ByteNames
      <3> QED
        BY <2>2, <2>4, <3>1
    <2> QED
      BY <1>4, <2>3, <2>4
  <1>5. CASE b \notin {"ESC", "CAN"} /\ t.state = "escape"
    BY <1>2, <1>5, ByteNames DEF Track
  <1>6. CASE b = "BEL" /\ t.state \in {"entry", "private", "ignore"}
    <2>1. Track(t, b) = t
      BY <1>6 DEF Track
    <2> QED
      BY <1>6, <2>1 DEF Params
  <1>7. CASE t.state = "entry" /\ b = "?"
    <2>1. Track(t, b) = EnterPrivate(t)
      BY <1>7 DEF Track
    <2>2. EnterPrivate(t) \in Trackers /\ EnterPrivate(t).state = "private" /\ EnterPrivate(t).alt = t.alt
      BY DEF EnterPrivate, Trackers
    <2> QED
      BY <1>7, <2>1, <2>2
  <1>8. LeaveCsi(t, b) \in Trackers /\ LeaveCsi(t, b).state \in {"ground", "ignore"}
        /\ LeaveCsi(t, b).alt = t.alt
    BY <1>2 DEF LeaveCsi
  <1>9. CASE t.state = "private" /\ b \notin {"ESC", "CAN", "BEL"}
    <2>1. Track(t, b) = TrackPrivate(t, b)
      BY <1>9 DEF Track
    <2>2. CASE b \in DOMAIN NumberOf
      <3>1. b \notin {"ESC", "CAN", "BEL", "?", "h", "l", "["} /\ b \in Params
        BY <2>2, ByteNames DEF Params
      <3>2. Track(t, b) = [t EXCEPT !.param = @ * 10000 + NumberOf[b]]
        BY <2>1, <2>2 DEF TrackPrivate, AddDigits
      <3>3. t.param * 10000 + NumberOf[b] \in Nat
        BY <1>1, <2>2, NumberSizes
      <3>4. Track(t, b) \in Trackers /\ Track(t, b).state = t.state /\ Track(t, b).alt = t.alt
        BY <3>2, <3>3 DEF Trackers
      <3> QED
        BY <1>9, <3>1, <3>4
    <2>3. CASE b = ";"
      <3>1. b \notin DOMAIN NumberOf /\ b \in Params
        BY <2>3, ByteNames DEF Params
      <3>2. Track(t, b) = EndParam(t)
        BY <2>1, <2>3, <3>1 DEF TrackPrivate
      <3> QED
        BY <1>9, <2>3, <3>1, <3>2, EndParamIs
    <2>4. CASE b \in {"h", "l"}
      <3>1. b \notin DOMAIN NumberOf /\ b # ";" /\ b \notin Params
        BY <2>4, ByteNames DEF Params
      <3>2. Track(t, b) = Switch(t, b)
        BY <2>1, <2>4, <3>1 DEF TrackPrivate
      <3> DEFINE e == EndParam(t)
      <3>3. e \in Trackers /\ e.alt = t.alt
        BY EndParamIs
      <3>4. Switch(t, b) = [e EXCEPT !.state = "ground",
                   !.alt = IF e.mode = "none" THEN @ ELSE IF b = "h" THEN e.mode ELSE "off"]
        BY DEF Switch
      <3> HIDE DEF e
      <3>5. Switch(t, b) \in Trackers /\ Switch(t, b).state = "ground"
            /\ Switch(t, b).alt = IF e.mode = "none" THEN e.alt ELSE IF b = "h" THEN e.mode ELSE "off"
        BY <3>3, <3>4 DEF Trackers
      <3> QED
        BY <1>9, <2>4, <3>1, <3>2, <3>3, <3>5 DEF e
    <2>5. CASE b \notin DOMAIN NumberOf /\ b \notin {";", "h", "l"}
      <3>1. Track(t, b) = LeaveCsi(t, b)
        BY <2>1, <2>5 DEF TrackPrivate
      <3>2. b \notin Params
        BY <1>9, <2>5 DEF Params
      <3> QED
        BY <1>8, <1>9, <2>5, <3>1, <3>2
    <2> QED
      BY <2>2, <2>3, <2>4, <2>5
  <1>10. CASE /\ b \notin {"ESC", "CAN", "BEL"} /\ t.state \in {"entry", "ignore"}
              /\ ~(t.state = "entry" /\ b = "?")
    <2>1. Track(t, b) = LeaveCsi(t, b)
      BY <1>10 DEF Track
    <2> QED
      BY <1>8, <1>10, <2>1
  <1> QED
    BY <1>1, <1>3, <1>4, <1>5, <1>6, <1>7, <1>9, <1>10

\* The numbers to n and the next.
LEMMA OneMore ==
    ASSUME NEW n \in Nat
    PROVE  /\ n + 1 \in 1..n + 1 /\ \A i \in 1..n : i \in 1..n + 1 /\ i <= n + 1
           /\ \A i \in (n + 1) + 1..n + 1 : FALSE
  OBVIOUS

\* A control character changes nothing of what is being read.
LEMMA ReadingControl ==
    ASSUME NEW s, NEW n \in Nat, NEW t \in Trackers, Reading(t, s, n), s[n + 1] = "BEL"
    PROVE  Reading(t, s, n + 1)
  <1>1. PICK i \in 1..n, q \in 1..n, p \in 1..n :
            /\ PrivateTo(s, i, q, n) /\ LastSep(s, p, n) /\ q <= p
            /\ ParamIs(t.param, s, p, n) /\ t.mode = ModeOf(s, NamedTo(s, q, p))
    BY DEF Reading
  <1>2. \A j \in p + 1..n + 1 : j = n + 1 \/ j \in p + 1..n
    OBVIOUS
  <1>3. \A j \in p + 1..n : j \in p + 1..n + 1
    OBVIOUS
  <1>4. i \in 1..n + 1 /\ q \in 1..n + 1 /\ p \in 1..n + 1
    OBVIOUS
  <1>5. ~IsNumber(s, n + 1) /\ s[n + 1] \in Params
    BY ByteNames DEF IsNumber, Params
  <1>6. PrivateTo(s, i, q, n + 1)
    BY <1>1, <1>5, PrivateMore
  <1>7. LastSep(s, p, n + 1)
    BY <1>1, <1>2, <1>4 DEF LastSep
  <1>8. ParamIs(t.param, s, p, n + 1)
    <2>1. CASE t.param = 0 /\ \A j \in p + 1..n : ~IsNumber(s, j)
      BY <1>2, <1>5, <2>1 DEF ParamIs
    <2>2. CASE \E j \in p + 1..n : Only(s, j, p, n) /\ t.param = NumberOf[s[j]]
      <3>1. PICK j \in p + 1..n : Only(s, j, p, n) /\ t.param = NumberOf[s[j]]
        BY <2>2
      <3>2. Only(s, j, p, n + 1)
        BY <1>2, <1>5, <3>1 DEF Only
      <3> QED
        BY <1>3, <3>1, <3>2 DEF ParamIs
    <2>3. CASE t.param >= 10000 /\ \E j, k \in p + 1..n : j < k /\ IsNumber(s, j) /\ IsNumber(s, k)
      <3>1. PICK j \in p + 1..n, k \in p + 1..n : j < k /\ IsNumber(s, j) /\ IsNumber(s, k)
        BY <2>3
      <3>2. j \in p + 1..n + 1 /\ k \in p + 1..n + 1
        BY <1>3
      <3> QED
        BY <2>3, <3>1, <3>2 DEF ParamIs
    <2> QED
      BY <1>1, <2>1, <2>2, <2>3 DEF ParamIs
  <1> QED
    BY <1>1, <1>4, <1>6, <1>7, <1>8 DEF Reading

\* Digits make a number, or one that is too large.
LEMMA ReadingDigits ==
    ASSUME NEW s, NEW n \in Nat, NEW t \in Trackers, Reading(t, s, n), IsNumber(s, n + 1)
    PROVE  Reading(AddDigits(t, s[n + 1]), s, n + 1)
  <1> DEFINE v == t.param
             d == NumberOf[s[n + 1]]
             w == v * 10000 + d
  <1>1. PICK i \in 1..n, q \in 1..n, p \in 1..n :
            /\ PrivateTo(s, i, q, n) /\ LastSep(s, p, n) /\ q <= p
            /\ ParamIs(t.param, s, p, n) /\ t.mode = ModeOf(s, NamedTo(s, q, p))
    BY DEF Reading
  <1>2. \A j \in p + 1..n + 1 : j = n + 1 \/ j \in p + 1..n
    OBVIOUS
  <1>3. \A j \in p + 1..n : j \in p + 1..n + 1 /\ j < n + 1
    OBVIOUS
  <1>4. i \in 1..n + 1 /\ q \in 1..n + 1 /\ p \in 1..n + 1 /\ n + 1 \in p + 1..n + 1
    OBVIOUS
  <1>5. s[n + 1] \in Params /\ s[n + 1] \in DOMAIN NumberOf
    BY DEF IsNumber, Params
  <1>6. PrivateTo(s, i, q, n + 1)
    BY <1>1, <1>5, PrivateMore
  <1>7. LastSep(s, p, n + 1)
    BY <1>1, <1>2, <1>4, <1>5 DEF LastSep
  <1>8. AddDigits(t, s[n + 1]).param = w /\ AddDigits(t, s[n + 1]).mode = t.mode
    BY DEF AddDigits, Trackers
  <1>9. v \in Nat /\ d \in Nat /\ d >= 25
    BY <1>5, NumberSizes DEF Trackers
  <1>10. ParamIs(w, s, p, n + 1)
    <2>1. CASE v = 0 /\ \A j \in p + 1..n : ~IsNumber(s, j)
      <3>1. Only(s, n + 1, p, n + 1)
        BY <1>2, <2>1 DEF Only
      <3>2. w = d
        BY <1>9, <2>1
      <3> HIDE DEF w
      <3> QED
        BY <1>4, <3>1, <3>2 DEF ParamIs
    <2>2. CASE \E j \in p + 1..n : Only(s, j, p, n) /\ v = NumberOf[s[j]]
      <3>1. PICK j \in p + 1..n : Only(s, j, p, n) /\ v = NumberOf[s[j]]
        BY <2>2
      <3>2. IsNumber(s, j) /\ v >= 25
        BY <3>1, NumberSizes DEF Only, IsNumber
      <3>3. w >= 10000
        <4> HIDE DEF v, d
        <4> QED BY <1>9, <3>2
      <3> HIDE DEF w
      <3> QED
        BY <1>3, <1>4, <3>2, <3>3 DEF ParamIs
    <2>3. CASE v >= 10000 /\ \E j, k \in p + 1..n : j < k /\ IsNumber(s, j) /\ IsNumber(s, k)
      <3>1. w >= 10000
        <4> HIDE DEF v, d
        <4> QED BY <1>9, <2>3
      <3>2. PICK j \in p + 1..n, k \in p + 1..n : j < k /\ IsNumber(s, j) /\ IsNumber(s, k)
        BY <2>3
      <3>3. j \in p + 1..n + 1 /\ k \in p + 1..n + 1
        BY <1>3
      <3> HIDE DEF w
      <3> QED
        BY <3>1, <3>2, <3>3 DEF ParamIs
    <2> QED
      BY <1>1, <2>1, <2>2, <2>3 DEF ParamIs
  <1> HIDE DEF w
  <1> QED
    BY <1>1, <1>4, <1>6, <1>7, <1>8, <1>10 DEF Reading

\* The mode that end_param leaves is that of what is named so far.
LEMMA EndParamMode ==
    ASSUME NEW s, NEW n \in Nat, NEW t \in Trackers, NEW i \in 1..n, NEW q \in 1..n,
           NEW p \in 1..n, PrivateTo(s, i, q, n), LastSep(s, p, n), q <= p,
           ParamIs(t.param, s, p, n), t.mode = ModeOf(s, NamedTo(s, q, p))
    PROVE  EndParam(t).mode = ModeOf(s, NamedTo(s, q, n + 1)) /\ EndParam(t).param = 0
  <1>1. t.param \in Nat
    BY DEF Trackers
  <1>2. ModeOf(s, NamedTo(s, q, n + 1)) =
          IF t.param \in DOMAIN AltMode THEN AltMode[t.param] ELSE ModeOf(s, NamedTo(s, q, p))
    BY <1>1, ModeNext
  <1> QED
    BY <1>2, EndParamIs

\* What there is to show of a sequence that is being read.
LEMMA ReadingAt ==
    ASSUME NEW t, NEW s, NEW n, NEW i \in 1..n, NEW q \in 1..n, NEW p \in 1..n,
           PrivateTo(s, i, q, n), LastSep(s, p, n), q <= p, ParamIs(t.param, s, p, n),
           t.mode = ModeOf(s, NamedTo(s, q, p))
    PROVE  Reading(t, s, n)
  BY DEF Reading

\* A separator ends the number.
LEMMA ReadingSep ==
    ASSUME NEW s, NEW n \in Nat, NEW t \in Trackers, Reading(t, s, n), s[n + 1] = ";"
    PROVE  Reading(EndParam(t), s, n + 1)
  <1>1. PICK i \in 1..n, q \in 1..n, p \in 1..n :
            /\ PrivateTo(s, i, q, n) /\ LastSep(s, p, n) /\ q <= p
            /\ ParamIs(t.param, s, p, n) /\ t.mode = ModeOf(s, NamedTo(s, q, p))
    BY DEF Reading
  <1>2. i \in 1..n + 1 /\ q \in 1..n + 1 /\ n + 1 \in 1..n + 1 /\ q <= n + 1
    BY OneMore, Zenon
  <1>3. \A j \in (n + 1) + 1..n + 1 : FALSE
    BY OneMore, Zenon
  <1>4. s[n + 1] \in Params
    BY DEF Params
  <1>5. PrivateTo(s, i, q, n + 1)
    BY <1>1, <1>4, PrivateMore
  <1>6. LastSep(s, n + 1, n + 1) /\ ParamIs(0, s, n + 1, n + 1)
    BY <1>2, <1>3, Zenon DEF LastSep, ParamIs
  <1>7. EndParam(t).mode = ModeOf(s, NamedTo(s, q, n + 1)) /\ EndParam(t).param = 0
    BY <1>1, EndParamMode, Zenon
  <1>8. ParamIs(EndParam(t).param, s, n + 1, n + 1)
    BY <1>6, <1>7, Zenon
  <1>9. EndParam(t).mode = ModeOf(s, NamedTo(s, q, n + 1))
    BY <1>7, Zenon
  <1> QED
    BY <1>2, <1>5, <1>6, <1>8, <1>9, ReadingAt, Zenon

\* A private mode sequence begins with nothing named.
LEMMA ReadingFirst ==
    ASSUME NEW s, NEW n \in Nat, NEW t \in Trackers, InEntry(s, n), s[n + 1] = "?"
    PROVE  Reading(EnterPrivate(t), s, n + 1)
  <1>1. PICK i \in 1..n + 1, q \in 1..n + 1 : PrivateTo(s, i, q, n + 1)
    BY PrivateStep DEF InPrivate
  <1>2. q = n + 1
    <2>1. q \in 1..n => n + 1 \in q + 1..n + 1
      OBVIOUS
    <2>2. q \in 1..n => s[n + 1] \in Params
      BY <1>1, <2>1 DEF PrivateTo, Params
    <2>3. s[n + 1] \notin Params
      BY ByteNames
    <2> QED
      BY <2>2, <2>3
  <1>3. \A j \in (n + 1) + 1..n + 1 : FALSE
    OBVIOUS
  <1>4. n + 1 \in 1..n + 1 /\ n + 1 <= n + 1
    OBVIOUS
  <1>5. LastSep(s, n + 1, n + 1) /\ ParamIs(0, s, n + 1, n + 1)
    BY <1>3, <1>4, Zenon DEF LastSep, ParamIs
  <1>6. NamedTo(s, n + 1, n + 1) = {}
    BY DEF NamedTo
  <1>7. EnterPrivate(t).param = 0 /\ EnterPrivate(t).mode = "none"
    BY DEF EnterPrivate, Trackers
  <1> QED
    BY <1>1, <1>2, <1>4, <1>5, <1>6, <1>7 DEF Reading, ModeOf

\* What a sequence that ends at byte n + 1 names.
LEMMA NamedEnds ==
    ASSUME NEW s, NEW n \in Nat
    PROVE  /\ ~InPrivate(s, n) => Named(s, n + 1) = {}
           /\ \A i, q \in 1..n : PrivateTo(s, i, q, n) => Named(s, n + 1) = NamedTo(s, q, n + 1)
  <1>1. (n + 1) - 1 = n
    OBVIOUS
  <1>2. \A j : j \in Named(s, n + 1) <=>
            /\ j \in 1..n /\ IsNamed(s, j, n + 1)
            /\ \E i, q \in 1..j - 1 : PrivateTo(s, i, q, n)
    BY <1>1 DEF Named
  <1>3. \A j \in 1..n : \A i \in 1..j - 1 : i \in 1..n
    OBVIOUS
  <1>4. ASSUME ~InPrivate(s, n) PROVE Named(s, n + 1) = {}
    BY <1>2, <1>3, <1>4, Zenon DEF InPrivate
  <1>5. ASSUME NEW i \in 1..n, NEW q \in 1..n, PrivateTo(s, i, q, n)
        PROVE  Named(s, n + 1) = NamedTo(s, q, n + 1)
    <2>1. i + 1 < q
      BY <1>5 DEF PrivateTo
    <2>2. \A j : j \in NamedTo(s, q, n + 1) <=> j \in q + 1..n /\ IsNamed(s, j, n + 1)
      BY <1>1 DEF NamedTo
    <2>3. ASSUME NEW j \in Named(s, n + 1) PROVE j \in NamedTo(s, q, n + 1)
      <3>1. j \in 1..n /\ IsNamed(s, j, n + 1)
        BY <1>2, <2>3
      <3>2. PICK k \in 1..j - 1, r \in 1..j - 1 : PrivateTo(s, k, r, n)
        BY <1>2, <2>3
      <3>3. r = q
        BY <1>3, <1>5, <3>1, <3>2, PrivateOnce
      <3>4. j \in q + 1..n
        BY <3>1, <3>2, <3>3
      <3> QED
        BY <2>2, <3>1, <3>4
    <2>4. ASSUME NEW j \in NamedTo(s, q, n + 1) PROVE j \in Named(s, n + 1)
      <3>1. j \in q + 1..n /\ IsNamed(s, j, n + 1)
        BY <2>2, <2>4
      <3>2. j \in 1..n /\ i \in 1..j - 1 /\ q \in 1..j - 1
        BY <2>1, <3>1
      <3> QED
        BY <1>2, <1>5, <3>1, <3>2
    <2> QED
      BY <2>3, <2>4, Zenon
  <1> QED
    BY <1>4, <1>5

\* A byte that ends no switch leaves the screen; one that does chooses it.
LEMMA ScreenNext ==
    ASSUME NEW s, NEW n \in Nat
    PROVE  ScreenAt(s, n + 1) =
             IF s[n + 1] \in {"h", "l"} /\ Named(s, n + 1) # {}
             THEN IF s[n + 1] = "l" THEN "off" ELSE ModeOf(s, Named(s, n + 1))
             ELSE ScreenAt(s, n)
  <1> DEFINE switch == s[n + 1] \in {"h", "l"} /\ Named(s, n + 1) # {}
             A == SwitchesTo(s, n)
             B == SwitchesTo(s, n + 1)
  <1>1. \A e : e \in 1..n + 1 <=> e \in 1..n \/ e = n + 1
    OBVIOUS
  <1>2. \A e : e \in B <=> e \in A \/ (e = n + 1 /\ switch)
    BY <1>1, Zenon DEF SwitchesTo
  <1>3. CASE ~switch
    <2>1. B = A
      BY <1>2, <1>3, Zenon
    <2> QED
      BY <1>3, <2>1, Zenon DEF ScreenAt
  <1>4. CASE switch
    <2>1. A \subseteq 1..n
      BY DEF SwitchesTo
    <2>2. n + 1 \in B /\ B \subseteq Nat
      BY <1>2, <1>4, <2>1
    <2>3. \A e \in B : e <= n + 1
      BY <1>2, <2>1
    <2>4. Greatest(B) = n + 1
      <3> HIDE DEF B
      <3> QED BY <2>2, <2>3, GreatestIs
    <2>5. B # {}
      BY <2>2
    <2> QED
      BY <1>4, <2>4, <2>5, Zenon DEF ScreenAt
  <1> QED
    BY <1>3, <1>4

\* A byte more, and the tracker is still where the output says.
LEMMA TrackStep ==
    ASSUME NEW s, NEW n \in Nat, NEW t, TrackerAt(t, s, n)
    PROVE  TrackerAt(Track(t, s[n + 1]), s, n + 1)
  <1> DEFINE b == s[n + 1]
             u == Track(t, b)
  <1>1. t \in Trackers /\ t.alt = ScreenAt(s, n)
        /\ (t.state = "escape" <=> InEscape(s, n)) /\ (t.state = "entry" <=> InEntry(s, n))
        /\ (t.state = "private" <=> InPrivate(s, n)) /\ (InPrivate(s, n) => Reading(t, s, n))
    BY DEF TrackerAt
  <1> HIDE DEF b
  <1>2. /\ u \in Trackers
        /\ u.state = "escape" <=> b = "ESC"
        /\ u.state = "entry" <=> (t.state = "entry" /\ b = "BEL") \/ (t.state = "escape" /\ b = "[")
        /\ u.state = "private" <=> (t.state = "private" /\ b \in Params) \/ (t.state = "entry" /\ b = "?")
        /\ u.alt = IF t.state = "private" /\ b \in {"h", "l"} /\ EndParam(t).mode # "none"
                   THEN IF b = "h" THEN EndParam(t).mode ELSE "off"
                   ELSE t.alt
    BY <1>1, TrackState
  <1>3. u.state = "escape" <=> InEscape(s, n + 1)
    <2>1. n + 1 >= 1
      OBVIOUS
    <2> QED
      BY <1>2, <2>1 DEF InEscape, b
  <1>4. u.state = "entry" <=> InEntry(s, n + 1)
    BY <1>1, <1>2, EntryStep DEF b
  <1>5. u.state = "private" <=> InPrivate(s, n + 1)
    BY <1>1, <1>2, PrivateStep DEF b
  <1>6. u.alt = ScreenAt(s, n + 1)
    <2>1. CASE ~(t.state = "private" /\ b \in {"h", "l"})
      <3>1. ~(b \in {"h", "l"} /\ Named(s, n + 1) # {})
        BY <1>1, <2>1, NamedEnds
      <3>2. ScreenAt(s, n + 1) = ScreenAt(s, n)
        BY <3>1, ScreenNext DEF b
      <3> QED
        BY <1>1, <1>2, <2>1, <3>2
    <2>2. CASE t.state = "private" /\ b \in {"h", "l"}
      <3>1. PICK i \in 1..n, q \in 1..n, p \in 1..n :
                /\ PrivateTo(s, i, q, n) /\ LastSep(s, p, n) /\ q <= p
                /\ ParamIs(t.param, s, p, n) /\ t.mode = ModeOf(s, NamedTo(s, q, p))
        BY <1>1, <2>2 DEF Reading
      <3>3. EndParam(t).mode = ModeOf(s, NamedTo(s, q, n + 1))
        BY <1>1, <3>1, EndParamMode, Zenon
      <3>4. Named(s, n + 1) = NamedTo(s, q, n + 1)
        BY <3>1, NamedEnds
      <3>5. Named(s, n + 1) # {} => ModeOf(s, Named(s, n + 1)) \in {"plain", "save"}
        <4> SUFFICES ASSUME Named(s, n + 1) # {} PROVE ModeOf(s, Named(s, n + 1)) \in {"plain", "save"}
          OBVIOUS
        <4> DEFINE N == Named(s, n + 1)
        <4>1. N \subseteq 1..n
          BY DEF Named
        <4>2. Greatest(N) \in N
          <5> HIDE DEF N
          <5> QED BY <4>1, GreatestIn DEF N
        <4>3. NumberOf[s[Greatest(N)]] \in DOMAIN AltMode
          BY <4>2 DEF Named, IsNamed
        <4>4. \A v \in DOMAIN AltMode : AltMode[v] \in {"plain", "save"}
          BY DEF AltMode
        <4> QED
          BY <4>3, <4>4, Zenon DEF ModeOf
      <3>6. EndParam(t).mode # "none" <=> Named(s, n + 1) # {}
        BY <3>3, <3>4, <3>5 DEF ModeOf
      <3>7. ScreenAt(s, n + 1) = IF b \in {"h", "l"} /\ Named(s, n + 1) # {}
                                 THEN IF b = "l" THEN "off" ELSE ModeOf(s, Named(s, n + 1))
                                 ELSE ScreenAt(s, n)
        BY ScreenNext DEF b
      <3> QED
        BY <1>1, <1>2, <2>2, <3>3, <3>4, <3>6, <3>7
    <2> QED
      BY <2>1, <2>2
  <1>7. ASSUME InPrivate(s, n + 1) PROVE Reading(u, s, n + 1)
    <2>1. CASE t.state = "private" /\ b = "BEL"
      <3>1. u = t
        BY <2>1 DEF Track
      <3> QED
        BY <1>1, <2>1, <3>1, ReadingControl DEF b
    <2>2. CASE t.state = "private" /\ b \in DOMAIN NumberOf
      <3>1. b \notin {"ESC", "CAN", "BEL", "?"}
        BY <2>2, ByteNames DEF Params
      <3>2. u = TrackPrivate(t, b)
        BY <2>2, <3>1 DEF Track
      <3>3. u = AddDigits(t, b)
        BY <2>2, <3>2 DEF TrackPrivate
      <3>4. IsNumber(s, n + 1)
        BY <2>2 DEF IsNumber, b
      <3> QED
        BY <1>1, <2>2, <3>3, <3>4, ReadingDigits DEF b
    <2>3. CASE t.state = "private" /\ b = ";"
      <3>1. u = TrackPrivate(t, b) /\ b \notin DOMAIN NumberOf
        BY <2>3, ByteNames DEF Track
      <3>2. u = EndParam(t)
        BY <2>3, <3>1 DEF TrackPrivate
      <3> QED
        BY <1>1, <2>3, <3>2, ReadingSep DEF b
    <2>4. CASE t.state = "entry" /\ b = "?"
      <3>1. u = EnterPrivate(t)
        BY <2>4 DEF Track
      <3> QED
        BY <1>1, <2>4, <3>1, ReadingFirst DEF b
    <2> QED
      BY <1>2, <1>5, <1>7, <2>1, <2>2, <2>3, <2>4 DEF Params
  <1> HIDE DEF u
  <1>8. TrackerAt(u, s, n + 1)
    BY <1>2, <1>3, <1>4, <1>5, <1>6, <1>7 DEF TrackerAt
  <1> QED
    BY <1>8 DEF u, b

\* Two outputs with the same first bytes.
Agree(s, o, N) == \A j \in 1..N : s[j] = o[j]

\* They name the same screens there.
LEMMA NamedAgree ==
    ASSUME NEW s, NEW o, NEW N \in Nat, Agree(s, o, N), NEW e \in 1..N
    PROVE  Named(s, e) \subseteq Named(o, e)
  <1> SUFFICES ASSUME NEW j \in Named(s, e) PROVE j \in Named(o, e)
    OBVIOUS
  <1>1. j \in 1..e - 1 /\ IsNamed(s, j, e) /\ \E i, q \in 1..j - 1 : PrivateTo(s, i, q, e - 1)
    BY DEF Named
  <1>2. ASSUME NEW a \in Nat, NEW b \in Int, a >= 1, b <= N, Controls(s, a, b)
        PROVE  Controls(o, a, b)
    <2>1. \A k \in a..b : k \in 1..N
      BY <1>2
    <2> QED
      BY <1>2, <2>1 DEF Controls, Agree
  <1>3. IsNamed(o, j, e)
    <2>1. j \in 1..N /\ o[j] = s[j]
      BY <1>1 DEF Agree
    <2>2. \E p \in 1..j - 1 : o[p] \in {"?", ";"} /\ Controls(o, p + 1, j - 1)
      <3>1. PICK p \in 1..j - 1 : s[p] \in {"?", ";"} /\ Controls(s, p + 1, j - 1)
        BY <1>1 DEF IsNamed
      <3>2. p \in 1..N /\ p + 1 \in Nat /\ p + 1 >= 1 /\ j - 1 \in Int /\ j - 1 <= N
        BY <2>1
      <3>3. Controls(o, p + 1, j - 1) /\ o[p] = s[p]
        BY <1>2, <3>1, <3>2 DEF Agree
      <3> QED
        BY <3>1, <3>3
    <2>3. \E n \in j + 1..e : (n = e \/ o[n] = ";") /\ Controls(o, j + 1, n - 1)
      <3>1. PICK n \in j + 1..e : (n = e \/ s[n] = ";") /\ Controls(s, j + 1, n - 1)
        BY <1>1 DEF IsNamed
      <3>2. n \in 1..N /\ j + 1 \in Nat /\ j + 1 >= 1 /\ n - 1 \in Int /\ n - 1 <= N
        BY <2>1
      <3>3. Controls(o, j + 1, n - 1) /\ o[n] = s[n]
        BY <1>2, <3>1, <3>2 DEF Agree
      <3> QED
        BY <3>1, <3>3
    <2> QED
      BY <1>1, <2>1, <2>2, <2>3 DEF IsNamed
  <1>4. \E i, q \in 1..j - 1 : PrivateTo(o, i, q, e - 1)
    <2>1. PICK i \in 1..j - 1, q \in 1..j - 1 : PrivateTo(s, i, q, e - 1)
      BY <1>1
    <2>2. i + 1 < q /\ q <= e - 1
      BY <2>1 DEF PrivateTo
    <2>3. i \in 1..N /\ i + 1 \in 1..N /\ q \in 1..N
      BY <1>1, <2>2
    <2>4. o[i] = s[i] /\ o[i + 1] = s[i + 1] /\ o[q] = s[q]
      BY <2>3 DEF Agree
    <2>5. i + 2 \in Nat /\ i + 2 >= 1 /\ q - 1 \in Int /\ q - 1 <= N
      BY <2>3
    <2>6. Controls(o, i + 2, q - 1)
      BY <1>2, <2>1, <2>5 DEF PrivateTo
    <2>7. \A k \in q + 1..e - 1 : k \in 1..N
      BY <2>3
    <2>8. \A k \in q + 1..e - 1 : o[k] \in DOMAIN NumberOf \cup {";", "BEL"}
      BY <2>1, <2>7 DEF PrivateTo, Agree
    <2>9. PrivateTo(o, i, q, e - 1)
      BY <2>1, <2>2, <2>4, <2>6, <2>8 DEF PrivateTo
    <2> QED
      BY <2>9
  <1> QED
    BY <1>1, <1>3, <1>4 DEF Named

\* The screen depends on nothing but the bytes there are.
LEMMA ScreenAgree ==
    ASSUME NEW s, NEW o, Len(s) \in Nat, Agree(s, o, Len(s))
    PROVE  ScreenAfter(s) = ScreenAt(o, Len(s))
  <1> DEFINE N == Len(s)
             A == {e \in 1..N : s[e] \in {"h", "l"} /\ Named(s, e) # {}}
             B == SwitchesTo(o, N)
  <1>1. Agree(o, s, N)
    BY DEF Agree
  <1>2. \A e \in 1..N : Named(s, e) = Named(o, e) /\ s[e] = o[e]
    <2> SUFFICES ASSUME NEW e \in 1..N PROVE Named(s, e) = Named(o, e) /\ s[e] = o[e]
      OBVIOUS
    <2>1. Named(s, e) \subseteq Named(o, e) /\ Named(o, e) \subseteq Named(s, e)
      BY <1>1, NamedAgree
    <2> QED
      BY <2>1 DEF Agree
  <1>3. A = B
    BY <1>2, Zenon DEF SwitchesTo
  <1>4. CASE A = {}
    BY <1>3, <1>4, Zenon DEF ScreenAfter, ScreenAt
  <1>5. CASE A # {}
    <2> DEFINE e == Greatest(A)
    <2>1. e \in A
      <3>1. A \subseteq 1..N
        BY Zenon
      <3> HIDE DEF A
      <3> QED BY <1>5, <3>1, GreatestIn
    <2>2. e \in 1..N /\ Named(s, e) # {} /\ Named(s, e) = Named(o, e) /\ s[e] = o[e]
      BY <1>2, <2>1, Zenon
    <2> DEFINE m == Greatest(Named(s, e))
    <2> HIDE DEF e
    <2>3. s[m] = o[m]
      <3>1. Named(s, e) \subseteq 1..e - 1
        BY DEF Named
      <3>2. Named(s, e) \subseteq 1..N
        BY <2>2, <3>1
      <3>3. m \in Named(s, e)
        BY <2>2, <3>2, GreatestIn
      <3> QED
        BY <3>2, <3>3 DEF Agree
    <2> HIDE DEF m
    <2>4. ScreenAfter(s) = IF s[e] = "l" THEN "off" ELSE AltMode[NumberOf[s[m]]]
      BY <1>5, Zenon DEF ScreenAfter, e, m
    <2>5. ScreenAt(o, N) = IF o[e] = "l" THEN "off" ELSE ModeOf(o, Named(o, e))
      BY <1>3, <1>5, Zenon DEF ScreenAt, e
    <2>6. ModeOf(o, Named(o, e)) = AltMode[NumberOf[o[m]]]
      BY <2>2, Zenon DEF ModeOf, m
    <2> QED
      BY <2>2, <2>3, <2>4, <2>5, <2>6
  <1> QED
    BY <1>4, <1>5

\* Induction over the numbers to N.
LEMMA UpTo ==
    ASSUME NEW N \in Nat, NEW S, 0 \in S, \A n \in 0..N : n < N /\ n \in S => n + 1 \in S
    PROVE  \A n \in 0..N : n \in S
  <1> DEFINE bad == {n \in 0..N : n \notin S}
  <1>1. SUFFICES ASSUME bad # {} PROVE FALSE
    OBVIOUS
  <1>2. bad \in SUBSET Nat
    OBVIOUS
  <1>3. PICK i \in bad : \A n \in bad : i <= n
    <2> HIDE DEF bad
    <2> QED BY <1>1, <1>2, LeastOf, Zenon
  <1>4. i # 0 /\ i - 1 \in 0..N /\ i - 1 \notin bad
    BY <1>3
  <1> QED
    BY <1>3, <1>4

\* push goes through its bytes one after the other.
LEMMA TrackedFollows ==
    ASSUME NEW t, NEW bytes, Len(bytes) \in Nat
    PROVE  \E f : /\ f[0] = t /\ \A n \in 1..Len(bytes) : f[n] = Track(f[n - 1], bytes[n])
                  /\ Tracked(t, bytes) = f[Len(bytes)]
  <1> DEFINE N == Len(bytes)
             Turn(u, n) == Track(u, bytes[n])
             Run(f, m) == f = [n \in 0..m |-> IF n = 0 THEN t ELSE Turn(f[n - 1], n)]
             S == {m \in 0..N : \E f : Run(f, m)}
  <1> HIDE DEF Turn
  <1>1. 0 \in S
    <2> DEFINE f == [n \in 0..0 |-> t]
    <2>1. Run(f, 0)
      OBVIOUS
    <2>2. 0 \in 0..N
      OBVIOUS
    <2> HIDE DEF N, Run, f
    <2> QED
      BY <2>1, <2>2
  <1>2. ASSUME NEW m \in 0..N, m < N, m \in S PROVE m + 1 \in S
    <2>1. PICK f : Run(f, m)
      BY <1>2
    <2> DEFINE g == [n \in 0..m + 1 |-> IF n <= m THEN f[n] ELSE Turn(f[m], n)]
    <2>2. \A n \in 0..m + 1 : g[n] = IF n = 0 THEN t ELSE Turn(g[n - 1], n)
      <3> SUFFICES ASSUME NEW n \in 0..m + 1 PROVE g[n] = IF n = 0 THEN t ELSE Turn(g[n - 1], n)
        OBVIOUS
      <3>1. CASE n = 0
        BY <2>1, <3>1
      <3>2. CASE n \in 1..m
        <4>1. g[n] = f[n] /\ g[n - 1] = f[n - 1]
          BY <3>2
        <4>2. f[n] = Turn(f[n - 1], n)
          BY <2>1, <3>2
        <4> QED
          BY <3>2, <4>1, <4>2
      <3>3. CASE n = m + 1
        <4>1. g[n] = Turn(f[m], n) /\ g[n - 1] = f[m]
          BY <3>3
        <4> QED
          BY <3>3, <4>1
      <3> QED
        BY <3>1, <3>2, <3>3
    <2>3. Run(g, m + 1)
      <3> HIDE DEF g
      <3>1. g = [n \in 0..m + 1 |-> g[n]]
        BY DEF g
      <3> QED
        BY <2>2, <3>1
    <2>4. m + 1 \in 0..N
      BY <1>2
    <2> HIDE DEF N, Run, g
    <2> QED
      BY <2>3, <2>4
  <1>3. N \in S
    <2>1. N \in Nat /\ N \in 0..N
      OBVIOUS
    <2> HIDE DEF S, N
    <2> QED
      BY <1>1, <1>2, <2>1, UpTo
  <1> DEFINE after == CHOOSE f : Run(f, N)
  <1>4. Run(after, N)
    <2> HIDE DEF N
    <2> QED BY <1>3, Zenon
  <1>5. Tracked(t, bytes) = after[N]
    BY Zenon DEF Tracked, Turn
  <1> HIDE DEF after
  <1>6. after[0] = t /\ \A n \in 1..N : after[n] = Turn(after[n - 1], n)
    BY <1>4
  <1> QED
    BY <1>5, <1>6 DEF Turn

\* The tracker that has gone through more bytes is where the output says.
LEMMA TrackedAt ==
    ASSUME NEW s, NEW n \in Nat, NEW t, TrackerAt(t, s, n), NEW bytes, Len(bytes) \in Nat,
           \A i \in 1..Len(bytes) : bytes[i] = s[n + i]
    PROVE  TrackerAt(Tracked(t, bytes), s, n + Len(bytes))
  <1> DEFINE L == Len(bytes)
  <1>1. PICK f : /\ f[0] = t /\ \A i \in 1..L : f[i] = Track(f[i - 1], bytes[i])
                 /\ Tracked(t, bytes) = f[L]
    BY TrackedFollows
  <1> DEFINE S == {i \in 0..L : TrackerAt(f[i], s, n + i)}
  <1>2. 0 \in S
    <2>1. n + 0 = n /\ 0 \in 0..L
      OBVIOUS
    <2> QED
      BY <1>1, <2>1
  <1>3. ASSUME NEW i \in 0..L, i < L, i \in S PROVE i + 1 \in S
    <2>1. TrackerAt(f[i], s, n + i) /\ n + i \in Nat
      BY <1>3
    <2>2. i + 1 \in 1..L /\ i + 1 \in 0..L /\ (i + 1) - 1 = i /\ n + (i + 1) = (n + i) + 1
      BY <1>3
    <2>3. f[i + 1] = Track(f[i], bytes[i + 1]) /\ bytes[i + 1] = s[(n + i) + 1]
      BY <1>1, <2>2
    <2>4. TrackerAt(Track(f[i], s[(n + i) + 1]), s, (n + i) + 1)
      BY <2>1, TrackStep
    <2> QED
      BY <2>2, <2>3, <2>4
  <1>4. L \in S
    <2>1. L \in 0..L
      OBVIOUS
    <2> HIDE DEF S, L
    <2> QED
      BY <1>2, <1>3, <2>1, UpTo DEF L
  <1> QED
    BY <1>1, <1>4

\* What was read is at the terminal or on its way, the tracker is where it says,
\* and the screen on record, which the cleanup takes, is the tracker's.
Recorded(bytes) ==
    /\ output \in Seq(bytes) /\ got \in 0..Len(output)
    /\ screen \in Seq(bytes) /\ pending \in Seq(bytes)
    /\ screen \o pending = SubSeq(output, 1, got)
    /\ TrackerAt(Tracker, output, got) /\ remoteAlt = alt
    /\ cleaned # "no" => cleaned = remoteAlt

\* The screen on record is the one the terminal will show.
LEMMA RecordedKnown ==
    ASSUME NEW bytes, Recorded(bytes)
    PROVE  AltKnown
  <1>1. output \in Seq(bytes) /\ got \in 0..Len(output) /\ Len(output) \in Nat /\ got \in Nat
        /\ screen \in Seq(bytes) /\ screen \o pending = SubSeq(output, 1, got)
    BY DEF Recorded
  <1> DEFINE s == SubSeq(output, 1, got)
  <1>2. Len(s) = got /\ \A j \in 1..got : s[j] = output[j]
    BY <1>1
  <1>3. Agree(s, output, Len(s)) /\ Len(s) \in Nat
    <2> HIDE DEF s
    <2> QED BY <1>1, <1>2 DEF Agree
  <1>4. ScreenAfter(s) = ScreenAt(output, got)
    <2> HIDE DEF s
    <2> QED BY <1>2, <1>3, ScreenAgree
  <1>5. remoteAlt = ScreenAt(output, got)
    BY DEF Recorded, TrackerAt, Tracker
  <1>6. ScreenAfter(screen \o pending) = remoteAlt
    BY <1>1, <1>4, <1>5
  <1>7. pending = <<>> => screen \o pending = screen
    BY <1>1, ConcatEmptySeq
  <1> QED
    BY <1>6, <1>7 DEF AltKnown, Recorded

\* A step of the copy keeps the record.
LEMMA RecordedStep ==
    ASSUME NEW bytes, Recorded(bytes), [AltNext]_altVars
    PROVE  Recorded(bytes)'
  <1>1. /\ output \in Seq(bytes) /\ got \in 0..Len(output) /\ Len(output) \in Nat /\ got \in Nat
        /\ screen \in Seq(bytes) /\ pending \in Seq(bytes) /\ screen \o pending = SubSeq(output, 1, got)
        /\ TrackerAt(Tracker, output, got) /\ remoteAlt = alt /\ (cleaned # "no" => cleaned = remoteAlt)
    BY DEF Recorded
  <1>2. CASE UNCHANGED altVars
    BY <1>1, <1>2 DEF altVars, Recorded, Tracker
  <1>3. ASSUME NEW n \in DOMAIN output, ReadAndTrack(n) PROVE Recorded(bytes)'
    <2> DEFINE new == SubSeq(output, got + 1, n)
               t == Tracked(Tracker, new)
    <2>1. /\ cleaned = "no" /\ pending = <<>> /\ n \in got + 1..Len(output)
          /\ got' = n /\ pending' = new /\ UNCHANGED <<output, screen, cleaned>>
      BY <1>3 DEF ReadAndTrack
    <2>2. /\ state' = t.state /\ param' = t.param /\ seqMode' = t.mode /\ alt' = t.alt
          /\ remoteAlt' = IF t.alt # alt THEN t.alt ELSE remoteAlt
      BY <1>3, <2>1 DEF ReadAndTrack
    <2>3. new \in Seq(bytes) /\ Len(new) = n - got /\ \A i \in 1..n - got : new[i] = output[got + i]
      <3>1. n \in got..Len(output)
        BY <1>1, <2>1
      <3> HIDE DEF t
      <3> QED
        BY <1>1, <3>1, Part
    <2>4. got + (n - got) = n /\ n \in 0..Len(output) /\ n - got \in Nat
      <3> HIDE DEF new, t
      <3>1. n \in got + 1..Len(output) /\ got \in Nat /\ Len(output) \in Nat
        BY <1>1, <2>1
      <3> QED
        BY <3>1
    <2> HIDE DEF new
    <2>5. TrackerAt(t, output, n)
      BY <1>1, <2>3, <2>4, TrackedAt
    <2> HIDE DEF t
    <2>6. Tracker' = t
      <3>1. t \in Trackers
        BY <2>5 DEF TrackerAt
      <3>2. t = [state |-> t.state, param |-> t.param, mode |-> t.mode, alt |-> t.alt]
        BY <3>1 DEF Trackers
      <3> QED
        BY <2>2, <3>2 DEF Tracker
    <2>7. remoteAlt' = alt'
      BY <1>1, <2>2
    <2>8. screen \o new = SubSeq(output, 1, n)
      <3>1. screen \o pending = screen
        BY <1>1, <2>1, ConcatEmptySeq
      <3>2. n \in got..Len(output)
        BY <1>1, <2>1
      <3>3. SubSeq(output, 1, got) \o new = SubSeq(output, 1, n)
        BY <1>1, <3>2, Adjacent, Zenon DEF new
      <3> QED
        BY <1>1, <3>1, <3>3
    <2> QED
      BY <1>1, <2>1, <2>3, <2>4, <2>5, <2>6, <2>7, <2>8 DEF Recorded
  <1>4. ASSUME NEW k \in DOMAIN pending, Write(k) PROVE Recorded(bytes)'
    <2> DEFINE a == SubSeq(pending, 1, k)
               b == SubSeq(pending, k + 1, Len(pending))
    <2>1. /\ k \in 0..Len(pending) /\ screen' = screen \o a /\ pending' = b
          /\ UNCHANGED <<output, got, state, param, seqMode, alt, remoteAlt, cleaned>>
      BY <1>1, <1>4 DEF Write
    <2>2. a \in Seq(bytes) /\ b \in Seq(bytes) /\ a \o b = pending
      BY <1>1, <2>1, CutAndJoined
    <2> HIDE DEF a, b
    <2>3. screen \o a \in Seq(bytes)
      BY <1>1, <2>2, ConcatProperties
    <2>4. (screen \o a) \o b = screen \o (a \o b)
      <3>1. screen \in Seq(bytes) /\ a \in Seq(bytes) /\ b \in Seq(bytes)
        BY <1>1, <2>2
      <3> QED
        BY <3>1, ConcatAssociative
    <2>5. Tracker' = Tracker
      BY <2>1 DEF Tracker
    <2> QED
      BY <1>1, <2>1, <2>2, <2>3, <2>4, <2>5 DEF Recorded
  <1>5. CASE CleanupTerminalFeatures
    BY <1>1, <1>5 DEF CleanupTerminalFeatures, Recorded, Tracker
  <1> QED
    BY <1>2, <1>3, <1>4, <1>5 DEF AltNext

\* Whatever the remote side prints and however the reads cut it, the screen on
\* record is the one the terminal shows, and the cleanup leaves it.
THEOREM ScreenSafe ==
    ASSUME NEW CONSTANT bytes, NEW CONSTANT outputs, outputs \subseteq Seq(bytes)
    PROVE  AltSpec(outputs) => []AltKnown
  <1>1. AltInit(outputs) => Recorded(bytes)
    <2> SUFFICES ASSUME AltInit(outputs) PROVE Recorded(bytes)
      OBVIOUS
    <2>1. /\ output \in Seq(bytes) /\ Len(output) \in Nat /\ got = 0 /\ screen = <<>> /\ pending = <<>>
          /\ <<>> \in Seq(bytes) /\ remoteAlt = alt /\ cleaned = "no"
      BY DEF AltInit
    <2>2. Tracker = [state |-> "ground", param |-> 0, mode |-> "none", alt |-> "off"]
      BY DEF AltInit, Tracker
    <2>3. screen \o pending = SubSeq(output, 1, 0)
      BY <2>1, SubSeqEmpty, ConcatEmptySeq
    <2>4. \A i \in 1..0 : FALSE
      OBVIOUS
    <2>5. ~InEscape(output, 0) /\ ~InEntry(output, 0) /\ ~InPrivate(output, 0)
      BY <2>4 DEF InEscape, InEntry, InPrivate
    <2>6. SwitchesTo(output, 0) = {}
      BY <2>4 DEF SwitchesTo
    <2>7. ScreenAt(output, 0) = "off"
      BY <2>6 DEF ScreenAt
    <2>8. Tracker \in Trackers
      BY <2>2 DEF Trackers
    <2>9. TrackerAt(Tracker, output, 0)
      BY <2>2, <2>5, <2>7, <2>8 DEF TrackerAt
    <2> QED
      BY <2>1, <2>3, <2>9 DEF Recorded
  <1>2. Recorded(bytes) /\ [AltNext]_altVars => Recorded(bytes)'
    BY RecordedStep
  <1>3. Recorded(bytes) => AltKnown
    BY RecordedKnown
  <1> QED
    BY <1>1, <1>2, <1>3, PTL DEF AltSpec

=============================================================================
