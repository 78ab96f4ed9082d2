------------------------------ MODULE FileCopy ------------------------------
(***************************************************************************)
(* One run of hcp (hush/src/cp.rs) and the servers it talks to             *)
(* (hush-core/src/filecopy.rs): an upload, a download, or a relay from one *)
(* server to another through the client.  The archive passes a chain of    *)
(* nodes:                                                                  *)
(*                                                                         *)
(*     source -> [srcServer] -> [relay] -> [dstServer] -> dest             *)
(*                                                                         *)
(* `source` archives the files and `dest` extracts them.  A server that    *)
(* switches users runs them in a worker process and copies between the     *)
(* worker's pipe and the QUIC stream (srcServer, dstServer).  `relay` is   *)
(* the client between two servers.                                         *)
(*                                                                         *)
(* The archive is a sequence of units, two for each entry (header and      *)
(* contents) and two for its end (blocks of zeros, of which the reader     *)
(* needs the first).  has[x] counts those that node x wrote to its output. *)
(* A SendStream that is dropped finishes its stream; a RecvStream that is  *)
(* dropped stops it.                                                       *)
(***************************************************************************)
EXTENDS Naturals

CONSTANTS Kinds,        \* of "upload", "download" and "relay"
          Entries,      \* entries of the archive
          MaxLosses     \* bound on the connections the network breaks

ASSUME FileCopyAssumption ==
    /\ Kinds \subseteq {"upload", "download", "relay"}
    /\ Entries \in Nat \ {0} /\ MaxLosses \in Nat

Units == 2 * Entries + 2
AllFiles == 2 * Entries
Nodes == {"source", "srcServer", "relay", "dstServer", "dest"}

VARIABLES
    kind,
    zstd,       \* FileCopyCompression; FALSE with hcp -C
    srcWorker, dstWorker,  \* needs_privileged_worker, at either server
    step,       \* of the client: "planDest", "planSource", "copy" or "ended"
    st,         \* node -> what it is doing
    pos,        \* units the source appended; the rest up to has is buffered
    has,        \* node -> units it wrote (dest: extracted)
    end,        \* node -> how it ended its output: "open", "fin" or "reset"
    cut,        \* node -> the reader of its output is gone
    lost,       \* connections that are lost, of "S" (source) and "D" (destination)
    losses,     \* connections the network broke so far
    verdict,    \* what dest's extraction returned
    answer,     \* StreamResponse of the destination server
    outcome     \* what hcp reports

vars == <<kind, zstd, srcWorker, dstWorker, step, st, pos, has, end, cut, lost, losses, verdict,
          answer, outcome>>
shape == <<kind, zstd, srcWorker, dstWorker>>

\* The node whose output x reads.
Up(x) ==
    CASE x = "srcServer" -> "source"
      [] x = "relay" -> IF srcWorker THEN "srcServer" ELSE "source"
      [] x = "dstServer" -> IF kind = "relay" THEN "relay" ELSE "source"
      [] x = "dest" /\ dstWorker -> "dstServer"
      [] x = "dest" /\ ~dstWorker /\ kind = "relay" -> "relay"
      [] OTHER -> IF srcWorker THEN "srcServer" ELSE "source"

\* The connection x writes to, or its worker's pipe.
OutConn(x) ==
    CASE x = "relay" \/ (x = "source" /\ kind = "upload") -> "D"
      [] x = "srcServer" \/ (x = "source" /\ kind # "upload" /\ ~srcWorker) -> "S"
      [] OTHER -> "pipe"

Broken(x) == OutConn(x) \in lost
CanWrite(x) == ~Broken(x) /\ ~cut[x]
Gone(x) == st[x] \in {"done", "failed", "killed"}

Init ==
    /\ kind \in Kinds /\ zstd \in BOOLEAN
    /\ srcWorker \in (IF kind = "upload" THEN {FALSE} ELSE BOOLEAN)
    /\ dstWorker \in (IF kind = "download" THEN {FALSE} ELSE BOOLEAN)
    /\ step = IF kind = "download" THEN "planSource" ELSE "planDest"
    /\ st = [x \in Nodes |-> "idle"]
    /\ pos = 0
    /\ has = [x \in Nodes |-> 0]
    /\ end = [x \in Nodes |-> "open"]
    /\ cut = [x \in Nodes |-> FALSE]
    /\ lost = {} /\ losses = 0
    /\ verdict = "none" /\ answer = "none" /\ outcome = "none"

Set(f, x, v) == [f EXCEPT ![x] = v]

\* hcp returns.
Report(result) == step' = "ended" /\ outcome' = result

-----------------------------------------------------------------------------
(* Planning.                                                              *)

\* The server's answer to an upload request, which the client checks with
\* validate_upload_plan (a server's plan is valid): the destination is ready to extract, or there is an
\* Error frame (entry limit, no such destination, no worker).
PlanDest ==
    /\ step = "planDest" /\ "D" \notin lost
    /\ \/ /\ st' = [x \in Nodes |->
                     IF x = "dest" \/ (x = "dstServer" /\ dstWorker)
                          \/ (x = "source" /\ kind = "upload") THEN "running" ELSE st[x]]
          /\ step' = IF kind = "upload" THEN "copy" ELSE "planSource"
          /\ UNCHANGED <<answer, outcome>>
       \/ answer' = "error" /\ Report("failed") /\ UNCHANGED st
    /\ UNCHANGED <<shape, pos, has, end, cut, lost, losses, verdict>>

\* The relay gives up on a destination that waits for an archive.
\* Mutant: its stream is dropped, which finishes it.
RelayAbortsByDrop == "fin"
RelayAborts == "reset"

\* The answer to a download request: the sources exist, or an Error frame.
PlanSource ==
    /\ step = "planSource"
    /\ \/ /\ "S" \notin lost
          /\ st' = [x \in Nodes |->
                     IF x = "source" \/ (x = "srcServer" /\ srcWorker)
                          \/ (x = "relay" /\ kind = "relay")
                          \/ (x = "dest" /\ kind = "download") THEN "running" ELSE st[x]]
          /\ step' = "copy"
          /\ UNCHANGED <<end, outcome>>
       \/ /\ Report("failed")
          /\ end' = IF kind = "relay" THEN Set(end, "relay", RelayAborts) ELSE end
          /\ UNCHANGED st
    /\ UNCHANGED <<shape, pos, has, cut, lost, losses, verdict, answer>>

\* Connecting, or the first answer, failed.
PlanFails ==
    /\ step = "planDest" /\ "D" \in lost
    /\ Report("failed")
    /\ UNCHANGED <<shape, st, pos, has, end, cut, lost, losses, verdict, answer>>

-----------------------------------------------------------------------------
(* send_archive_to_with_progress, in the client, the server or a worker.  *)

\* append_path_limited and Builder::into_inner write into a BufWriter.
AppendEntry ==
    /\ st["source"] = "running" /\ pos < Units
    /\ pos' = pos + 1
    /\ UNCHANGED <<shape, step, st, has, end, cut, lost, losses, verdict, answer, outcome>>

\* The buffer is full, or shutdown flushes it.
Flush ==
    /\ st["source"] = "running" /\ has["source"] < pos /\ CanWrite("source")
    /\ has' = Set(has, "source", has["source"] + 1)
    /\ UNCHANGED <<shape, step, st, pos, end, cut, lost, losses, verdict, answer, outcome>>

\* An upload whose archive failed has failed, whatever the server made of it.
UploadFails == Report("failed")

\* A file cannot be read, a limit is exceeded, a write fails.  What is still
\* buffered is lost; the stream (or the worker's pipe) is dropped.
SourceFails ==
    /\ st["source"] = "running"
    /\ st' = Set(st, "source", "failed")
    /\ end' = Set(end, "source", "fin")
    /\ IF kind = "upload" THEN UploadFails ELSE UNCHANGED <<step, outcome>>
    /\ UNCHANGED <<shape, pos, has, cut, lost, losses, verdict, answer>>

\* writer.shutdown() finished the stream.
SourceDone ==
    /\ st["source"] = "running" /\ has["source"] = Units
    /\ st' = Set(st, "source", "done")
    /\ end' = Set(end, "source", "fin")
    /\ UNCHANGED <<shape, step, pos, has, cut, lost, losses, verdict, answer, outcome>>

-----------------------------------------------------------------------------
(* The nodes in between.                                                  *)

Reads(x) == st[x] = "running" /\ ~Broken(Up(x))
AtFin(x) == Reads(x) /\ has[x] = has[Up(x)] /\ end[Up(x)] = "fin"
ReadFails(x) == st[x] = "running" /\ (Broken(Up(x)) \/ end[Up(x)] = "reset")
WriteFails(x) == Reads(x) /\ has[x] < has[Up(x)] /\ ~CanWrite(x)

\* A unit passes a node that copies.
Move(x) ==
    /\ Reads(x) /\ has[x] < has[Up(x)] /\ CanWrite(x)
    /\ has' = Set(has, x, has[x] + 1)
    /\ UNCHANGED <<shape, step, st, pos, end, cut, lost, losses, verdict, answer, outcome>>

\* A Worker is dropped: kill_on_drop.  Mutant: it is left running.
WorkerLeft(w) == st[w]
WorkerDropped(w) == IF st[w] = "running" THEN "killed" ELSE st[w]

\* handle_download_worker: at the end of the pipe the stream is finished if the
\* worker succeeded.  If it did not, the stream is dropped.
SrcServerEof ==
    /\ AtFin("srcServer")
    /\ st' = Set(st, "srcServer", IF st["source"] = "done" THEN "done" ELSE "failed")
    /\ end' = Set(end, "srcServer", "fin")
    /\ UNCHANGED <<shape, step, pos, has, cut, lost, losses, verdict, answer, outcome>>

SrcServerFails ==
    /\ WriteFails("srcServer")
    /\ st' = [st EXCEPT !["srcServer"] = "failed", !["source"] = WorkerDropped("source")]
    /\ end' = [end EXCEPT !["srcServer"] = "reset", !["source"] = "fin"]
    /\ cut' = Set(cut, "source", TRUE)
    /\ UNCHANGED <<shape, step, pos, has, lost, losses, verdict, answer, outcome>>

\* relay_archive, at the end of the source's stream.  Mutant: it waits for the
\* answer without finishing the destination's.
RelayEofUnfinished ==
    /\ AtFin("relay")
    /\ st' = Set(st, "relay", "await")
    /\ UNCHANGED <<shape, step, pos, has, end, cut, lost, losses, verdict, answer, outcome>>
RelayEof ==
    /\ AtFin("relay")
    /\ st' = Set(st, "relay", "await")
    /\ end' = Set(end, "relay", "fin")
    /\ UNCHANGED <<shape, step, pos, has, cut, lost, losses, verdict, answer, outcome>>

\* The source's stream fails, or the byte limit is reached.
RelayFails ==
    /\ ReadFails("relay") \/ (Reads("relay") /\ has["relay"] < has[Up("relay")])
    /\ st' = Set(st, "relay", "failed")
    /\ end' = Set(end, "relay", RelayAborts)
    /\ cut' = Set(cut, Up("relay"), TRUE)
    /\ Report("failed")
    /\ UNCHANGED <<shape, pos, has, lost, losses, verdict, answer>>

\* The destination stopped reading: its answer says why.
RelayStopped ==
    /\ WriteFails("relay")
    /\ st' = Set(st, "relay", "stopped")
    /\ cut' = Set(cut, Up("relay"), TRUE)
    /\ UNCHANGED <<shape, step, pos, has, end, lost, losses, verdict, answer, outcome>>

\* handle_upload_worker: the stream is over.  The shutdown of a ChildStdin does
\* not close the pipe, which stays open until the Worker is dropped.
DstServerEof ==
    /\ AtFin("dstServer")
    /\ st' = Set(st, "dstServer", "await")
    /\ UNCHANGED <<shape, step, pos, has, end, cut, lost, losses, verdict, answer, outcome>>

\* Reading the stream or writing to the worker failed: the worker is killed.
DstServerFails ==
    /\ ReadFails("dstServer") \/ WriteFails("dstServer")
    /\ st' = [st EXCEPT !["dstServer"] = "failed", !["dest"] = WorkerDropped("dest")]
    /\ end' = Set(end, "dstServer", "fin")
    /\ cut' = Set(cut, Up("dstServer"), TRUE)
    /\ answer' = "error"
    /\ UNCHANGED <<shape, step, pos, has, lost, losses, verdict, outcome>>

\* The worker's Complete or Error frame becomes the answer.
DstServerFrame ==
    /\ st["dstServer"] = "await" /\ verdict # "none"
    /\ st' = Set(st, "dstServer", "done")
    /\ end' = Set(end, "dstServer", "fin")
    /\ answer' = verdict
    /\ UNCHANGED <<shape, step, pos, has, cut, lost, losses, verdict, outcome>>

-----------------------------------------------------------------------------
(* receive_archive_from_with_progress.                                    *)

\* What follows an extraction: a server answers the client, a worker sends a
\* frame, and the client of a download is done.
Extracted(result) ==
    /\ verdict' = result
    /\ st' = Set(st, "dest", IF result = "ok" THEN "done" ELSE "failed")
    /\ cut' = Set(cut, Up("dest"), TRUE)
    /\ answer' = IF kind # "download" /\ ~dstWorker THEN result ELSE answer
    /\ IF kind = "download" THEN Report(IF result = "ok" THEN "done" ELSE "failed")
                            ELSE UNCHANGED <<step, outcome>>
    /\ UNCHANGED <<shape, pos, has, end, lost, losses>>

Extract ==
    /\ Reads("dest") /\ has["dest"] < has[Up("dest")] /\ has["dest"] <= AllFiles
    /\ has' = Set(has, "dest", has["dest"] + 1)
    /\ UNCHANGED <<shape, step, st, pos, end, cut, lost, losses, verdict, answer, outcome>>

\* A limit, an unsafe entry, a full disk.
ExtractFails ==
    /\ st["dest"] = "running"
    /\ Extracted("error")

\* A stream that is over where the reader of the archive accepts its end: between
\* two entries, unless it is compressed.  The decompressor refuses a frame that
\* is cut.
EndsCleanly == ~zstd /\ has["dest"] % 2 = 0

\* The reader sees the end of the archive, or of the stream.
ExtractEnds ==
    /\ \/ st["dest"] = "running" /\ has["dest"] > AllFiles
       \/ AtFin("dest") /\ EndsCleanly
    /\ Extracted("ok")

\* The stream ends too early, is reset, or its connection is lost.
ExtractCut ==
    /\ ReadFails("dest") \/ (AtFin("dest") /\ has["dest"] <= AllFiles /\ ~EndsCleanly)
    /\ Extracted("error")

-----------------------------------------------------------------------------
(* The end of hcp, and the network.                                       *)

\* expect_ok, after the archive was sent, or as the reason of a failed write.
Answered ==
    /\ step = "copy"
    /\ (kind = "upload" /\ Gone("source")) \/ st["relay"] \in {"await", "stopped"}
    /\ answer # "none" \/ "D" \in lost
    /\ Report(IF "D" \notin lost /\ answer = "ok" /\ st["relay"] # "stopped"
                THEN "done" ELSE "failed")
    /\ st' = IF kind = "relay" THEN Set(st, "relay", IF st["relay"] = "await" THEN "done" ELSE "failed")
                               ELSE st
    /\ UNCHANGED <<shape, pos, has, end, cut, lost, losses, verdict, answer>>

\* hcp exits and its connections close.
Close ==
    /\ step = "ended" /\ lost # {"S", "D"}
    /\ lost' = {"S", "D"}
    /\ UNCHANGED <<shape, step, st, pos, has, end, cut, losses, verdict, answer, outcome>>

ConnLost(c) ==
    /\ losses < MaxLosses /\ c \notin lost
    /\ lost' = lost \cup {c} /\ losses' = losses + 1
    /\ UNCHANGED <<shape, step, st, pos, has, end, cut, verdict, answer, outcome>>

\* A write that cannot succeed fails.
SourceWriteFails == has["source"] < pos /\ ~CanWrite("source") /\ SourceFails

Copy ==
    \/ PlanDest \/ PlanSource \/ PlanFails \/ AppendEntry \/ Flush \/ SourceDone \/ SourceWriteFails
    \/ \E x \in {"srcServer", "relay", "dstServer"} : Move(x)
    \/ SrcServerEof \/ SrcServerFails \/ RelayEof \/ RelayStopped \/ DstServerEof
    \/ DstServerFails \/ DstServerFrame \/ Extract \/ ExtractEnds \/ ExtractCut
    \/ Answered \/ Close
    \/ (ReadFails("relay") /\ RelayFails)

Next == Copy \/ SourceFails \/ RelayFails \/ ExtractFails \/ \E c \in {"S", "D"} : ConnLost(c)

\* Every node keeps copying.  No step of Copy can be taken for ever, and none
\* is disabled by another node's before the copy is over, so one condition does.
Fairness == WF_vars(Copy)

Spec == Init /\ [][Next]_vars
FairSpec == Spec /\ Fairness

-----------------------------------------------------------------------------
(* Properties.                                                            *)

\* An upload that hcp reports as done has put every file in place, through
\* every failure of either side, the worker and the connection.
UploadComplete ==
    (kind = "upload" /\ outcome = "done") => has["dest"] >= AllFiles /\ verdict = "ok"

\* The archiving side gave up in the middle.
GaveUp == st["source"] = "failed"

\* A destination takes an archive for complete only if it is, or if the side
\* that archived it gave up: lost connections, byte limits and refusals of the
\* source reset the destination's stream.
TruncatedOnlyByGivingUp == verdict = "ok" => has["dest"] >= AllFiles \/ GaveUp

\* Neither hcp nor a destination takes a part of an archive for the whole, but
\* for a source that gives up on its way to a destination.
DoneIsComplete == UploadComplete /\ TruncatedOnlyByGivingUp

\* relay_archive: "Reset rather than finish so the destination does not take a
\* truncated archive for a complete one."
RelayNeverTruncates == (kind = "relay" /\ verdict = "ok") => has["dest"] >= AllFiles

\* A server that is through with a copy has no worker running for it.
NoWorkerLeft ==
    /\ (srcWorker /\ Gone("srcServer")) => Gone("source")
    /\ (dstWorker /\ Gone("dstServer")) => Gone("dest")

\* The destination's worker waits for the rest of an archive that has ended
\* without its end marker, on a pipe that its server holds open while it waits
\* for the worker's frame.
WorkerStarves ==
    /\ dstWorker /\ st["dstServer"] = "await" /\ st["dest"] = "running"
    /\ has["dest"] = has["dstServer"] /\ has["dest"] <= AllFiles

\* hcp ends, and so do the handlers of both servers and their workers, or the
\* destination's worker starves.
EveryoneEnds ==
    <>[](\/ step = "ended" /\ \A x \in Nodes : st[x] \in {"idle", "done", "failed", "killed"}
         \/ WorkerStarves)

=============================================================================
