--------------------------- MODULE FileCopyProofs ---------------------------
(***************************************************************************)
(* hcp for archives of any number of entries and any number of lost        *)
(* connections, and, in the second half, where it puts what it copies, for *)
(* any operands and trees.                                                 *)
(***************************************************************************)
EXTENDS FileCopy, CopyPlan, FiniteSetTheorems, SequenceTheorems, TLAPS

States == {"idle", "running", "await", "stopped", "done", "failed", "killed"}
Over == {"done", "failed", "killed"}

\* The variables of a copy keep their shape.
TypeOK ==
    /\ kind \in {"upload", "download", "relay"}
    /\ zstd \in BOOLEAN /\ srcWorker \in BOOLEAN /\ dstWorker \in BOOLEAN
    /\ step \in {"planDest", "planSource", "copy", "ended"}
    /\ st \in [Nodes -> States]
    /\ pos \in Nat /\ has \in [Nodes -> Nat]
    /\ end \in [Nodes -> {"open", "fin", "reset"}] /\ cut \in [Nodes -> BOOLEAN]
    /\ lost \subseteq {"S", "D"} /\ losses \in Nat
    /\ verdict \in {"none", "ok", "error"} /\ answer \in {"none", "ok", "error"}
    /\ outcome \in {"none", "done", "failed"}

\* Nodes that a copy does not have never run.
Absent ==
    /\ kind = "upload" => ~srcWorker
    /\ kind = "download" => ~dstWorker
    /\ ~srcWorker => st["srcServer"] = "idle"
    /\ ~dstWorker => st["dstServer"] = "idle" /\ end["dstServer"] = "open"
    /\ kind # "relay" => st["relay"] = "idle"

\* The client plans before it copies, and a server starts its worker with it.
Stages ==
    /\ step = "planDest" =>
        kind # "download" /\ verdict = "none" /\ end["dstServer"] = "open" /\ \A x \in Nodes : st[x] = "idle"
    /\ step = "planSource" =>
        /\ kind # "upload" /\ \A x \in {"source", "srcServer", "relay"} : st[x] = "idle"
        /\ kind = "download" => st["dest"] = "idle" /\ verdict = "none"
    /\ \A x \in {"source", "dest"} : st[x] \in {"idle", "running"} \cup Over
    /\ st["srcServer"] # "idle" => st["source"] # "idle"
    /\ st["dstServer"] # "idle" => st["dest"] # "idle"

\* How a node ended its output says how much of the archive passed it.
Fins ==
    /\ end["source"] = "fin" =>
        /\ Gone("source")
        /\ has["source"] >= Units \/ GaveUp \/ (srcWorker /\ Gone("srcServer"))
    /\ \A x \in {"srcServer", "relay"} : end[x] = "fin" => has[x] >= Units \/ GaveUp
    /\ end["dstServer"] = "fin" => st["dest"] # "running"

\* What was extracted, what the destination answered and what hcp reports.
Answers ==
    /\ verdict # "none" => st["dest"] \in {"done", "failed"}
    /\ answer = "ok" => verdict = "ok"
    /\ kind = "upload" /\ GaveUp => step = "ended"

IInv == TypeOK /\ Absent /\ Stages /\ Fins /\ Answers /\ NoWorkerLeft /\ DoneIsComplete

-----------------------------------------------------------------------------

\* Planning preserves the invariant.
LEMMA PlanSteps ==
    ASSUME IInv, PlanDest \/ PlanSource \/ PlanFails
    PROVE  IInv'
  <1>1. CASE PlanDest
    <2>1. TypeOK'
      BY <1>1 DEF PlanDest, Report, shape, IInv, TypeOK, States
    <2>2. Absent' /\ Stages'
      BY <1>1 DEF PlanDest, Report, shape, IInv, Absent, Stages, Nodes
    <2>3. Fins'
      BY <1>1 DEF PlanDest, IInv, Stages, Fins, Nodes, Gone, GaveUp
    <2>4. Answers' /\ NoWorkerLeft'
      BY <1>1 DEF PlanDest, IInv, Stages, Answers, NoWorkerLeft, Nodes, Gone, GaveUp
    <2>5. DoneIsComplete'
      BY <1>1
      DEF PlanDest, Report, shape, IInv, Stages, DoneIsComplete, UploadComplete,
          TruncatedOnlyByGivingUp
    <2> QED
      BY <2>1, <2>2, <2>3, <2>4, <2>5 DEF IInv
  <1>2. CASE PlanSource
    <2>1. TypeOK'
      BY <1>2 DEF PlanSource, Report, RelayAborts, shape, IInv, TypeOK, States, Set
    <2>2. Absent' /\ Stages'
      BY <1>2 DEF PlanSource, Report, shape, IInv, TypeOK, Absent, Stages, Nodes, Set
    <2>3. Fins'
      BY <1>2
      DEF PlanSource, RelayAborts, IInv, TypeOK, Absent, Stages, Fins, Nodes, Gone, GaveUp, Set
    <2>4. Answers' /\ NoWorkerLeft'
      BY <1>2 DEF PlanSource, IInv, Absent, Stages, Answers, NoWorkerLeft, Nodes, Gone, GaveUp
    <2>5. DoneIsComplete'
      BY <1>2
      DEF PlanSource, shape, IInv, Stages, DoneIsComplete, UploadComplete, TruncatedOnlyByGivingUp,
          GaveUp
    <2> QED
      BY <2>1, <2>2, <2>3, <2>4, <2>5 DEF IInv
  <1>3. CASE PlanFails
    <2>1. TypeOK'
      BY <1>3 DEF PlanFails, Report, shape, IInv, TypeOK
    <2>2. Absent' /\ Stages'
      BY <1>3 DEF PlanFails, Report, shape, IInv, Absent, Stages
    <2>3. Fins'
      BY <1>3 DEF PlanFails, IInv, Stages, Fins, Nodes, Gone, GaveUp
    <2>4. Answers' /\ NoWorkerLeft'
      BY <1>3 DEF PlanFails, IInv, Stages, Answers, NoWorkerLeft, Nodes, Gone, GaveUp
    <2>5. DoneIsComplete'
      BY <1>3
      DEF PlanFails, Report, IInv, DoneIsComplete, UploadComplete, TruncatedOnlyByGivingUp, GaveUp
    <2> QED
      BY <2>1, <2>2, <2>3, <2>4, <2>5 DEF IInv
  <1> QED
    BY <1>1, <1>2, <1>3

\* Archiving preserves it: where the source ends, it wrote all or it gave up.
LEMMA SourceSteps ==
    ASSUME IInv, AppendEntry \/ Flush \/ SourceFails \/ SourceDone
    PROVE  IInv'
  <1>1. CASE AppendEntry
    <2>1. TypeOK'
      BY <1>1 DEF AppendEntry, shape, IInv, TypeOK
    <2>2. Absent' /\ Stages'
      BY <1>1 DEF AppendEntry, shape, IInv, Absent, Stages
    <2>3. Fins'
      BY <1>1 DEF AppendEntry, IInv, Fins, Gone, GaveUp
    <2>4. Answers' /\ NoWorkerLeft'
      BY <1>1 DEF AppendEntry, IInv, Absent, Answers, NoWorkerLeft, Gone, GaveUp
    <2>5. DoneIsComplete'
      BY <1>1
      DEF AppendEntry, shape, IInv, DoneIsComplete, UploadComplete, TruncatedOnlyByGivingUp, GaveUp
    <2> QED
      BY <2>1, <2>2, <2>3, <2>4, <2>5 DEF IInv
  <1>2. CASE Flush
    <2>1. TypeOK'
      BY <1>2 DEF Flush, Set, shape, IInv, TypeOK, Nodes
    <2>2. Absent' /\ Stages'
      BY <1>2 DEF Flush, shape, IInv, Absent, Stages
    <2>3. Fins'
      BY <1>2 DEF Flush, Set, IInv, Fins, Gone, GaveUp
    <2>4. Answers' /\ NoWorkerLeft'
      BY <1>2 DEF Flush, IInv, Absent, Answers, NoWorkerLeft, Gone, GaveUp
    <2>5. DoneIsComplete'
      BY <1>2
      DEF Flush, Set, shape, IInv, DoneIsComplete, UploadComplete, TruncatedOnlyByGivingUp, GaveUp
    <2> QED
      BY <2>1, <2>2, <2>3, <2>4, <2>5 DEF IInv
  <1>3. CASE SourceFails
    <2>1. TypeOK'
      BY <1>3 DEF SourceFails, UploadFails, Report, Set, shape, IInv, TypeOK, Nodes, States
    <2>2. Absent' /\ Stages'
      BY <1>3 DEF SourceFails, UploadFails, Report, Set, shape, IInv, Absent, Stages, Over
    <2>3. Fins'
      BY <1>3 DEF SourceFails, Set, IInv, TypeOK, Fins, Gone, GaveUp
    <2>4. Answers' /\ NoWorkerLeft'
      BY <1>3 DEF SourceFails, UploadFails, Report, Set, shape, IInv, Answers, NoWorkerLeft, Gone
    <2>5. DoneIsComplete'
      BY <1>3
      DEF SourceFails, UploadFails, Report, shape, IInv, DoneIsComplete, UploadComplete,
          TruncatedOnlyByGivingUp, GaveUp
    <2> QED
      BY <2>1, <2>2, <2>3, <2>4, <2>5 DEF IInv
  <1>4. CASE SourceDone
    <2>1. TypeOK'
      BY <1>4 DEF SourceDone, Set, shape, IInv, TypeOK, Nodes, States
    <2>2. Absent' /\ Stages'
      BY <1>4 DEF SourceDone, Set, shape, IInv, Absent, Stages, Over
    <2>3. Fins'
      BY <1>4 DEF SourceDone, Set, IInv, TypeOK, Fins, Gone, GaveUp
    <2>4. Answers' /\ NoWorkerLeft'
      BY <1>4 DEF SourceDone, Set, IInv, Absent, Answers, NoWorkerLeft, Gone, GaveUp
    <2>5. DoneIsComplete'
      BY <1>4
      DEF SourceDone, shape, IInv, DoneIsComplete, UploadComplete, TruncatedOnlyByGivingUp, GaveUp
    <2> QED
      BY <2>1, <2>2, <2>3, <2>4, <2>5 DEF IInv
  <1> QED
    BY <1>1, <1>2, <1>3, <1>4

\* The servers between a worker and a stream preserve it: the stream is finished where the
\* worker's output ended, and a worker is dropped with its server.
LEMMA ServerSteps ==
    ASSUME IInv, SrcServerEof \/ SrcServerFails \/ DstServerEof \/ DstServerFails \/ DstServerFrame
    PROVE  IInv'
  <1>1. CASE SrcServerEof
    <2>1. TypeOK'
      BY <1>1 DEF SrcServerEof, Set, shape, IInv, TypeOK, Nodes, States
    <2>2. Absent' /\ Stages'
      BY <1>1 DEF SrcServerEof, Set, AtFin, Reads, shape, IInv, Absent, Stages
    <2>3. Fins'
      BY <1>1 DEF SrcServerEof, Set, AtFin, Reads, IInv, Fins, Gone, GaveUp, Up
    <2>4. Answers' /\ NoWorkerLeft'
      BY <1>1
      DEF SrcServerEof, Set, AtFin, shape, IInv, Answers, NoWorkerLeft, Gone, GaveUp, Up, Fins
    <2>5. DoneIsComplete'
      BY <1>1
      DEF SrcServerEof, Set, shape, IInv, DoneIsComplete, UploadComplete, TruncatedOnlyByGivingUp,
          GaveUp
    <2> QED
      BY <2>1, <2>2, <2>3, <2>4, <2>5 DEF IInv
  <1>2. CASE SrcServerFails
    <2>1. TypeOK'
      BY <1>2 DEF SrcServerFails, WorkerDropped, Set, shape, IInv, TypeOK, Nodes, States
    <2>2. Absent' /\ Stages'
      BY <1>2
      DEF SrcServerFails, WorkerDropped, WriteFails, Reads, shape, IInv, TypeOK, Absent, Stages,
          Nodes, Over
    <2>3. Fins'
      BY <1>2
      DEF SrcServerFails, WorkerDropped, WriteFails, Reads, shape, IInv, TypeOK, Absent, Stages,
          Fins, Nodes, Gone, GaveUp, Over
    <2>4. Answers' /\ NoWorkerLeft'
      BY <1>2
      DEF SrcServerFails, WorkerDropped, WriteFails, Reads, shape, IInv, TypeOK, Stages, Answers,
          NoWorkerLeft, Nodes, Gone, GaveUp, Over
    <2>5. DoneIsComplete'
      BY <1>2
      DEF SrcServerFails, WorkerDropped, shape, IInv, TypeOK, DoneIsComplete, UploadComplete,
          TruncatedOnlyByGivingUp, Nodes, GaveUp
    <2> QED
      BY <2>1, <2>2, <2>3, <2>4, <2>5 DEF IInv
  <1>3. CASE DstServerEof
    <2>1. TypeOK'
      BY <1>3 DEF DstServerEof, Set, shape, IInv, TypeOK, Nodes, States
    <2>2. Absent' /\ Stages'
      BY <1>3 DEF DstServerEof, Set, AtFin, Reads, shape, IInv, Absent, Stages
    <2>3. Fins'
      BY <1>3 DEF DstServerEof, Set, shape, IInv, Fins, Gone, GaveUp
    <2>4. Answers' /\ NoWorkerLeft'
      BY <1>3 DEF DstServerEof, Set, shape, IInv, Answers, NoWorkerLeft, Gone, GaveUp
    <2>5. DoneIsComplete'
      BY <1>3
      DEF DstServerEof, Set, shape, IInv, DoneIsComplete, UploadComplete, TruncatedOnlyByGivingUp,
          GaveUp
    <2> QED
      BY <2>1, <2>2, <2>3, <2>4, <2>5 DEF IInv
  <1>4. CASE DstServerFails
    <2>1. TypeOK'
      BY <1>4 DEF DstServerFails, WorkerDropped, Set, shape, IInv, TypeOK, States
    <2>2. Absent' /\ Stages'
      BY <1>4
      DEF DstServerFails, WorkerDropped, ReadFails, WriteFails, Reads, shape, IInv, TypeOK, Absent,
          Stages, Nodes, Over
    <2>3. Fins'
      BY <1>4 DEF DstServerFails, WorkerDropped, Set, shape, IInv, TypeOK, Fins, Nodes, Gone, GaveUp
    <2>4. Answers' /\ NoWorkerLeft'
      BY <1>4
      DEF DstServerFails, WorkerDropped, ReadFails, WriteFails, Reads, shape, IInv, TypeOK, Stages,
          Answers, NoWorkerLeft, Nodes, Gone, GaveUp, Over
    <2>5. DoneIsComplete'
      BY <1>4
      DEF DstServerFails, shape, IInv, TypeOK, DoneIsComplete, UploadComplete,
          TruncatedOnlyByGivingUp, Nodes, GaveUp
    <2> QED
      BY <2>1, <2>2, <2>3, <2>4, <2>5 DEF IInv
  <1>5. CASE DstServerFrame
    <2>1. TypeOK'
      BY <1>5 DEF DstServerFrame, Set, shape, IInv, TypeOK, States
    <2>2. Absent' /\ Stages'
      BY <1>5 DEF DstServerFrame, Set, shape, IInv, Absent, Stages
    <2>3. Fins'
      BY <1>5 DEF DstServerFrame, Set, shape, IInv, Fins, Gone, GaveUp, Answers
    <2>4. Answers' /\ NoWorkerLeft'
      BY <1>5 DEF DstServerFrame, Set, shape, IInv, Answers, NoWorkerLeft, Gone, GaveUp
    <2>5. DoneIsComplete'
      BY <1>5
      DEF DstServerFrame, Set, shape, IInv, DoneIsComplete, UploadComplete, TruncatedOnlyByGivingUp,
          GaveUp
    <2> QED
      BY <2>1, <2>2, <2>3, <2>4, <2>5 DEF IInv
  <1> QED
    BY <1>1, <1>2, <1>3, <1>4, <1>5

\* The relaying client preserves it.
LEMMA RelaySteps ==
    ASSUME IInv, RelayEof \/ RelayFails \/ RelayStopped
    PROVE  IInv'
  <1>1. CASE RelayEof
    <2>1. TypeOK'
      BY <1>1 DEF RelayEof, Set, shape, IInv, TypeOK, Nodes, States
    <2>2. Absent' /\ Stages'
      BY <1>1 DEF RelayEof, Set, AtFin, Reads, shape, IInv, Absent, Stages
    <2>3. Fins'
      BY <1>1 DEF RelayEof, Set, AtFin, shape, IInv, Fins, Gone, GaveUp, Up
    <2>4. Answers' /\ NoWorkerLeft'
      BY <1>1 DEF RelayEof, Set, shape, IInv, Answers, NoWorkerLeft, Gone, GaveUp
    <2>5. DoneIsComplete'
      BY <1>1
      DEF RelayEof, Set, shape, IInv, DoneIsComplete, UploadComplete, TruncatedOnlyByGivingUp,
          GaveUp
    <2> QED
      BY <2>1, <2>2, <2>3, <2>4, <2>5 DEF IInv
  <1>2. CASE RelayFails
    <2>1. TypeOK'
      BY <1>2 DEF RelayFails, RelayAborts, Report, Set, shape, IInv, TypeOK, States
    <2>2. Absent' /\ Stages'
      BY <1>2 DEF RelayFails, Report, Set, ReadFails, Reads, shape, IInv, Absent, Stages
    <2>3. Fins'
      BY <1>2 DEF RelayFails, RelayAborts, Set, shape, IInv, Fins, Gone, GaveUp
    <2>4. Answers' /\ NoWorkerLeft'
      BY <1>2
      DEF RelayFails, Set, ReadFails, Reads, shape, IInv, Absent, Answers, NoWorkerLeft, Gone
    <2>5. DoneIsComplete'
      BY <1>2
      DEF RelayFails, Report, Set, IInv, DoneIsComplete, UploadComplete, TruncatedOnlyByGivingUp,
          GaveUp
    <2> QED
      BY <2>1, <2>2, <2>3, <2>4, <2>5 DEF IInv
  <1>3. CASE RelayStopped
    <2>1. TypeOK'
      BY <1>3 DEF RelayStopped, Set, shape, IInv, TypeOK, Nodes, States
    <2>2. Absent' /\ Stages'
      BY <1>3 DEF RelayStopped, Set, WriteFails, Reads, shape, IInv, Absent, Stages
    <2>3. Fins'
      BY <1>3 DEF RelayStopped, Set, shape, IInv, Fins, Gone, GaveUp
    <2>4. Answers' /\ NoWorkerLeft'
      BY <1>3 DEF RelayStopped, Set, shape, IInv, Answers, NoWorkerLeft, Gone, GaveUp
    <2>5. DoneIsComplete'
      BY <1>3
      DEF RelayStopped, Set, shape, IInv, DoneIsComplete, UploadComplete, TruncatedOnlyByGivingUp,
          GaveUp
    <2> QED
      BY <2>1, <2>2, <2>3, <2>4, <2>5 DEF IInv
  <1> QED
    BY <1>1, <1>2, <1>3

\* Extracting preserves it: what is taken for the end of an archive is its end, unless the
\* source gave up.
LEMMA ExtractSteps ==
    ASSUME IInv, Extract \/ ExtractFails \/ ExtractEnds \/ ExtractCut
    PROVE  IInv'
  <1>1. CASE Extract
    <2>1. TypeOK'
      BY <1>1 DEF Extract, Set, shape, IInv, TypeOK, Nodes
    <2>2. Absent' /\ Stages'
      BY <1>1 DEF Extract, shape, IInv, Absent, Stages
    <2>3. Fins'
      BY <1>1 DEF Extract, Set, shape, IInv, Fins, Gone, GaveUp
    <2>4. Answers' /\ NoWorkerLeft'
      BY <1>1 DEF Extract, shape, IInv, Answers, NoWorkerLeft, Gone, GaveUp
    <2>5. DoneIsComplete'
      BY <1>1
      DEF Extract, Reads, shape, IInv, Answers, DoneIsComplete, UploadComplete,
          TruncatedOnlyByGivingUp
    <2> QED
      BY <2>1, <2>2, <2>3, <2>4, <2>5 DEF IInv
  <1>2. CASE ExtractFails
    <2>1. TypeOK'
      BY <1>2 DEF ExtractFails, Extracted, Report, Set, shape, IInv, TypeOK, States
    <2>2. Absent' /\ Stages'
      BY <1>2 DEF ExtractFails, Extracted, Report, Set, shape, IInv, Absent, Stages, Nodes, Over
    <2>3. Fins'
      BY <1>2 DEF ExtractFails, Extracted, Set, shape, IInv, Fins, Gone, GaveUp
    <2>4. Answers' /\ NoWorkerLeft'
      BY <1>2
      DEF ExtractFails, Extracted, Set, shape, IInv, TypeOK, Answers, NoWorkerLeft, Nodes, Gone,
          GaveUp
    <2>5. DoneIsComplete'
      BY <1>2
      DEF ExtractFails, Extracted, shape, IInv, Answers, DoneIsComplete, UploadComplete,
          TruncatedOnlyByGivingUp
    <2> QED
      BY <2>1, <2>2, <2>3, <2>4, <2>5 DEF IInv
  <1>3. CASE ExtractEnds
    <2>1. TypeOK'
      BY <1>3 DEF ExtractEnds, Extracted, Report, Set, shape, IInv, TypeOK, States
    <2>2. Absent' /\ Stages'
      BY <1>3
      DEF ExtractEnds, Extracted, Report, Set, AtFin, Reads, shape, IInv, Absent, Stages, Nodes,
          Over
    <2>3. Fins'
      BY <1>3 DEF ExtractEnds, Extracted, Set, shape, IInv, Fins, Gone, GaveUp
    <2>4. Answers' /\ NoWorkerLeft'
      BY <1>3
      DEF ExtractEnds, Extracted, Set, shape, IInv, TypeOK, Answers, NoWorkerLeft, Nodes, Gone,
          GaveUp
    <2>5. DoneIsComplete'
      BY <1>3, FileCopyAssumption
      DEF ExtractEnds, Extracted, Set, AtFin, Reads, shape, IInv, TypeOK, DoneIsComplete,
          UploadComplete, TruncatedOnlyByGivingUp, Nodes, GaveUp, Up, Fins, Units, AllFiles
    <2> QED
      BY <2>1, <2>2, <2>3, <2>4, <2>5 DEF IInv
  <1>4. CASE ExtractCut
    <2>1. TypeOK'
      BY <1>4 DEF ExtractCut, Extracted, Report, Set, shape, IInv, TypeOK, States
    <2>2. Absent' /\ Stages'
      BY <1>4
      DEF ExtractCut, Extracted, Report, Set, ReadFails, AtFin, Reads, shape, IInv, Absent, Stages,
          Nodes, Over
    <2>3. Fins'
      BY <1>4 DEF ExtractCut, Extracted, Set, shape, IInv, Fins, Gone, GaveUp
    <2>4. Answers' /\ NoWorkerLeft'
      BY <1>4
      DEF ExtractCut, Extracted, Set, ReadFails, AtFin, Reads, shape, IInv, TypeOK, Answers,
          NoWorkerLeft, Nodes, Gone, GaveUp
    <2>5. DoneIsComplete'
      BY <1>4
      DEF ExtractCut, Extracted, ReadFails, AtFin, Reads, shape, IInv, Answers, DoneIsComplete,
          UploadComplete, TruncatedOnlyByGivingUp
    <2> QED
      BY <2>1, <2>2, <2>3, <2>4, <2>5 DEF IInv
  <1> QED
    BY <1>1, <1>2, <1>3, <1>4

\* The end of hcp and the loss of connections preserve it.
LEMMA EndSteps ==
    ASSUME IInv, Answered \/ Close
    PROVE  IInv'
  <1>1. CASE Answered
    <2>1. TypeOK'
      BY <1>1 DEF Answered, Report, Set, shape, IInv, TypeOK, States
    <2>2. Absent' /\ Stages'
      BY <1>1 DEF Answered, Report, Set, shape, IInv, Absent, Stages
    <2>3. Fins'
      BY <1>1 DEF Answered, Set, shape, IInv, Fins, Gone, GaveUp
    <2>4. Answers' /\ NoWorkerLeft'
      BY <1>1 DEF Answered, Set, shape, IInv, Answers, NoWorkerLeft, Gone, GaveUp
    <2>5. DoneIsComplete'
      BY <1>1
      DEF Answered, Report, Set, shape, IInv, Answers, DoneIsComplete, UploadComplete,
          TruncatedOnlyByGivingUp, GaveUp
    <2> QED
      BY <2>1, <2>2, <2>3, <2>4, <2>5 DEF IInv
  <1>2. CASE Close
    <2>1. TypeOK'
      BY <1>2 DEF Close, shape, IInv, TypeOK
    <2>2. Absent' /\ Stages'
      BY <1>2 DEF Close, shape, IInv, Absent, Stages
    <2>3. Fins'
      BY <1>2 DEF Close, shape, IInv, Fins, Gone, GaveUp
    <2>4. Answers' /\ NoWorkerLeft'
      BY <1>2 DEF Close, IInv, Absent, Answers, NoWorkerLeft, Gone
    <2>5. DoneIsComplete'
      BY <1>2
      DEF Close, shape, IInv, DoneIsComplete, UploadComplete, TruncatedOnlyByGivingUp, GaveUp
    <2> QED
      BY <2>1, <2>2, <2>3, <2>4, <2>5 DEF IInv
  <1> QED
    BY <1>1, <1>2

\* A unit that moves on, a connection that is lost and a step that changes nothing
\* leave all but has and lost alone.
LEMMA MoveSteps ==
    ASSUME IInv, NEW x \in Nodes, has' = has \/ has' = [has EXCEPT ![x] = @ + 1],
           lost' \subseteq {"S", "D"}, losses' \in Nat,
           UNCHANGED <<shape, step, st, pos, end, cut, verdict, answer, outcome>>
    PROVE  IInv'
  <1>1. \A y \in Nodes : has[y] \in Nat /\ has'[y] \in Nat /\ has'[y] >= has[y]
    BY DEF IInv, TypeOK
  <1>2. TypeOK'
    BY DEF shape, IInv, TypeOK
  <1>3. Absent' /\ Stages' /\ NoWorkerLeft' /\ Answers'
    BY DEF shape, IInv, Absent, Stages, NoWorkerLeft, Answers, Gone, GaveUp
  <1>4. Fins'
    <2>1. Units \in Nat
      BY FileCopyAssumption DEF Units
    <2> QED
      BY <1>1, <2>1 DEF shape, IInv, Fins, Gone, GaveUp, Nodes
  <1>5. DoneIsComplete'
    <2>1. AllFiles \in Nat
      BY FileCopyAssumption DEF AllFiles
    <2> QED
      BY <1>1, <2>1 DEF shape, IInv, DoneIsComplete, UploadComplete, TruncatedOnlyByGivingUp, GaveUp, Nodes
  <1> QED
    BY <1>2, <1>3, <1>4, <1>5 DEF IInv

-----------------------------------------------------------------------------

\* The inductive invariant of a copy.
THEOREM Invariance == Spec => []IInv
  <1>1. Init => IInv
    <2> SUFFICES ASSUME Init PROVE IInv
      OBVIOUS
    <2>1. TypeOK
      BY FileCopyAssumption DEF Init, TypeOK, Nodes, States
    <2>2. /\ \A x \in Nodes : st[x] = "idle" /\ end[x] = "open"
          /\ step = (IF kind = "download" THEN "planSource" ELSE "planDest")
          /\ verdict = "none" /\ answer = "none" /\ outcome = "none"
      BY DEF Init
    <2>3. (kind = "upload" => ~srcWorker) /\ (kind = "download" => ~dstWorker)
      BY Zenon DEF Init
    <2>4. Absent
      BY <2>2, <2>3 DEF Absent, Nodes
    <2>5. Stages /\ Fins /\ Answers
      BY <2>1, <2>2 DEF TypeOK, Stages, Fins, Answers, GaveUp, Nodes
    <2>6. NoWorkerLeft /\ DoneIsComplete
      BY <2>2 DEF NoWorkerLeft, DoneIsComplete, UploadComplete, TruncatedOnlyByGivingUp, Gone, Nodes
    <2> QED
      BY <2>1, <2>4, <2>5, <2>6 DEF IInv
  <1>2. IInv /\ [Next]_vars => IInv'
    <2> SUFFICES ASSUME IInv, [Next]_vars PROVE IInv'
      OBVIOUS
    <2>1. CASE UNCHANGED vars
      BY <2>1, MoveSteps DEF vars, shape, IInv, TypeOK, Nodes
    <2>2. ASSUME NEW x \in {"srcServer", "relay", "dstServer"}, Move(x) PROVE IInv'
      BY <2>2, MoveSteps DEF Move, Set, IInv, TypeOK, Nodes
    <2>3. ASSUME NEW c \in {"S", "D"}, ConnLost(c) PROVE IInv'
      <3>1. /\ lost' \subseteq {"S", "D"} /\ losses' \in Nat
            /\ UNCHANGED <<shape, step, st, pos, has, end, cut, verdict, answer, outcome>>
        BY <2>3 DEF ConnLost, IInv, TypeOK
      <3>2. "source" \in Nodes
        BY DEF Nodes
      <3> QED
        BY <3>1, <3>2, MoveSteps
    <2> QED
      BY <2>1, <2>2, <2>3, PlanSteps, SourceSteps, ServerSteps, RelaySteps, ExtractSteps, EndSteps
      DEF Next, Copy, SourceWriteFails
  <1> QED
    BY <1>1, <1>2, PTL DEF Spec

\* Every variable of a copy keeps its type.
THEOREM TypeCorrect == Spec => []TypeOK
  <1>1. IInv => TypeOK
    BY DEF IInv
  <1> QED
    BY <1>1, Invariance, PTL

\* hcp and receive_archive: an upload that is reported as done has put every file
\* in place, and a destination takes an archive for complete only if it is or its
\* source gave up, whatever fails on the way and for archives of any length.
THEOREM CopiesComplete == Spec => []DoneIsComplete
  <1>1. IInv => DoneIsComplete
    BY DEF IInv
  <1> QED
    BY <1>1, Invariance, PTL

\* handle_download_worker and handle_upload_worker: a server that is through with a
\* copy leaves no worker running.
THEOREM WorkersEnd == Spec => []NoWorkerLeft
  <1>1. IInv => NoWorkerLeft
    BY DEF IInv
  <1> QED
    BY <1>1, Invariance, PTL

-----------------------------------------------------------------------------
(* CopyPlan: paths, and paths moved with what is below them.              *)

\* n with its beginning `from` replaced by `to`.
Moved(from, to, n) == to \o SubSeq(n, Len(from) + 1, Len(n))

\* A prefix, by its elements.
LEMMA PrefixIs ==
    ASSUME NEW names, NEW s \in Seq(names), NEW t \in Seq(names)
    PROVE  IsPrefix(s, t) <=> Len(s) <= Len(t) /\ \A k \in 1..Len(s) : s[k] = t[k]
  BY DEF IsPrefix

\* A part of a path, by its names.
LEMMA PathPart ==
    ASSUME NEW names, NEW s \in Seq(names), NEW a \in Nat, NEW n \in a..Len(s)
    PROVE  /\ SubSeq(s, a + 1, n) \in Seq(names) /\ Len(SubSeq(s, a + 1, n)) = n - a
           /\ \A i \in 1..n - a : SubSeq(s, a + 1, n)[i] = s[a + i]
  OBVIOUS

\* The beginning of a path, by its names.
LEMMA PathStart ==
    ASSUME NEW names, NEW s \in Seq(names), NEW n \in 0..Len(s)
    PROVE  /\ SubSeq(s, 1, n) \in Seq(names) /\ Len(SubSeq(s, 1, n)) = n
           /\ \A i \in 1..n : SubSeq(s, 1, n)[i] = s[i]
  OBVIOUS

\* Paths with the same names are the same.
LEMMA SamePath ==
    ASSUME NEW names, NEW s \in Seq(names), NEW t \in Seq(names), Len(s) = Len(t),
           \A k \in 1..Len(s) : s[k] = t[k]
    PROVE  s = t
  OBVIOUS

\* Two paths, one behind the other, by their names.
IsJoined(r, s, t, names) ==
    /\ r \in Seq(names) /\ Len(r) = Len(s) + Len(t)
    /\ \A k \in 1..Len(s) : r[k] = s[k]
    /\ \A k \in 1..Len(t) : r[Len(s) + k] = t[k]

\* Joining two paths.
LEMMA Joined ==
    ASSUME NEW names, NEW s \in Seq(names), NEW t \in Seq(names)
    PROVE  IsJoined(s \o t, s, t, names)
  BY DEF IsJoined

\* m is n with its beginning replaced, by its names.
IsMoved(m, from, to, n, names) ==
    /\ m \in Seq(names) /\ Len(m) = Len(to) + (Len(n) - Len(from)) /\ Len(from) <= Len(n)
    /\ \A k \in 1..Len(to) : m[k] = to[k]
    /\ \A k \in 1..Len(n) - Len(from) : m[Len(to) + k] = n[Len(from) + k]

\* What was moved, by its names.
LEMMA MovedIs ==
    ASSUME NEW names, NEW from \in Seq(names), NEW to \in Seq(names), NEW n \in Seq(names),
           IsPrefix(from, n)
    PROVE  IsMoved(Moved(from, to, n), from, to, n, names)
  <1>1. Len(from) \in Nat /\ Len(n) \in Len(from)..Len(n) /\ Len(to) \in Nat
    BY DEF IsPrefix
  <1> DEFINE t == SubSeq(n, Len(from) + 1, Len(n))
  <1>2. /\ t \in Seq(names) /\ Len(t) = Len(n) - Len(from)
        /\ \A k \in 1..Len(n) - Len(from) : t[k] = n[Len(from) + k]
    BY <1>1, PathPart
  <1>3. Moved(from, to, n) = to \o t
    BY DEF Moved
  <1> HIDE DEF t
  <1> DEFINE m == to \o t
  <1>4. IsJoined(m, to, t, names)
    BY <1>2, Joined
  <1> HIDE DEF m
  <1>5. IsMoved(m, from, to, n, names)
    BY <1>1, <1>2, <1>4 DEF IsMoved, IsJoined
  <1> QED
    BY <1>3, <1>5 DEF m

\* The source itself becomes the target.
LEMMA MovedRoot ==
    ASSUME NEW names, NEW from \in Seq(names), NEW to \in Seq(names)
    PROVE  IsPrefix(from, from) /\ Moved(from, to, from) = to
  <1>1. IsPrefix(from, from)
    BY PrefixIs
  <1>2. SubSeq(from, Len(from) + 1, Len(from)) = <<>>
    BY SubSeqEmpty
  <1> QED
    BY <1>1, <1>2, ConcatEmptySeq DEF Moved

\* A prefix of a prefix.
LEMMA PrefixTrans ==
    ASSUME NEW names, NEW s \in Seq(names), NEW t \in Seq(names), NEW u \in Seq(names),
           IsPrefix(s, t), IsPrefix(t, u)
    PROVE  IsPrefix(s, u)
  BY PrefixIs

\* A child is moved under what its directory becomes.
LEMMA MovedChild ==
    ASSUME NEW names, NEW from \in Seq(names), NEW to \in Seq(names), NEW n \in Seq(names),
           IsPrefix(from, n), NEW c \in Seq(names), c # <<>>, Front(c) = n
    PROVE  /\ IsPrefix(n, c) /\ IsPrefix(from, c) /\ Last(c) \in names
           /\ Moved(from, to, c) = Moved(from, to, n) \o <<Last(c)>>
  <1>1. /\ Len(c) = Len(n) + 1 /\ Len(n) \in Nat /\ Last(c) = c[Len(c)] /\ Last(c) \in names
        /\ \A k \in 1..Len(n) : c[k] = n[k]
    BY DEF Front, Last
  <1>2. IsPrefix(n, c)
    BY <1>1, PrefixIs
  <1>3. IsPrefix(from, c)
    BY <1>2, PrefixTrans
  <1> DEFINE m == Moved(from, to, n)
             l == Moved(from, to, c)
             r == m \o <<Last(c)>>
  <1>m. IsMoved(m, from, to, n, names)
    BY MovedIs
  <1>l. IsMoved(l, from, to, c, names)
    BY <1>3, MovedIs
  <1> HIDE DEF m, l
  <1>4. /\ m \in Seq(names) /\ Len(m) = Len(to) + (Len(n) - Len(from)) /\ Len(from) <= Len(n)
        /\ \A k \in 1..Len(to) : m[k] = to[k]
        /\ \A k \in 1..Len(n) - Len(from) : m[Len(to) + k] = n[Len(from) + k]
    BY <1>m DEF IsMoved
  <1>5. /\ l \in Seq(names) /\ Len(l) = Len(to) + (Len(c) - Len(from))
        /\ \A k \in 1..Len(to) : l[k] = to[k]
        /\ \A k \in 1..Len(c) - Len(from) : l[Len(to) + k] = c[Len(from) + k]
    BY <1>l DEF IsMoved
  <1>6. /\ r \in Seq(names) /\ Len(r) = Len(m) + 1 /\ \A k \in 1..Len(m) : r[k] = m[k]
        /\ r[Len(m) + 1] = Last(c)
    <2> DEFINE o == <<Last(c)>>
    <2>1. o \in Seq(names) /\ Len(o) = 1 /\ 1 \in 1..Len(o) /\ o[1] = Last(c) /\ r = m \o o
      BY <1>1
    <2> HIDE DEF o, r
    <2>2. IsJoined(r, m, o, names)
      BY <1>4, <2>1, Joined
    <2> QED
      BY <2>1, <2>2 DEF IsJoined
  <1> HIDE DEF r
  <1>7. Len(from) \in Nat /\ Len(to) \in Nat /\ Len(l) = Len(r)
    BY <1>1, <1>4, <1>5, <1>6
  <1>8. ASSUME NEW k \in 1..Len(l) PROVE l[k] = r[k]
    <2>1. CASE k \in 1..Len(to)
      <3>1. k \in 1..Len(m)
        BY <1>4, <1>7, <2>1
      <3> QED
        BY <1>4, <1>5, <1>6, <2>1, <3>1
    <2>2. CASE k \notin 1..Len(to) /\ k # Len(l)
      <3>1. PICK j \in 1..Len(n) - Len(from) : k = Len(to) + j
        <4>1. k - Len(to) \in 1..Len(n) - Len(from) /\ k = Len(to) + (k - Len(to))
          BY <1>1, <1>4, <1>5, <1>7, <2>2
        <4> QED BY <4>1
      <3>2. j \in 1..Len(c) - Len(from) /\ k \in 1..Len(m) /\ Len(from) + j \in 1..Len(n)
        BY <1>1, <1>4, <1>7, <3>1
      <3>3. l[k] = c[Len(from) + j] /\ m[k] = n[Len(from) + j] /\ r[k] = m[k]
        BY <1>4, <1>5, <1>6, <3>1, <3>2
      <3> QED
        BY <1>1, <3>2, <3>3
    <2>3. CASE k = Len(l)
      <3>1. Len(c) - Len(from) \in 1..Len(c) - Len(from) /\ Len(from) + (Len(c) - Len(from)) = Len(c)
        BY <1>1, <1>4, <1>7
      <3>2. l[k] = c[Len(c)]
        BY <1>5, <2>3, <3>1
      <3>3. k = Len(m) + 1
        BY <1>6, <1>7, <2>3
      <3> QED
        BY <1>1, <1>6, <3>2, <3>3
    <2> QED
      BY <2>1, <2>2, <2>3
  <1>9. l = r
    BY <1>5, <1>6, <1>7, <1>8, SamePath
  <1> QED
    BY <1>1, <1>2, <1>3, <1>9 DEF l, r, m

\* Different nodes are moved to different places.
LEMMA MovedOnce ==
    ASSUME NEW names, NEW from \in Seq(names), NEW to \in Seq(names),
           NEW n \in Seq(names), NEW c \in Seq(names), IsPrefix(from, n), IsPrefix(from, c),
           Moved(from, to, n) = Moved(from, to, c)
    PROVE  n = c
  <1> DEFINE m == Moved(from, to, n)
  <1>m. IsMoved(m, from, to, n, names)
    BY MovedIs
  <1>l. IsMoved(m, from, to, c, names)
    BY MovedIs
  <1> HIDE DEF m
  <1>1. /\ Len(m) = Len(to) + (Len(n) - Len(from)) /\ Len(from) <= Len(n)
        /\ \A k \in 1..Len(n) - Len(from) : m[Len(to) + k] = n[Len(from) + k]
    BY <1>m DEF IsMoved
  <1>2. /\ Len(m) = Len(to) + (Len(c) - Len(from)) /\ Len(from) <= Len(c)
        /\ \A k \in 1..Len(c) - Len(from) : m[Len(to) + k] = c[Len(from) + k]
    BY <1>l DEF IsMoved
  <1>3. Len(n) = Len(c) /\ Len(from) \in Nat /\ Len(n) \in Nat /\ Len(to) \in Nat
    BY <1>1, <1>2
  <1>4. \A k \in 1..Len(from) : n[k] = from[k] /\ c[k] = from[k]
    BY PrefixIs
  <1>5. ASSUME NEW k \in 1..Len(n) PROVE n[k] = c[k]
    <2>1. CASE k \in 1..Len(from)
      BY <1>4, <2>1
    <2>2. CASE k \notin 1..Len(from)
      <3>1. PICK j \in 1..Len(n) - Len(from) : k = Len(from) + j
        <4>1. k - Len(from) \in 1..Len(n) - Len(from) /\ k = Len(from) + (k - Len(from))
          BY <1>1, <1>3, <2>2
        <4> QED BY <4>1
      <3> QED
        BY <1>1, <1>2, <1>3, <3>1
    <2> QED
      BY <2>1, <2>2
  <1> QED
    BY <1>3, <1>5, SamePath

\* Above what was moved there is what is above the target, and what was moved
\* with it.
LEMMA MovedAbove ==
    ASSUME NEW names, NEW from \in Seq(names), NEW to \in Seq(names), NEW n \in Seq(names),
           IsPrefix(from, n), NEW k \in 1..Len(Moved(from, to, n))
    PROVE  LET p == SubSeq(Moved(from, to, n), 1, k)
           IN \/ IsStrictPrefix(p, to)
              \/ \E j \in Len(from)..Len(n) :
                   IsPrefix(from, SubSeq(n, 1, j)) /\ p = Moved(from, to, SubSeq(n, 1, j))
  <1> DEFINE m == Moved(from, to, n)
             p == SubSeq(m, 1, k)
  <1>m. IsMoved(m, from, to, n, names) /\ k \in 1..Len(m)
    BY MovedIs
  <1> HIDE DEF m
  <1>1. /\ m \in Seq(names) /\ Len(m) = Len(to) + (Len(n) - Len(from)) /\ Len(from) <= Len(n)
        /\ \A i \in 1..Len(to) : m[i] = to[i]
        /\ \A i \in 1..Len(n) - Len(from) : m[Len(to) + i] = n[Len(from) + i]
    BY <1>m DEF IsMoved
  <1>2. k \in 1..Len(m) /\ k \in 0..Len(m) /\ Len(from) \in Nat /\ Len(n) \in Nat /\ Len(to) \in Nat
    BY <1>1, <1>m
  <1>3. p \in Seq(names) /\ Len(p) = k /\ \A i \in 1..k : p[i] = m[i]
    BY <1>1, <1>2, PathStart
  <1> HIDE DEF p
  <1>4. CASE k < Len(to)
    <2>1. k <= Len(to) /\ \A i \in 1..k : i \in 1..Len(to)
      BY <1>2, <1>4
    <2>2. IsPrefix(p, to)
      <3>1. Len(p) <= Len(to) /\ \A i \in 1..Len(p) : p[i] = to[i]
        BY <1>1, <1>3, <2>1
      <3> QED
        BY <1>3, <3>1, PrefixIs, Zenon
    <2>3. p # to
      BY <1>3, <1>4
    <2> QED
      BY <2>2, <2>3 DEF IsStrictPrefix, p, m
  <1>5. CASE ~(k < Len(to))
    <2> DEFINE j == Len(from) + (k - Len(to))
               c == SubSeq(n, 1, j)
               l == Moved(from, to, c)
    <2>1. j \in Len(from)..Len(n) /\ j \in 0..Len(n) /\ j \in Nat
      BY <1>1, <1>2, <1>5
    <2>2. c \in Seq(names) /\ Len(c) = j /\ \A i \in 1..j : c[i] = n[i]
      <3> HIDE DEF j
      <3> QED BY <2>1, PathStart
    <2> HIDE DEF c
    <2>3. IsPrefix(from, c)
      <3>1. \A i \in 1..Len(from) : from[i] = n[i]
        BY PrefixIs
      <3>2. \A i \in 1..Len(from) : i \in 1..j
        BY <1>2, <2>1
      <3>3. Len(from) <= Len(c)
        BY <1>2, <2>1, <2>2
      <3> HIDE DEF j
      <3> QED
        BY <2>2, <3>1, <3>2, <3>3, PrefixIs
    <2>l. IsMoved(l, from, to, c, names)
      BY <2>2, <2>3, MovedIs
    <2> HIDE DEF l
    <2>4. /\ l \in Seq(names) /\ Len(l) = Len(to) + (Len(c) - Len(from))
          /\ \A i \in 1..Len(to) : l[i] = to[i]
          /\ \A i \in 1..Len(c) - Len(from) : l[Len(to) + i] = c[Len(from) + i]
      BY <2>l DEF IsMoved
    <2>5. Len(l) = k
      BY <1>2, <2>2, <2>4
    <2>6. ASSUME NEW i \in 1..k PROVE p[i] = l[i]
      <3>1. CASE i \in 1..Len(to)
        BY <1>1, <1>3, <2>4, <3>1
      <3>2. CASE i \notin 1..Len(to)
        <4>1. PICK h \in 1..k - Len(to) : i = Len(to) + h
          <5>1. i - Len(to) \in 1..k - Len(to) /\ i = Len(to) + (i - Len(to))
            BY <1>2, <3>2
          <5> QED BY <5>1
        <4>2. h \in 1..Len(n) - Len(from) /\ h \in 1..Len(c) - Len(from) /\ Len(from) + h \in 1..j
          BY <1>1, <1>2, <2>2, <4>1
        <4>3. m[i] = n[Len(from) + h] /\ l[i] = c[Len(from) + h]
          BY <1>1, <2>4, <4>1, <4>2
        <4> HIDE DEF j
        <4> QED
          BY <1>3, <2>2, <4>2, <4>3
      <3> QED
        BY <3>1, <3>2
    <2>7. p = l
      BY <1>3, <2>4, <2>5, <2>6, SamePath
    <2> QED
      BY <2>1, <2>3, <2>7 DEF l, c, p, m
  <1> QED
    BY <1>4, <1>5

\* What is moved under different names stays apart.
LEMMA MovedApart ==
    ASSUME NEW names, NEW f1 \in Seq(names), NEW t1 \in Seq(names), NEW n \in Seq(names), IsPrefix(f1, n),
           NEW f2 \in Seq(names), NEW t2 \in Seq(names), NEW c \in Seq(names), IsPrefix(f2, c),
           Len(t1) = Len(t2), t1 # <<>>, Last(t1) # Last(t2)
    PROVE  Moved(f1, t1, n) # Moved(f2, t2, c)
  <1>1. Len(t1) \in 1..Len(t1) /\ Len(t1) \in 1..Len(t2)
    OBVIOUS
  <1>m. IsMoved(Moved(f1, t1, n), f1, t1, n, names) /\ IsMoved(Moved(f2, t2, c), f2, t2, c, names)
    BY MovedIs
  <1>2. Moved(f1, t1, n)[Len(t1)] = t1[Len(t1)]
    BY <1>1, <1>m DEF IsMoved
  <1>3. Moved(f2, t2, c)[Len(t1)] = t2[Len(t1)]
    BY <1>1, <1>m DEF IsMoved
  <1> QED
    BY <1>2, <1>3 DEF Last

-----------------------------------------------------------------------------
(* Where the nodes of a copy land.                                        *)

\* Every source has a name of its own.
SourcesDistinct ==
    \A i, j \in DOMAIN copy.sources :
        i # j => Last(copy.sources[i].path.names) # Last(copy.sources[j].path.names)

\* Into a directory under the sources' names.
Into == \/ Len(copy.sources) > 1 \/ copy.dest.path.slash
        \/ IsDir(copy.dst, Resolve(copy.dest.path))

\* Where the sources are and where they go are paths.
LEMMA ResolveIs ==
    ASSUME NEW names, IsCopy(copy, names)
    PROVE  /\ Base \in Seq(names) /\ Resolve(copy.dest.path) \in Seq(names)
           /\ \A i \in DOMAIN copy.sources : Source(i) \in Seq(names)
           /\ Len(copy.sources) \in Nat \ {0} /\ DOMAIN copy.sources = 1..Len(copy.sources)
  <1>1. Base \in Seq(names)
    BY DEF IsCopy, IsTree
  <1>2. \A p : p.names \in Seq(names) => Resolve(p) \in Seq(names)
    BY <1>1, ConcatProperties DEF Resolve
  <1>3. Resolve(copy.dest.path) \in Seq(names)
    BY <1>2 DEF IsCopy
  <1>4. ASSUME NEW i \in DOMAIN copy.sources PROVE Source(i) \in Seq(names)
    BY <1>2 DEF IsCopy, Source
  <1>5. Len(copy.sources) \in Nat \ {0} /\ DOMAIN copy.sources = 1..Len(copy.sources)
    BY DEF IsCopy
  <1> QED
    BY <1>1, <1>3, <1>4, <1>5

\* The name of a source that has one.
LEMMA FileNameIs ==
    ASSUME NEW names, NEW s \in Seq(names), FileName(s) # NoName
    PROVE  s # <<>> /\ FileName(s) = Last(s) /\ Last(s) \in names
  BY DEF FileName, Last

\* The parts of a path that is not the root.
LEMMA FrontAndLast ==
    ASSUME NEW names, NEW s \in Seq(names), s # <<>>
    PROVE  /\ Front(s) \in Seq(names) /\ Len(s) = Len(Front(s)) + 1 /\ Last(s) \in names
           /\ s = Front(s) \o <<Last(s)>>
  BY DEF Front, Last

\* And of a path made of them.
LEMMA AppendIs ==
    ASSUME NEW names, NEW s \in Seq(names), NEW x \in names
    PROVE  LET t == Append(s, x)
           IN t \in Seq(names) /\ t # <<>> /\ Front(t) = s /\ Last(t) = x /\ Len(t) = Len(s) + 1
  BY DEF Front, Last

\* A target has a name.
LEMMA TargetIs ==
    ASSUME NEW names, IsCopy(copy, names), SourcesNamed, NEW i \in DOMAIN copy.sources
    PROVE  /\ Target(i) \in Seq(names) /\ Target(i) # <<>>
           /\ Into => /\ Front(Target(i)) = Resolve(copy.dest.path)
                      /\ Last(Target(i)) = Last(copy.sources[i].path.names)
           /\ ~Into => Target(i) = Resolve(copy.dest.path)
  <1> DEFINE r == Resolve(copy.dest.path)
             s == copy.sources[i].path.names
  <1>1. r \in Seq(names) /\ s \in Seq(names)
    BY ResolveIs DEF IsCopy
  <1>2. Last(s) \in names
    BY <1>1, FileNameIs DEF SourcesNamed
  <1>3. CASE Into
    <2>1. Target(i) = Append(r, Last(s))
      BY <1>3 DEF Target, Into
    <2> HIDE DEF r, s
    <2>2. Append(r, Last(s)) \in Seq(names) /\ Append(r, Last(s)) # <<>>
          /\ Front(Append(r, Last(s))) = r /\ Last(Append(r, Last(s))) = Last(s)
      BY <1>1, <1>2, AppendIs
    <2> QED
      BY <1>3, <2>1, <2>2 DEF r, s
  <1>4. CASE ~Into
    <2>1. Target(i) = r
      BY <1>4 DEF Target, Into
    <2>2. r # <<>>
      BY <1>4 DEF Into, IsDir
    <2> QED
      BY <1>1, <1>4, <2>1, <2>2
  <1> QED
    BY <1>3, <1>4

\* So has a source.
LEMMA SourceNamed ==
    ASSUME NEW names, IsCopy(copy, names), SourcesNamed, NEW i \in DOMAIN copy.sources
    PROVE  Source(i) # <<>>
  <1> DEFINE s == copy.sources[i].path.names
  <1>1. s \in Seq(names) /\ s # <<>>
    BY FileNameIs DEF SourcesNamed, IsCopy
  <1>2. Base \in Seq(names)
    BY ResolveIs
  <1>3. Source(i) = s \/ Source(i) = Base \o s
    BY DEF Source, Resolve
  <1> HIDE DEF s
  <1>4. Base \o s # <<>>
    BY <1>1, <1>2
  <1> QED
    BY <1>1, <1>3, <1>4

\* The nodes of a source.
LEMMA WholeIs ==
    ASSUME NEW names, IsCopy(copy, names), NEW i, NEW n
    PROVE  n \in Whole(i) <=> n \in DOMAIN copy.src /\ n \in Seq(names) /\ IsPrefix(Source(i), n)
  BY DEF Whole, IsCopy, IsTree

\* Where a node lands is its path moved to the target.
LEMMA LandsIs ==
    ASSUME NEW i, NEW n
    PROVE  Lands(i, n) = Moved(Source(i), Target(i), n)
  BY DEF Lands, Moved

\* The nodes of a copy.
LEMMA NodesAre ==
    ASSUME NEW p
    PROVE  p \in CopyNodes <=> \E i \in DOMAIN copy.sources : \E n \in Whole(i) : p = <<i, n>>
  BY DEF CopyNodes

\* Above where a node lands, there is what is above a target or where a node lands.
LEMMA LandsAbove ==
    ASSUME NEW names, IsCopy(copy, names), SourcesNamed, NEW i \in DOMAIN copy.sources,
           NEW n \in Whole(i), NEW k \in 1..Len(Lands(i, n))
    PROVE  \/ IsStrictPrefix(SubSeq(Lands(i, n), 1, k), Target(i))
           \/ \E c \in Whole(i) : SubSeq(Lands(i, n), 1, k) = Lands(i, c)
  <1>1. Source(i) \in Seq(names) /\ Target(i) \in Seq(names)
    BY ResolveIs, TargetIs
  <1>2. n \in DOMAIN copy.src /\ n \in Seq(names) /\ IsPrefix(Source(i), n)
    BY WholeIs
  <1> DEFINE p == SubSeq(Lands(i, n), 1, k)
  <1>3. \/ IsStrictPrefix(p, Target(i))
        \/ \E j \in Len(Source(i))..Len(n) :
             IsPrefix(Source(i), SubSeq(n, 1, j)) /\ p = Moved(Source(i), Target(i), SubSeq(n, 1, j))
    BY <1>1, <1>2, LandsIs, MovedAbove
  <1>4. ASSUME NEW j \in Len(Source(i))..Len(n), IsPrefix(Source(i), SubSeq(n, 1, j)),
               p = Moved(Source(i), Target(i), SubSeq(n, 1, j))
        PROVE  \E c \in Whole(i) : p = Lands(i, c)
    <2>1. Len(Source(i)) \in Nat \ {0} /\ Len(n) \in Nat
      <3>1. Source(i) # <<>>
        BY SourceNamed
      <3> QED
        BY <1>1, <1>2, <3>1
    <2>2. j \in 1..Len(n) /\ j \in 0..Len(n)
      BY <2>1
    <2>3. SubSeq(n, 1, j) \in DOMAIN copy.src
      BY <1>2, <2>2 DEF IsCopy, IsTree
    <2>4. SubSeq(n, 1, j) \in Seq(names)
      BY <1>2, <2>2, PathStart
    <2>5. SubSeq(n, 1, j) \in Whole(i)
      BY <1>4, <2>3, <2>4, WholeIs
    <2> QED
      BY <1>4, <2>5, LandsIs
  <1> QED
    BY <1>3, <1>4

\* Nodes of sources with names of their own land in different places.
LEMMA LandsOnce ==
    ASSUME NEW names, IsCopy(copy, names), SourcesNamed, SourcesDistinct,
           NEW i \in DOMAIN copy.sources, NEW n \in Whole(i),
           NEW j \in DOMAIN copy.sources, NEW c \in Whole(j), Lands(i, n) = Lands(j, c)
    PROVE  i = j /\ n = c
  <1>1. /\ Source(i) \in Seq(names) /\ Target(i) \in Seq(names) /\ Target(i) # <<>>
        /\ Source(j) \in Seq(names) /\ Target(j) \in Seq(names) /\ Target(j) # <<>>
    BY ResolveIs, TargetIs
  <1>2. n \in Seq(names) /\ IsPrefix(Source(i), n) /\ c \in Seq(names) /\ IsPrefix(Source(j), c)
    BY WholeIs
  <1>3. Moved(Source(i), Target(i), n) = Moved(Source(j), Target(j), c)
    BY LandsIs
  <1>4. i = j
    <2> SUFFICES ASSUME i # j PROVE FALSE
      OBVIOUS
    <2>1. Into
      BY ResolveIs DEF Into
    <2>2. /\ Front(Target(i)) = Front(Target(j)) /\ Last(Target(i)) = Last(copy.sources[i].path.names)
          /\ Last(Target(j)) = Last(copy.sources[j].path.names)
      BY <2>1, TargetIs
    <2>3. Last(Target(i)) # Last(Target(j))
      BY <2>2 DEF SourcesDistinct
    <2>4. Len(Target(i)) = Len(Target(j))
      BY <1>1, <2>2, FrontAndLast
    <2> QED
      BY <1>1, <1>2, <1>3, <2>3, <2>4, MovedApart
  <1> QED
    BY <1>1, <1>2, <1>3, <1>4, MovedOnce

\* A step that leaves the operands and the trees before the copy alone.
LEMMA SameCopy ==
    ASSUME copy' = copy
    PROVE  /\ \A i : Source(i)' = Source(i) /\ Target(i)' = Target(i) /\ Whole(i)' = Whole(i)
           /\ \A i, n : Lands(i, n)' = Lands(i, n)
           /\ CopyNodes' = CopyNodes /\ SourcesNamed' = SourcesNamed
           /\ SourcesDistinct' = SourcesDistinct
  <1>1. \A i : Source(i)' = Source(i)
    BY DEF Source
  <1>2. \A i : Target(i)' = Target(i)
    BY DEF Target
  <1>3. \A i : Whole(i)' = Whole(i)
    BY <1>1 DEF Whole
  <1>4. \A i, n : Lands(i, n)' = Lands(i, n)
    BY <1>1, <1>2 DEF Lands
  <1>5. CopyNodes' = CopyNodes
    BY <1>3 DEF CopyNodes
  <1>6. SourcesNamed' = SourcesNamed /\ SourcesDistinct' = SourcesDistinct
    BY DEF SourcesNamed, SourcesDistinct
  <1> QED
    BY <1>1, <1>2, <1>3, <1>4, <1>5, <1>6

-----------------------------------------------------------------------------
(* What tokio_tar puts into a tree.                                       *)

\* What a copy may leave at q.
MayLeave(q, node) ==
    \/ q \in DOMAIN copy.dst /\ node = copy.dst[q]
    \/ \E p \in CopyNodes : q = Lands(p[1], p[2])
    \/ node = OpenDir /\ \E i \in DOMAIN copy.sources : IsStrictPrefix(q, Target(i))

\* What tokio_tar leaves after it has put a node into the tree.
LEMMA PlaceIs ==
    ASSUME NEW names, NEW at \in Seq(names), at # <<>>, NEW node, Place(at, node)
    PROVE  /\ DOMAIN dst \subseteq DOMAIN dst' /\ at \in DOMAIN dst' /\ dst'[at] = node
           /\ \A q \in DOMAIN dst : q # at => dst'[q] = dst[q]
           /\ \A q \in DOMAIN dst' : \/ q = at \/ q \in DOMAIN dst
                                     \/ dst'[q] = OpenDir /\ \E k \in 1..Len(at) : q = SubSeq(at, 1, k)
  <1> DEFINE D == DOMAIN dst \cup {SubSeq(at, 1, k) : k \in 1..Len(at)}
  <1>1. dst' = [q \in D |-> IF q = at THEN node ELSE IF q \in DOMAIN dst THEN dst[q] ELSE OpenDir]
    BY DEF Place
  <1>2. at \in D
    <2>1. Len(at) \in 1..Len(at) /\ SubSeq(at, 1, Len(at)) = at
      OBVIOUS
    <2> QED
      BY <2>1
  <1>3. \A q \in D : q \in DOMAIN dst \/ \E k \in 1..Len(at) : q = SubSeq(at, 1, k)
    OBVIOUS
  <1>4. DOMAIN dst \subseteq D
    OBVIOUS
  <1> HIDE DEF D
  <1>5. /\ DOMAIN dst' = D
        /\ \A q \in D :
             dst'[q] = IF q = at THEN node ELSE IF q \in DOMAIN dst THEN dst[q] ELSE OpenDir
    BY <1>1
  <1> QED
    BY <1>2, <1>3, <1>4, <1>5

\* A node that lands where it belongs changes nothing else.
LEMMA NodePlaced ==
    ASSUME NEW names, IsCopy(copy, names), SourcesNamed, NothingElse, copy' = copy,
           NEW i \in DOMAIN copy.sources, NEW n \in Whole(i), NEW node, Place(Lands(i, n), node)
    PROVE  /\ NothingElse' /\ DOMAIN dst \subseteq DOMAIN dst' /\ Lands(i, n) \in DOMAIN dst'
           /\ dst'[Lands(i, n)] = node /\ \A q \in DOMAIN dst : q # Lands(i, n) => dst'[q] = dst[q]
  <1> DEFINE at == Lands(i, n)
  <1>1. at \in Seq(names) /\ at # <<>>
    <2>1. /\ Source(i) \in Seq(names) /\ Target(i) \in Seq(names) /\ Target(i) # <<>>
          /\ n \in Seq(names) /\ IsPrefix(Source(i), n)
      BY ResolveIs, TargetIs, WholeIs
    <2>2. IsMoved(at, Source(i), Target(i), n, names)
      BY <2>1, LandsIs, MovedIs
    <2> HIDE DEF at
    <2>3. at \in Seq(names) /\ Len(at) = Len(Target(i)) + (Len(n) - Len(Source(i))) /\ Len(Source(i)) <= Len(n)
      BY <2>2 DEF IsMoved
    <2>4. Len(Target(i)) \in Nat \ {0} /\ Len(n) \in Nat /\ Len(Source(i)) \in Nat
      BY <2>1
    <2> QED
      BY <2>3, <2>4
  <1>2. Place(at, node)
    OBVIOUS
  <1>3. \A k \in 1..Len(at) : \/ IsStrictPrefix(SubSeq(at, 1, k), Target(i))
                              \/ \E c \in Whole(i) : SubSeq(at, 1, k) = Lands(i, c)
    BY LandsAbove
  <1>4. \A c \in Whole(i) : <<i, c>> \in CopyNodes /\ <<i, c>>[1] = i /\ <<i, c>>[2] = c
    BY NodesAre
  <1>5. \E p \in CopyNodes : at = Lands(p[1], p[2])
    BY <1>4
  <1> HIDE DEF at
  <1>6. /\ DOMAIN dst \subseteq DOMAIN dst' /\ at \in DOMAIN dst' /\ dst'[at] = node
        /\ \A q \in DOMAIN dst : q # at => dst'[q] = dst[q]
        /\ \A q \in DOMAIN dst' : \/ q = at \/ q \in DOMAIN dst
                                  \/ dst'[q] = OpenDir /\ \E k \in 1..Len(at) : q = SubSeq(at, 1, k)
    BY <1>1, <1>2, PlaceIs
  <1>7. ASSUME NEW q \in DOMAIN dst' PROVE MayLeave(q, dst'[q])
    <2>1. CASE q = at
      BY <1>5, <2>1 DEF MayLeave
    <2>2. CASE q # at /\ q \in DOMAIN dst
      <3>1. MayLeave(q, dst[q]) /\ dst'[q] = dst[q]
        BY <1>6, <2>2 DEF NothingElse, MayLeave
      <3> QED
        BY <3>1
    <2>3. CASE dst'[q] = OpenDir /\ \E k \in 1..Len(at) : q = SubSeq(at, 1, k)
      <3>1. IsStrictPrefix(q, Target(i)) \/ \E c \in Whole(i) : q = Lands(i, c)
        BY <1>3, <2>3
      <3> QED
        BY <1>4, <2>3, <3>1 DEF MayLeave
    <2> QED
      BY <1>6, <2>1, <2>2, <2>3
  <1>8. NothingElse'
    BY <1>7, SameCopy DEF NothingElse, MayLeave
  <1> QED
    BY <1>6, <1>8 DEF at

\* Nor does the directory the targets are in.
LEMMA DirPlaced ==
    ASSUME NEW names, IsCopy(copy, names), SourcesNamed, NothingElse, copy' = copy,
           NEW i \in DOMAIN copy.sources, Front(Target(i)) # <<>>, Front(Target(i)) \notin DOMAIN dst,
           Place(Front(Target(i)), OpenDir)
    PROVE  NothingElse'
  <1> DEFINE t == Target(i)
             at == Front(t)
  <1>1. t \in Seq(names) /\ t # <<>>
    BY TargetIs
  <1>a. at # <<>> /\ Place(at, OpenDir) /\ at \notin DOMAIN dst
    OBVIOUS
  <1> HIDE DEF t
  <1>b. at \in Seq(names) /\ Len(t) = Len(at) + 1
    BY <1>1, FrontAndLast
  <1>2. at \in Seq(names) /\ at # <<>> /\ Place(at, OpenDir) /\ Len(t) = Len(at) + 1 /\ Len(at) \in Nat
        /\ at \notin DOMAIN dst
    <2> HIDE DEF at
    <2> QED BY <1>a, <1>b
  <1>3. at = SubSeq(t, 1, Len(at))
    BY <1>1, <1>2 DEF Front
  <1> HIDE DEF at
  <1>4. ASSUME NEW k \in 1..Len(at) PROVE IsStrictPrefix(SubSeq(at, 1, k), t)
    <2>1. k \in 0..Len(at) /\ k <= Len(t) /\ k # Len(t) /\ Len(at) \in 0..Len(t)
      BY <1>2
    <2>2. SubSeq(at, 1, k) \in Seq(names) /\ Len(SubSeq(at, 1, k)) = k
          /\ \A j \in 1..k : SubSeq(at, 1, k)[j] = at[j]
      BY <1>2, <2>1, PathStart
    <2>3. \A j \in 1..Len(at) : at[j] = t[j]
      BY <1>1, <1>3, <2>1, PathStart
    <2>4. \A j \in 1..k : j \in 1..Len(at)
      BY <1>2
    <2>5. \A j \in 1..k : SubSeq(at, 1, k)[j] = t[j]
      BY <2>2, <2>3, <2>4
    <2> DEFINE p == SubSeq(at, 1, k)
    <2>6. p \in Seq(names) /\ Len(p) <= Len(t) /\ Len(p) # Len(t) /\ \A j \in 1..Len(p) : p[j] = t[j]
      BY <2>1, <2>2, <2>5
    <2> HIDE DEF p
    <2>7. IsPrefix(p, t) /\ p # t
      BY <1>1, <2>6, PrefixIs
    <2> QED
      BY <2>7 DEF IsStrictPrefix, p
  <1>5. /\ \A q \in DOMAIN dst : q # at => dst'[q] = dst[q]
        /\ dst'[at] = OpenDir
        /\ \A q \in DOMAIN dst' : \/ q = at \/ q \in DOMAIN dst
                                  \/ dst'[q] = OpenDir /\ \E k \in 1..Len(at) : q = SubSeq(at, 1, k)
    BY <1>2, PlaceIs
  <1>6. \E k \in 1..Len(at) : at = SubSeq(at, 1, k)
    <2>1. Len(at) \in 1..Len(at) /\ at = SubSeq(at, 1, Len(at))
      BY <1>2
    <2> QED
      BY <2>1
  <1>7. ASSUME NEW q \in DOMAIN dst' PROVE MayLeave(q, dst'[q])
    <2>1. CASE q # at /\ q \in DOMAIN dst
      <3>1. MayLeave(q, dst[q]) /\ dst'[q] = dst[q]
        BY <1>5, <2>1 DEF NothingElse, MayLeave
      <3> QED
        BY <3>1
    <2>2. CASE dst'[q] = OpenDir /\ \E k \in 1..Len(at) : q = SubSeq(at, 1, k)
      BY <1>4, <2>2 DEF MayLeave, t
    <2> QED
      BY <1>5, <1>6, <2>1, <2>2
  <1> QED
    BY <1>7, SameCopy DEF NothingElse, MayLeave

-----------------------------------------------------------------------------
(* The invariant of a copy: what is planned, walked and unpacked.         *)

\* The sources whose archiving has begun.
Taken == Len(copy.sources) - Len(plan.entries)

PlanEntry(i) == [path |-> copy.sources[i].path, name |-> Last(Target(i))]

\* The plan puts the sources to their targets, and holds those not taken yet.
Planned(names) ==
    /\ SourcesNamed /\ plan = [dir |-> plan.dir, entries |-> plan.entries] /\ plan.dir \in Seq(names)
    /\ \A i \in DOMAIN copy.sources : plan.dir = Front(Target(i))
    /\ plan.entries \in Seq({PlanEntry(i) : i \in DOMAIN copy.sources})
    /\ Len(plan.entries) <= Len(copy.sources)
    /\ \A k \in 1..Len(plan.entries) : plan.entries[k] = PlanEntry(Taken + k)

\* e is the archive's entry for node n of source i.
IsEntry(e, i, n, names) ==
    e.path \in Seq(names) /\ plan.dir \o e.path = Lands(i, n) /\ e.node = copy.src[n]

EntryOK(e, names) == \E i \in DOMAIN copy.sources : \E n \in Whole(i) : IsEntry(e, i, n, names)

Stored(names) == [path : Seq(names), node : {copy.src[n] : n \in DOMAIN copy.src}]
Found(names) == [from : Seq(names), name : Seq(names)]

ArchiveOK(names) ==
    archive \in Seq(Stored(names)) /\ \A a \in 1..Len(archive) : EntryOK(archive[a], names)

\* What is still to be archived is of the source taken last.
TodoOK(names) ==
    /\ todo \in Seq(Found(names)) /\ (todo # <<>> => Taken \in DOMAIN copy.sources)
    /\ \A a \in 1..Len(todo) : /\ IsPrefix(Source(Taken), todo[a].from)
                               /\ plan.dir \o todo[a].name = Lands(Taken, todo[a].from)

\* What vanished is still to be archived.
SrcOK ==
    /\ DOMAIN src \subseteq DOMAIN copy.src /\ \A n \in DOMAIN src : src[n] = copy.src[n]
    /\ \A n \in DOMAIN copy.src : n \in DOMAIN src \/ \E a \in 1..Len(todo) : todo[a].from = n

Archived(i, n, names) == \E a \in 1..Len(archive) : IsEntry(archive[a], i, n, names)
Ahead(i, n) == i = Taken /\ \E a \in 1..Len(todo) : IsPrefix(todo[a].from, n)

\* The walk leaves nothing behind.
AllReached(names) ==
    \A i \in DOMAIN copy.sources : i <= Taken =>
        \A n \in Whole(i) : Archived(i, n, names) \/ Ahead(i, n)

InPlace(i, n) == Lands(i, n) \in DOMAIN dst /\ dst[Lands(i, n)] = copy.src[n]

\* What was archived is in the archive, waits for the end, or is in place.
AllOnTheWay(names) ==
    \A i \in DOMAIN copy.sources : \A n \in Whole(i) :
        \/ Archived(i, n, names) \/ (\E e \in late : IsEntry(e, i, n, names)) \/ InPlace(i, n)

Walking(names) == /\ ArchiveOK(names) /\ TodoOK(names) /\ SrcOK /\ AllReached(names)
                  /\ late = {} /\ dst = copy.dst

Unpacking(names) == /\ ArchiveOK(names) /\ (\A e \in late : EntryOK(e, names))
                    /\ (SourcesDistinct => AllOnTheWay(names))

CopyInv(names) ==
    /\ IsCopy(copy, names) /\ NothingElse
    /\ phase \in {"operands", "plan", "request"} =>
         src = copy.src /\ dst = copy.dst /\ todo = <<>> /\ archive = <<>> /\ late = {}
    /\ phase = "plan" => SourcesNamed
    /\ phase \in {"request", "archive", "unpack"} => Planned(names)
    /\ phase = "request" => Taken = 0
    /\ phase = "archive" => Walking(names)
    /\ phase = "unpack" => Unpacking(names)
    /\ phase = "done" /\ SourcesDistinct => AllPlaced

\* With the operands and the plan's directory the entries' meaning stays.
LEMMA SameEntry ==
    ASSUME copy' = copy, plan'.dir = plan.dir
    PROVE  /\ \A e, i, n, names : IsEntry(e, i, n, names)' = IsEntry(e, i, n, names)
           /\ \A e, names : EntryOK(e, names)' = EntryOK(e, names)
           /\ \A names : Stored(names)' = Stored(names)
           /\ \A i : PlanEntry(i)' = PlanEntry(i)
  <1>1. \A e, i, n, names : IsEntry(e, i, n, names)' = IsEntry(e, i, n, names)
    BY SameCopy DEF IsEntry
  <1>2. \A e, names : EntryOK(e, names)' = EntryOK(e, names)
    BY <1>1, SameCopy DEF EntryOK
  <1>3. \A names : Stored(names)' = Stored(names)
    BY DEF Stored
  <1>4. \A i : PlanEntry(i)' = PlanEntry(i)
    BY SameCopy DEF PlanEntry
  <1> QED
    BY <1>1, <1>2, <1>3, <1>4

\* plan_for_destination puts the sources to their targets.
LEMMA PlanMade ==
    ASSUME NEW names, IsCopy(copy, names), SourcesNamed, dst = copy.dst, NEW remote \in BOOLEAN,
           NEW p, p = PlanForDestination(copy.dest.path, remote, PlanEntries), p.dir # NoName
    PROVE  /\ p = [dir |-> p.dir, entries |-> p.entries]
           /\ p.dir \in Seq(names) /\ \A i \in DOMAIN copy.sources : p.dir = Front(Target(i))
           /\ p.entries \in Seq({PlanEntry(i) : i \in DOMAIN copy.sources})
           /\ Len(p.entries) = Len(copy.sources)
           /\ \A k \in 1..Len(p.entries) : p.entries[k] = PlanEntry(k)
  <1> DEFINE d == copy.dest.path
             N == Len(copy.sources)
             P == {PlanEntry(i) : i \in DOMAIN copy.sources}
  <1>1. /\ N \in Nat \ {0} /\ DOMAIN copy.sources = 1..N /\ Base \in Seq(names)
        /\ Resolve(d) \in Seq(names) /\ d.names \in Seq(names)
    BY ResolveIs DEF IsCopy
  <1>2. ASSUME NEW i \in 1..N
        PROVE  /\ FileName(copy.sources[i].path.names) = Last(copy.sources[i].path.names)
               /\ Target(i) \in Seq(names) /\ Target(i) # <<>>
               /\ Into => Front(Target(i)) = Resolve(d) /\ Last(Target(i)) = Last(copy.sources[i].path.names)
               /\ ~Into => Target(i) = Resolve(d)
    <2>1. i \in DOMAIN copy.sources
      BY <1>1
    <2>2. copy.sources[i].path.names \in Seq(names) /\ FileName(copy.sources[i].path.names) # NoName
      BY <2>1 DEF IsCopy, SourcesNamed
    <2> QED
      BY <2>1, <2>2, FileNameIs, TargetIs
  <1>3. DestinationIsDir(d, remote) <=> d.slash \/ IsDir(copy.dst, Resolve(d))
    <2>1. d.names = <<>> /\ d.start # "/" => Resolve(d) = Base
      BY <1>1, ConcatEmptySeq DEF Resolve
    <2>2. IsDir(copy.dst, Base)
      BY DEF IsCopy, IsDir
    <2> QED
      BY <2>1, <2>2 DEF DestinationIsDir, LooksLikeDir
  <1>4. Len(PlanEntries) = N /\ DOMAIN PlanEntries = 1..N
        /\ \A k \in 1..N : PlanEntries[k] = [path |-> copy.sources[k].path,
                                             name |-> FileName(copy.sources[k].path.names)]
    BY <1>1 DEF PlanEntries
  <1>5. N > 1 \/ DestinationIsDir(d, remote) <=> Into
    BY <1>3 DEF Into
  <1>6. CASE Into
    <2>1. p = [dir |-> Resolve(d), entries |-> PlanEntries]
      BY <1>4, <1>5, <1>6 DEF PlanForDestination
    <2>2. \A k \in 1..N : PlanEntries[k] = PlanEntry(k)
      BY <1>2, <1>4, <1>6 DEF PlanEntry
    <2>3. PlanEntries \in Seq(P)
      <3>1. PlanEntries = [k \in 1..N |-> PlanEntries[k]]
        BY <1>1 DEF PlanEntries
      <3>2. \A k \in 1..N : PlanEntries[k] \in P
        BY <1>1, <2>2
      <3> HIDE DEF P, N
      <3> QED
        BY <1>1, <3>1, <3>2
    <2> QED
      BY <1>1, <1>2, <1>4, <1>6, <2>1, <2>2, <2>3
  <1>7. CASE ~Into
    <2>1. N = 1 /\ ~DestinationIsDir(d, remote)
      <3>1. ~(N > 1) /\ ~DestinationIsDir(d, remote)
        BY <1>5, <1>7, Zenon
      <3> HIDE DEF N
      <3>2. N = 1
        BY <1>1, <3>1
      <3> QED
        BY <3>1, <3>2
    <2>2. /\ FileName(d.names) # NoName
          /\ p = [dir |-> Front(Resolve(d)),
                  entries |-> <<[path |-> PlanEntries[1].path, name |-> FileName(d.names)]>>]
      BY <1>4, <2>1 DEF PlanForDestination
    <2>3. d.names # <<>> /\ FileName(d.names) = Last(d.names)
      BY <1>1, <2>2, FileNameIs
    <2>4. Last(Resolve(d)) = Last(d.names)
      BY <1>1, <2>3 DEF Resolve, Last
    <2>5. Resolve(d) # <<>> /\ Target(1) = Resolve(d)
      BY <1>1, <1>2, <1>7
    <2>6. PlanEntry(1) = [path |-> PlanEntries[1].path, name |-> FileName(d.names)]
      <3>1. 1 \in 1..N
        BY <1>1
      <3>2. PlanEntries[1].path = copy.sources[1].path
        <4>1. PlanEntries[1] = [path |-> copy.sources[1].path,
                                name |-> FileName(copy.sources[1].path.names)]
          BY <1>4, <3>1, Zenon
        <4> QED
          BY <4>1
      <3>3. Last(Target(1)) = FileName(d.names)
        BY <2>3, <2>4, <2>5
      <3> QED
        BY <3>2, <3>3 DEF PlanEntry
    <2>7. p.dir = Front(Target(1)) /\ p.entries = <<PlanEntry(1)>>
      BY <2>2, <2>5, <2>6
    <2>8. p.dir \in Seq(names)
      BY <1>1, <2>5, <2>7, FrontAndLast
    <2>9. PlanEntry(1) \in P /\ DOMAIN copy.sources = {1}
      BY <1>1, <2>1
    <2>a. p = [dir |-> p.dir, entries |-> p.entries]
      BY <2>2
    <2> HIDE DEF P
    <2>b. p.entries \in Seq(P) /\ Len(p.entries) = N /\ \A k \in 1..Len(p.entries) : p.entries[k] = PlanEntry(k)
      BY <2>1, <2>7, <2>9
    <2> QED
      BY <2>7, <2>8, <2>9, <2>a, <2>b DEF P
  <1> QED
    BY <1>6, <1>7

-----------------------------------------------------------------------------
(* The walk of append_path_limited.                                       *)

\* The plan's next source is taken.
LEMMA NextSourceKeeps ==
    ASSUME NEW names, IsCopy(copy, names), Planned(names), Walking(names), NextSource
    PROVE  Planned(names)' /\ Walking(names)'
  <1> DEFINE N == Len(copy.sources)
             L == Len(plan.entries)
             T == Taken
             P == {PlanEntry(i) : i \in DOMAIN copy.sources}
             t == T + 1
             it == [from |-> Source(t), name |-> <<Last(Target(t))>>]
  <1>1. /\ SourcesNamed /\ plan = [dir |-> plan.dir, entries |-> plan.entries] /\ plan.dir \in Seq(names)
        /\ \A i \in DOMAIN copy.sources : plan.dir = Front(Target(i))
        /\ plan.entries \in Seq(P) /\ L <= N
        /\ \A k \in 1..L : plan.entries[k] = PlanEntry(T + k)
    BY DEF Planned
  <1>2. /\ N \in Nat \ {0} /\ DOMAIN copy.sources = 1..N
        /\ \A i \in DOMAIN copy.sources : Source(i) \in Seq(names)
    BY ResolveIs
  <1>3. /\ todo = <<>> /\ plan.entries # <<>>
        /\ todo' = <<[from |-> Resolve(Head(plan.entries).path), name |-> <<Head(plan.entries).name>>]>>
        /\ plan' = [plan EXCEPT !.entries = Tail(@)]
        /\ UNCHANGED <<copy, src, dst, archive, late>>
    BY DEF NextSource
  <1>4. L \in Nat \ {0} /\ T = N - L /\ T \in Nat /\ t \in 1..N /\ Head(plan.entries) = plan.entries[1]
    <2>1. L \in Nat \ {0} /\ Head(plan.entries) = plan.entries[1]
      BY <1>1, <1>3
    <2>2. T = N - L
      BY DEF Taken
    <2> HIDE DEF N, L, T
    <2> QED
      BY <1>1, <1>2, <2>1, <2>2
  <1> HIDE DEF N, L, T
  <1>5. /\ plan'.dir = plan.dir /\ plan'.entries = Tail(plan.entries)
        /\ plan' = [dir |-> plan'.dir, entries |-> plan'.entries]
    BY <1>1, <1>3
  <1>6. /\ Tail(plan.entries) \in Seq(P) /\ Len(Tail(plan.entries)) = L - 1
        /\ \A k \in 1..L - 1 : Tail(plan.entries)[k] = plan.entries[k + 1]
    <2> HIDE DEF P
    <2> QED BY <1>1, <1>3 DEF L
  <1>7. Taken' = t
    <2>1. Taken' = N - (L - 1)
      BY <1>3, <1>5, <1>6 DEF Taken, N
    <2> QED
      BY <1>2, <1>4, <2>1
  <1>8. /\ \A e, i, n : IsEntry(e, i, n, names)' = IsEntry(e, i, n, names)
        /\ \A e : EntryOK(e, names)' = EntryOK(e, names)
        /\ Stored(names)' = Stored(names) /\ \A i : PlanEntry(i)' = PlanEntry(i)
    BY <1>3, <1>5, SameEntry
  <1>9. /\ \A i : Source(i)' = Source(i) /\ Target(i)' = Target(i) /\ Whole(i)' = Whole(i)
        /\ \A i, n : Lands(i, n)' = Lands(i, n)
        /\ SourcesNamed' = SourcesNamed
    BY <1>3, SameCopy
  <1>10. Planned(names)'
    <2>1. \A k \in 1..L - 1 : Tail(plan.entries)[k] = PlanEntry(t + k)
      <3>1. \A k \in 1..L - 1 : k + 1 \in 1..L /\ T + (k + 1) = t + k
        BY <1>4
      <3> HIDE DEF L, T, t
      <3> QED
        BY <1>1, <1>6, <3>1
    <2>2. {PlanEntry(i) : i \in DOMAIN copy.sources}' = P
      BY <1>3, <1>8
    <2>3. L - 1 <= N
      BY <1>1, <1>2, <1>4
    <2> QED
      BY <1>1, <1>3, <1>5, <1>6, <1>7, <1>8, <1>9, <2>1, <2>2, <2>3 DEF Planned
  <1>11. todo' = <<it>>
    <2>1. plan.entries[1] = PlanEntry(t)
      <3>1. 1 \in 1..L
        BY <1>4
      <3> QED
        BY <1>1, <3>1
    <2>2. PlanEntry(t).path = copy.sources[t].path /\ PlanEntry(t).name = Last(Target(t))
      BY DEF PlanEntry
    <2>3. Resolve(PlanEntry(t).path) = Source(t)
      BY <2>2 DEF Source
    <2> QED
      BY <1>3, <1>4, <2>1, <2>2, <2>3
  <1>12. /\ Source(t) \in Seq(names) /\ Target(t) \in Seq(names) /\ Target(t) # <<>> /\ t \in DOMAIN copy.sources
    BY <1>1, <1>2, <1>4, TargetIs
  <1>13. /\ it \in Found(names) /\ IsPrefix(Source(t), Source(t))
         /\ plan.dir \o <<Last(Target(t))>> = Lands(t, Source(t))
    <2>1. Last(Target(t)) \in names /\ Front(Target(t)) \o <<Last(Target(t))>> = Target(t)
      BY <1>12, FrontAndLast
    <2>2. IsPrefix(Source(t), Source(t)) /\ Lands(t, Source(t)) = Target(t)
      BY <1>12, MovedRoot, LandsIs
    <2>3. <<Last(Target(t))>> \in Seq(names)
      BY <2>1
    <2> HIDE DEF t
    <2> QED
      BY <1>1, <1>12, <2>1, <2>2, <2>3 DEF Found
  <1>14. Len(<<it>>) = 1 /\ <<it>>[1] = it /\ <<it>> \in Seq(Found(names)) /\ 1..1 = {1}
         /\ it.from = Source(t) /\ it.name = <<Last(Target(t))>>
    BY <1>13
  <1> HIDE DEF it
  <1>15. TodoOK(names)'
    BY <1>3, <1>5, <1>7, <1>9, <1>11, <1>12, <1>13, <1>14 DEF TodoOK, Found
  <1>16. ArchiveOK(names)' /\ late' = {} /\ dst' = copy'.dst
    BY <1>3, <1>8 DEF Walking, ArchiveOK
  <1>17. SrcOK'
    <2>1. \A a \in 1..Len(todo) : FALSE
      BY <1>3
    <2>2. /\ DOMAIN src \subseteq DOMAIN copy.src /\ \A n \in DOMAIN src : src[n] = copy.src[n]
          /\ \A n \in DOMAIN copy.src : n \in DOMAIN src
      BY <2>1 DEF Walking, SrcOK
    <2> QED
      BY <1>3, <2>2 DEF SrcOK
  <1>18. AllReached(names)'
    <2> SUFFICES ASSUME NEW i \in DOMAIN copy.sources, i <= t, NEW n \in Whole(i)
                 PROVE  Archived(i, n, names)' \/ Ahead(i, n)'
      BY <1>3, <1>7, <1>9 DEF AllReached
    <2>1. CASE i = t
      <3>1. IsPrefix(Source(t), n)
        BY <2>1, WholeIs
      <3> QED
        BY <1>7, <1>11, <1>14, <2>1, <3>1 DEF Ahead
    <2>2. CASE i # t
      <3>1. i <= T
        BY <1>2, <1>4, <2>2
      <3>2. ~Ahead(i, n)
        BY <1>3 DEF Ahead
      <3>3. Archived(i, n, names)
        BY <3>1, <3>2 DEF Walking, AllReached, T
      <3> QED
        BY <1>3, <1>8, <3>3 DEF Archived
    <2> QED
      BY <2>1, <2>2
  <1> QED
    BY <1>10, <1>15, <1>16, <1>17, <1>18 DEF Walking

\* A listing has all the children of a directory.
LEMMA Listed ==
    ASSUME NEW S, IsFiniteSet(S), NEW order \in SetToSeqs(S)
    PROVE  /\ Len(order) \in Nat /\ DOMAIN order = 1..Len(order)
           /\ \A k \in 1..Len(order) : order[k] \in S
           /\ \A c \in S : \E k \in 1..Len(order) : order[k] = c
  <1> DEFINE D == 1..Cardinality(S)
  <1>1. Cardinality(S) \in Nat
    BY FS_CardinalityType
  <1>2. order \in [D -> S] /\ \A i, j \in D : i # j => order[i] # order[j]
    BY DEF SetToSeqs
  <1>3. order \in Injection(D, S)
    BY <1>2 DEF Injection, IsInjective
  <1>4. IsFiniteSet(D) /\ Cardinality(D) = Cardinality(S)
    BY <1>1, FS_Interval
  <1>5. order \in Surjection(D, S)
    BY <1>3, <1>4, FS_Injection
  <1>6. \A c \in S : \E k \in D : order[k] = c
    BY <1>5 DEF Surjection
  <1>7. Len(order) = Cardinality(S)
    BY <1>1, <1>2
  <1> QED
    BY <1>1, <1>2, <1>6, <1>7

\* A node of the tree below n is n, or below a child of n that is in the tree.
LEMMA NextBelow ==
    ASSUME NEW names, NEW tree, IsTree(tree, names), NEW n \in Seq(names), NEW c \in DOMAIN tree,
           IsPrefix(n, c), c # n
    PROVE  \E d \in DOMAIN tree : d # <<>> /\ d # n /\ Front(d) = n /\ IsPrefix(d, c)
  <1>1. c \in Seq(names) /\ Len(c) \in Nat /\ Len(n) \in Nat
    BY DEF IsTree
  <1>2. Len(n) <= Len(c) /\ \A k \in 1..Len(n) : n[k] = c[k]
    BY <1>1, PrefixIs
  <1>3. Len(n) # Len(c)
    BY <1>1, <1>2, SamePath
  <1> DEFINE j == Len(n) + 1
             d == SubSeq(c, 1, j)
  <1>4. j \in 1..Len(c) /\ j \in 0..Len(c) /\ j - 1 = Len(n) /\ j <= Len(c) /\ j # 0
    BY <1>1, <1>2, <1>3
  <1>5. d \in DOMAIN tree
    BY <1>4 DEF IsTree
  <1> HIDE DEF j
  <1>6. d \in Seq(names) /\ Len(d) = j /\ \A k \in 1..j : d[k] = c[k]
    BY <1>1, <1>4, PathStart
  <1> HIDE DEF d
  <1>7. d # <<>> /\ d # n
    BY <1>4, <1>6 DEF j
  <1>8. IsPrefix(d, c)
    <2>1. Len(d) <= Len(c) /\ \A k \in 1..Len(d) : d[k] = c[k]
      BY <1>4, <1>6
    <2> QED
      BY <1>1, <1>6, <2>1, PrefixIs
  <1>9. Front(d) = n
    <2>1. Len(n) \in 0..Len(d) /\ \A k \in 1..Len(n) : k \in 1..j
      BY <1>1, <1>4, <1>6
    <2>2. /\ SubSeq(d, 1, Len(n)) \in Seq(names) /\ Len(SubSeq(d, 1, Len(n))) = Len(n)
          /\ \A k \in 1..Len(n) : SubSeq(d, 1, Len(n))[k] = d[k]
      BY <1>6, <2>1, PathStart
    <2>3. \A k \in 1..Len(n) : SubSeq(d, 1, Len(n))[k] = n[k]
      BY <1>2, <1>6, <2>1, <2>2
    <2>4. SubSeq(d, 1, Len(n)) = n
      BY <2>2, <2>3, SamePath
    <2> QED
      BY <1>4, <1>6, <2>4 DEF Front
  <1> QED
    BY <1>5, <1>7, <1>8, <1>9

\* Joining three paths.
LEMMA JoinedTwice ==
    ASSUME NEW names, NEW s \in Seq(names), NEW t \in Seq(names), NEW u \in Seq(names)
    PROVE  s \o (t \o u) = (s \o t) \o u
  BY ConcatAssociative

\* What two lists hold, one behind the other.
Holds(r, s, t) ==
    /\ \A a \in 1..Len(s) : \E b \in 1..Len(r) : r[b] = s[a]
    /\ \A a \in 1..Len(t) : \E b \in 1..Len(r) : r[b] = t[a]
    /\ \A b \in 1..Len(r) : (\E a \in 1..Len(s) : r[b] = s[a]) \/ (\E a \in 1..Len(t) : r[b] = t[a])

\* Joining two lists.
LEMMA JoinedHas ==
    ASSUME NEW X, NEW s \in Seq(X), NEW t \in Seq(X)
    PROVE  s \o t \in Seq(X) /\ Holds(s \o t, s, t)
  <1> DEFINE r == s \o t
  <1>1. IsJoined(r, s, t, X)
    BY Joined
  <1> HIDE DEF r
  <1>2. /\ r \in Seq(X) /\ Len(r) = Len(s) + Len(t) /\ Len(s) \in Nat /\ Len(t) \in Nat
        /\ \A k \in 1..Len(s) : r[k] = s[k]
        /\ \A k \in 1..Len(t) : r[Len(s) + k] = t[k]
    BY <1>1 DEF IsJoined
  <1>3. ASSUME NEW a \in 1..Len(s) PROVE \E b \in 1..Len(r) : r[b] = s[a]
    <2>1. a \in 1..Len(r)
      BY <1>2
    <2> QED
      BY <1>2, <2>1
  <1>4. ASSUME NEW a \in 1..Len(t) PROVE \E b \in 1..Len(r) : r[b] = t[a]
    <2>1. Len(s) + a \in 1..Len(r)
      BY <1>2
    <2> QED
      BY <1>2, <2>1
  <1>5. ASSUME NEW b \in 1..Len(r)
        PROVE  (\E a \in 1..Len(s) : r[b] = s[a]) \/ (\E a \in 1..Len(t) : r[b] = t[a])
    <2>1. CASE b <= Len(s)
      <3>1. b \in 1..Len(s)
        BY <1>2, <2>1
      <3> QED
        BY <1>2, <3>1
    <2>2. CASE ~(b <= Len(s))
      <3>1. b - Len(s) \in 1..Len(t) /\ Len(s) + (b - Len(s)) = b
        BY <1>2, <2>2
      <3> QED
        BY <1>2, <3>1
    <2> QED
      BY <2>1, <2>2
  <1> QED
    <2>1. r \in Seq(X) /\ Holds(r, s, t)
      BY <1>2, <1>3, <1>4, <1>5 DEF Holds
    <2> QED
      BY <2>1 DEF r

\* A node is archived, and its children are next.
LEMMA AppendKeeps ==
    ASSUME NEW names, IsCopy(copy, names), Planned(names), Walking(names), AppendPath, phase' = "archive"
    PROVE  Planned(names)' /\ Walking(names)'
  <1>0. PICK T, M, it, from, e :
           /\ T = Taken /\ M = Len(todo) /\ it = todo[M] /\ from = it.from
           /\ e = [path |-> it.name, node |-> src[from]]
    OBVIOUS
  <1>1. /\ todo # <<>> /\ from \in DOMAIN src /\ archive' = Append(archive, e)
        /\ UNCHANGED <<copy, plan, src, dst, late>>
        /\ \E order \in SetToSeqs(Children(src, from)) :
             todo' = Front(todo) \o
                       [k \in DOMAIN order |-> [from |-> order[k], name |-> Append(it.name, Last(order[k]))]]
    <2>1. phase = "archive" /\ Last(todo) = it
      BY <1>0 DEF AppendPath, Last
    <2>2. CanAppend(from)
      BY <1>0, <2>1 DEF AppendPath
    <2> QED
      BY <1>0, <2>1, <2>2 DEF AppendPath, CanAppend
  <1>2. PICK order \in SetToSeqs(Children(src, from)) :
             todo' = Front(todo) \o
                       [k \in DOMAIN order |-> [from |-> order[k], name |-> Append(it.name, Last(order[k]))]]
    BY <1>1
  <1>3. /\ SourcesNamed /\ plan.dir \in Seq(names) /\ ArchiveOK(names) /\ TodoOK(names) /\ SrcOK
        /\ AllReached(names) /\ late = {} /\ dst = copy.dst
    BY DEF Planned, Walking
  <1>4. /\ todo \in Seq(Found(names)) /\ M \in Nat \ {0} /\ T \in DOMAIN copy.sources
        /\ \A a \in 1..M : /\ todo[a] \in Found(names) /\ IsPrefix(Source(T), todo[a].from)
                           /\ plan.dir \o todo[a].name = Lands(T, todo[a].from)
    <2>1. M \in Nat \ {0}
      BY <1>0, <1>1, <1>3 DEF TodoOK
    <2>2. T \in DOMAIN copy.sources
      BY <1>0, <1>1, <1>3 DEF TodoOK
    <2>3. todo \in Seq(Found(names))
      BY <1>3 DEF TodoOK
    <2>4. \A a \in 1..M : /\ IsPrefix(Source(T), todo[a].from)
                          /\ plan.dir \o todo[a].name = Lands(T, todo[a].from)
      BY <1>0, <1>3 DEF TodoOK
    <2>5. \A a \in 1..M : todo[a] \in Found(names)
      BY <1>0, <2>3
    <2> QED
      BY <2>1, <2>2, <2>3, <2>4, <2>5
  <1>5. /\ M \in 1..M /\ it \in Found(names) /\ from \in Seq(names) /\ it.name \in Seq(names)
        /\ IsPrefix(Source(T), from) /\ plan.dir \o it.name = Lands(T, from)
    <2>1. M \in 1..M
      BY <1>4
    <2>2. it \in Found(names) /\ IsPrefix(Source(T), from) /\ plan.dir \o it.name = Lands(T, from)
      BY <1>0, <1>4, <2>1
    <2> QED
      BY <1>0, <2>1, <2>2 DEF Found
  <1>6. /\ Source(T) \in Seq(names) /\ Target(T) \in Seq(names)
        /\ \A n \in DOMAIN copy.src : n \in Seq(names)
    BY <1>3, <1>4, ResolveIs, TargetIs DEF IsCopy, IsTree
  <1>7. from \in DOMAIN copy.src /\ src[from] = copy.src[from] /\ from \in Whole(T)
    <2>1. from \in DOMAIN copy.src /\ src[from] = copy.src[from]
      BY <1>1, <1>3 DEF SrcOK
    <2> QED
      BY <1>5, <2>1, WholeIs
  <1>8. IsEntry(e, T, from, names) /\ e \in Stored(names)
    BY <1>0, <1>5, <1>7 DEF IsEntry, Stored
  <1>9. /\ Taken' = T /\ plan'.dir = plan.dir
        /\ \A x, i, n : IsEntry(x, i, n, names)' = IsEntry(x, i, n, names)
        /\ \A x : EntryOK(x, names)' = EntryOK(x, names)
        /\ Stored(names)' = Stored(names)
        /\ \A i : Source(i)' = Source(i) /\ Target(i)' = Target(i) /\ Whole(i)' = Whole(i)
        /\ \A i, n : Lands(i, n)' = Lands(i, n)
    BY <1>0, <1>1, SameEntry, SameCopy DEF Taken
  <1>10. Planned(names)'
    <2>1. SourcesNamed' = SourcesNamed /\ \A i : PlanEntry(i)' = PlanEntry(i)
      BY <1>1, SameEntry, SameCopy
    <2>2. plan' = plan /\ copy' = copy
      BY <1>1
    <2> QED
      BY <1>0, <1>9, <2>1, <2>2 DEF Planned
  <1> DEFINE A == Append(archive, e)
  <1>11. /\ archive \in Seq(Stored(names)) /\ A \in Seq(Stored(names)) /\ Len(archive) \in Nat
         /\ Len(A) = Len(archive) + 1 /\ A[Len(archive) + 1] = e /\ \A a \in 1..Len(archive) : A[a] = archive[a]
    <2>1. archive \in Seq(Stored(names))
      BY <1>3 DEF ArchiveOK
    <2> QED
      BY <1>8, <2>1
  <1> HIDE DEF A
  <1>12. \A i, n : Archived(i, n, names) => Archived(i, n, names)'
    <2>1. \A a \in 1..Len(archive) : a \in 1..Len(A)
      BY <1>11
    <2> QED
      BY <1>1, <1>9, <1>11, <2>1 DEF Archived, A
  <1>13. Archived(T, from, names)'
    <2>1. Len(A) \in 1..Len(A) /\ A[Len(A)] = e
      BY <1>11
    <2> QED
      BY <1>1, <1>8, <1>9, <2>1 DEF Archived, A
  <1>14. ArchiveOK(names)'
    <2>1. ASSUME NEW a \in 1..Len(A) PROVE EntryOK(A[a], names)
      <3>1. CASE a \in 1..Len(archive)
        BY <1>3, <1>11, <3>1 DEF ArchiveOK
      <3>2. CASE a = Len(archive) + 1
        BY <1>4, <1>7, <1>8, <1>11, <3>2 DEF EntryOK
      <3> QED
        BY <1>11, <3>1, <3>2
    <2> QED
      BY <1>1, <1>9, <1>11, <2>1 DEF ArchiveOK, A
  <1> DEFINE F == Front(todo)
             K == [k \in DOMAIN order |-> [from |-> order[k], name |-> Append(it.name, Last(order[k]))]]
  <1>15. /\ F \in Seq(Found(names)) /\ Len(F) = M - 1 /\ \A a \in 1..M - 1 : F[a] = todo[a]
    <2>1. M - 1 \in 0..Len(todo) /\ F = SubSeq(todo, 1, M - 1)
      BY <1>0, <1>4 DEF Front
    <2> HIDE DEF F
    <2> QED
      BY <1>4, <2>1, PathStart
  <1> DEFINE C == Children(src, from)
  <1>16. /\ Len(order) \in Nat /\ DOMAIN order = 1..Len(order)
         /\ \A k \in 1..Len(order) : order[k] \in C
         /\ \A c \in C : \E k \in 1..Len(order) : order[k] = c
    <2>1. IsFiniteSet(C)
      <3>1. C \subseteq DOMAIN copy.src
        BY <1>3 DEF Children, SrcOK
      <3>2. IsFiniteSet(DOMAIN copy.src)
        BY DEF IsCopy, IsTree
      <3> QED
        BY <3>1, <3>2, FS_Subset
    <2> QED
      BY <2>1, Listed
  <1>17. ASSUME NEW c \in C
         PROVE  /\ c \in DOMAIN src /\ c \in Seq(names) /\ c # <<>> /\ Front(c) = from /\ Last(c) \in names
                /\ IsPrefix(Source(T), c) /\ plan.dir \o Append(it.name, Last(c)) = Lands(T, c)
                /\ Append(it.name, Last(c)) \in Seq(names)
    <2>1. c \in DOMAIN src /\ c # <<>> /\ Front(c) = from
      BY DEF Children
    <2>2. c \in Seq(names)
      BY <1>3, <1>6, <2>1 DEF SrcOK
    <2>3. /\ IsPrefix(Source(T), c) /\ Last(c) \in names
          /\ Moved(Source(T), Target(T), c) = Moved(Source(T), Target(T), from) \o <<Last(c)>>
      BY <1>5, <1>6, <2>1, <2>2, MovedChild
    <2>4. Lands(T, c) = Lands(T, from) \o <<Last(c)>>
      BY <2>3, LandsIs
    <2> DEFINE o == <<Last(c)>>
               nm == it.name
    <2>5. o \in Seq(names) /\ nm \in Seq(names) /\ Append(nm, Last(c)) = nm \o o /\ nm \o o \in Seq(names)
      <3>1. nm \in Seq(names) /\ Last(c) \in names
        BY <1>5, <2>3
      <3> DEFINE l == Last(c)
      <3> HIDE DEF nm, l
      <3>2. <<l>> \in Seq(names) /\ Append(nm, l) = nm \o <<l>> /\ nm \o <<l>> \in Seq(names)
        BY <3>1 DEF l
      <3> QED
        BY <3>1, <3>2 DEF l
    <2>6. Lands(T, c) = (plan.dir \o nm) \o o
      BY <1>5, <2>4
    <2> HIDE DEF o, nm
    <2>7. plan.dir \o (nm \o o) = (plan.dir \o nm) \o o
      <3>1. plan.dir \in Seq(names) /\ nm \in Seq(names) /\ o \in Seq(names)
        BY <1>3, <2>5
      <3>2. ASSUME NEW s \in Seq(names), NEW t \in Seq(names), NEW u \in Seq(names)
            PROVE  s \o (t \o u) = (s \o t) \o u
        BY JoinedTwice
      <3> QED
        BY <3>1, <3>2
    <2> QED
      BY <2>1, <2>2, <2>3, <2>5, <2>6, <2>7 DEF nm
  <1> HIDE DEF C
  <1>18. /\ K \in Seq(Found(names)) /\ Len(K) = Len(order)
         /\ \A k \in 1..Len(order) : K[k] = [from |-> order[k], name |-> Append(it.name, Last(order[k]))]
    <2>1. \A k \in 1..Len(order) : K[k] = [from |-> order[k], name |-> Append(it.name, Last(order[k]))]
      BY <1>16
    <2>2. \A k \in 1..Len(order) : K[k] \in Found(names)
      BY <1>16, <1>17, <2>1 DEF Found
    <2>3. K = [k \in 1..Len(order) |-> K[k]]
      BY <1>16
    <2> HIDE DEF K
    <2>4. K \in Seq(Found(names)) /\ Len(K) = Len(order)
      BY <1>16, <2>2, <2>3
    <2> QED
      BY <2>1, <2>4
  <1>19. todo' = F \o K
    BY <1>2
  <1> HIDE DEF F, K
  <1>20. /\ todo' \in Seq(Found(names))
         /\ \A a \in 1..M - 1 : \E b \in 1..Len(todo') : todo'[b] = todo[a]
         /\ \A k \in 1..Len(order) : \E b \in 1..Len(todo') : todo'[b] = K[k]
         /\ \A b \in 1..Len(todo') : \/ \E a \in 1..M - 1 : todo'[b] = todo[a]
                                     \/ \E k \in 1..Len(order) : todo'[b] = K[k]
    <2>1. todo' \in Seq(Found(names)) /\ Holds(todo', F, K)
      <3>1. F \o K \in Seq(Found(names)) /\ Holds(F \o K, F, K)
        BY <1>15, <1>18, JoinedHas
      <3> QED
        BY <1>19, <3>1, Zenon
    <2>2. /\ Len(F) = M - 1 /\ Len(K) = Len(order) /\ \A a \in 1..M - 1 : F[a] = todo[a]
      BY <1>15, <1>18
    <2>3. \A a \in 1..M - 1 : \E b \in 1..Len(todo') : todo'[b] = todo[a]
      <3>1. \A a \in 1..M - 1 : \E b \in 1..Len(todo') : todo'[b] = F[a]
        BY <2>1, <2>2, Zenon DEF Holds
      <3> QED
        BY <2>2, <3>1, Zenon
    <2>4. \A k \in 1..Len(order) : \E b \in 1..Len(todo') : todo'[b] = K[k]
      BY <2>1, <2>2, Zenon DEF Holds
    <2>5. ASSUME NEW b \in 1..Len(todo')
          PROVE  (\E a \in 1..M - 1 : todo'[b] = todo[a]) \/ (\E k \in 1..Len(order) : todo'[b] = K[k])
      <3>1. (\E a \in 1..M - 1 : todo'[b] = F[a]) \/ (\E k \in 1..Len(order) : todo'[b] = K[k])
        BY <2>1, <2>2, Zenon DEF Holds
      <3> QED
        BY <2>2, <3>1, Zenon
    <2> QED
      BY <2>1, <2>3, <2>4, <2>5, Zenon
  <1>21. TodoOK(names)'
    <2>1. ASSUME NEW b \in 1..Len(todo')
          PROVE  IsPrefix(Source(T), todo'[b].from) /\ plan.dir \o todo'[b].name = Lands(T, todo'[b].from)
      <3>1. ASSUME NEW a \in 1..M - 1, todo'[b] = todo[a]
            PROVE  IsPrefix(Source(T), todo'[b].from) /\ plan.dir \o todo'[b].name = Lands(T, todo'[b].from)
        <4>1. a \in 1..M
          BY <1>4
        <4> QED
          BY <1>4, <3>1, <4>1
      <3>2. ASSUME NEW k \in 1..Len(order), todo'[b] = K[k]
            PROVE  IsPrefix(Source(T), todo'[b].from) /\ plan.dir \o todo'[b].name = Lands(T, todo'[b].from)
        <4>1. order[k] \in C
          BY <1>16
        <4>2. todo'[b].from = order[k] /\ todo'[b].name = Append(it.name, Last(order[k]))
          <5>1. todo'[b] = [from |-> order[k], name |-> Append(it.name, Last(order[k]))]
            BY <1>18, <3>2, Zenon
          <5> QED
            BY <5>1
        <4> QED
          BY <1>17, <4>1, <4>2
      <3> QED
        BY <1>20, <3>1, <3>2
    <2> QED
      BY <1>1, <1>4, <1>9, <1>20, <2>1 DEF TodoOK, Found
  <1>22. \A k \in 1..Len(order) : \E b \in 1..Len(todo') : todo'[b].from = order[k]
    <2> SUFFICES ASSUME NEW k \in 1..Len(order) PROVE \E b \in 1..Len(todo') : todo'[b].from = order[k]
      OBVIOUS
    <2>1. PICK b \in 1..Len(todo') : todo'[b] = K[k]
      BY <1>20, Zenon
    <2>2. todo'[b] = [from |-> order[k], name |-> Append(it.name, Last(order[k]))]
      BY <1>18, <2>1, Zenon
    <2>3. todo'[b].from = order[k]
      BY <2>2
    <2> QED
      BY <2>3, Zenon
  <1>23. ASSUME NEW a \in 1..M, todo[a].from # from
         PROVE  \E b \in 1..Len(todo') : todo'[b] = todo[a]
    <2>1. a # M
      BY <1>0, <1>23
    <2>2. a \in 1..M - 1
      BY <1>4, <2>1
    <2> QED
      BY <1>20, <2>2
  <1>24. SrcOK'
    <2>1. ASSUME NEW n \in DOMAIN copy.src, n \notin DOMAIN src
          PROVE  \E b \in 1..Len(todo') : todo'[b].from = n
      <3>1. PICK a \in 1..M : todo[a].from = n
        BY <1>0, <1>3, <2>1 DEF SrcOK
      <3>2. todo[a].from # from
        BY <1>1, <2>1, <3>1
      <3> QED
        BY <1>23, <3>1, <3>2
    <2> QED
      BY <1>1, <1>3, <2>1 DEF SrcOK
  <1>25. AllReached(names)'
    <2> SUFFICES ASSUME NEW i \in DOMAIN copy.sources, i <= T, NEW n \in Whole(i)
                 PROVE  Archived(i, n, names)' \/ Ahead(i, n)'
      BY <1>1, <1>9 DEF AllReached
    <2>1. CASE Archived(i, n, names)
      BY <1>12, <2>1
    <2>2. CASE ~Archived(i, n, names)
      <3>1. i = T /\ \E a \in 1..M : IsPrefix(todo[a].from, n)
        BY <1>0, <1>3, <2>2 DEF AllReached, Ahead
      <3>2. PICK a \in 1..M : IsPrefix(todo[a].from, n)
        BY <3>1
      <3>3. ASSUME NEW b \in 1..Len(todo'), IsPrefix(todo'[b].from, n) PROVE Ahead(i, n)'
        BY <1>9, <3>1, <3>3 DEF Ahead
      <3>4. CASE todo[a].from # from
        <4>1. PICK b \in 1..Len(todo') : todo'[b] = todo[a]
          BY <1>23, <3>4
        <4>2. IsPrefix(todo'[b].from, n)
          BY <3>2, <4>1
        <4> QED
          BY <3>3, <4>2
      <3>5. CASE n = from
        BY <1>13, <3>1, <3>5
      <3>6. CASE todo[a].from = from /\ n # from
        <4>1. n \in DOMAIN copy.src /\ IsPrefix(from, n)
          BY <3>2, <3>6, WholeIs
        <4>2. PICK d \in DOMAIN copy.src : d # <<>> /\ d # from /\ Front(d) = from /\ IsPrefix(d, n)
          <5>1. IsTree(copy.src, names)
            BY DEF IsCopy
          <5> QED
            BY <1>5, <3>6, <4>1, <5>1, NextBelow
        <4>3. CASE d \in DOMAIN src
          <5>1. d \in C
            BY <4>2, <4>3 DEF C, Children
          <5>2. PICK k \in 1..Len(order) : order[k] = d
            BY <1>16, <5>1
          <5>3. PICK b \in 1..Len(todo') : todo'[b].from = d
            BY <1>22, <5>2
          <5> QED
            BY <3>3, <4>2, <5>3
        <4>4. CASE d \notin DOMAIN src
          <5>1. PICK h \in 1..M : todo[h].from = d
            BY <1>0, <1>3, <4>4 DEF SrcOK
          <5>2. PICK b \in 1..Len(todo') : todo'[b] = todo[h]
            BY <1>23, <4>2, <5>1
          <5>3. IsPrefix(todo'[b].from, n)
            BY <4>2, <5>1, <5>2
          <5> QED
            BY <3>3, <5>3
        <4> QED
          BY <4>3, <4>4
      <3> QED
        BY <3>4, <3>5, <3>6
    <2> QED
      BY <2>1, <2>2
  <1> QED
    BY <1>1, <1>3, <1>10, <1>14, <1>21, <1>24, <1>25 DEF Walking

-----------------------------------------------------------------------------
(* From the walk's end to the extraction's.                               *)

\* With the operands and the plan, the plan keeps its meaning.
LEMMA SamePlan ==
    ASSUME NEW names, copy' = copy, plan' = plan
    PROVE  Planned(names)' = Planned(names) /\ Taken' = Taken
  <1>1. /\ SourcesNamed' = SourcesNamed /\ \A i : PlanEntry(i)' = PlanEntry(i)
        /\ \A i : Target(i)' = Target(i)
    BY SameEntry, SameCopy
  <1>2. Taken' = Taken
    BY DEF Taken
  <1> QED
    BY <1>1, <1>2 DEF Planned

\* And with the archive, so does the archive.
LEMMA SameArchive ==
    ASSUME NEW names, copy' = copy, plan' = plan, archive' = archive
    PROVE  /\ ArchiveOK(names)' = ArchiveOK(names)
           /\ \A i, n : Archived(i, n, names)' = Archived(i, n, names)
  <1>1. /\ \A e : EntryOK(e, names)' = EntryOK(e, names) /\ Stored(names)' = Stored(names)
        /\ \A e, i, n : IsEntry(e, i, n, names)' = IsEntry(e, i, n, names)
    BY SameEntry
  <1> QED
    BY <1>1 DEF ArchiveOK, Archived

\* With the destination's tree, nothing else is changed.
LEMMA SameTree ==
    ASSUME copy' = copy, dst' = dst, NothingElse
    PROVE  NothingElse'
  BY SameCopy DEF NothingElse, OpenDir

\* A file vanishes that is still to be archived.
LEMMA VanishKeeps ==
    ASSUME NEW names, Planned(names), Walking(names), NEW v \in DOMAIN src, Vanish(v)
    PROVE  Planned(names)' /\ Walking(names)'
  <1>1. /\ UNCHANGED <<copy, plan, dst, todo, archive, late>>
        /\ src' = [m \in DOMAIN src \ {v} |-> src[m]] /\ \E a \in DOMAIN todo : todo[a].from = v
    BY DEF Vanish
  <1>2. /\ ArchiveOK(names) /\ TodoOK(names) /\ SrcOK /\ AllReached(names) /\ late = {} /\ dst = copy.dst
    BY DEF Walking
  <1>3. Planned(names)' /\ Taken' = Taken
    BY <1>1, SamePlan
  <1>4. ArchiveOK(names)' /\ \A i, n : Archived(i, n, names)' = Archived(i, n, names)
    BY <1>1, <1>2, SameArchive
  <1>5. /\ \A i : Source(i)' = Source(i) /\ Whole(i)' = Whole(i)
        /\ \A i, n : Lands(i, n)' = Lands(i, n)
    BY <1>1, SameCopy
  <1>6. TodoOK(names)'
    BY <1>1, <1>2, <1>3, <1>5 DEF TodoOK, Found
  <1>7. AllReached(names)'
    <2>1. \A i, n : Ahead(i, n)' = Ahead(i, n)
      BY <1>1, <1>3 DEF Ahead
    <2> QED
      BY <1>1, <1>2, <1>3, <1>4, <1>5, <2>1 DEF AllReached
  <1>8. SrcOK'
    <2>1. \E a \in 1..Len(todo) : todo[a].from = v
      BY <1>1, <1>2 DEF TodoOK
    <2>2. DOMAIN src' = DOMAIN src \ {v} /\ \A n \in DOMAIN src' : src'[n] = src[n]
      BY <1>1
    <2> QED
      BY <1>1, <1>2, <2>1, <2>2 DEF SrcOK
  <1> QED
    BY <1>1, <1>2, <1>3, <1>4, <1>6, <1>7, <1>8 DEF Walking

\* After the walk every node is in the archive.
LEMMA WalkOver ==
    ASSUME NEW names, IsCopy(copy, names), Planned(names), Walking(names), todo = <<>>, plan.entries = <<>>,
           NEW i \in DOMAIN copy.sources, NEW n \in Whole(i)
    PROVE  Archived(i, n, names)
  <1>1. Len(plan.entries) = 0 /\ Len(todo) = 0
    OBVIOUS
  <1>2. Len(copy.sources) \in Nat /\ i \in 1..Len(copy.sources)
    BY ResolveIs
  <1>3. i <= Taken
    BY <1>1, <1>2 DEF Taken
  <1>4. Archived(i, n, names) \/ Ahead(i, n)
    BY <1>3 DEF Walking, AllReached
  <1>5. ~Ahead(i, n)
    BY <1>1 DEF Ahead
  <1> QED
    BY <1>4, <1>5

\* The extraction's directory is made.
LEMMA OpenKeeps ==
    ASSUME NEW names, IsCopy(copy, names), Planned(names), Walking(names), NothingElse, OpenDestination
    PROVE  Planned(names)' /\ NothingElse' /\ Unpacking(names)'
  <1>1. todo = <<>> /\ plan.entries = <<>> /\ UNCHANGED <<copy, plan, archive, late>>
    BY DEF OpenDestination
  <1>2. Planned(names)' /\ SourcesNamed
    BY <1>1, SamePlan DEF Planned
  <1>3. NothingElse'
    <2>1. CASE dst' = dst
      BY <1>1, <2>1, SameTree
    <2>2. CASE plan.dir # <<>> /\ plan.dir \notin DOMAIN dst /\ Place(plan.dir, OpenDir)
      <3>1. PICK i \in DOMAIN copy.sources : TRUE
        BY ResolveIs
      <3>2. plan.dir = Front(Target(i))
        BY DEF Planned
      <3> QED
        BY <1>1, <1>2, <2>2, <3>2, DirPlaced
    <2> QED
      BY <2>1, <2>2 DEF OpenDestination
  <1>4. ArchiveOK(names)' /\ \A i, n : Archived(i, n, names)' = Archived(i, n, names)
    BY <1>1, SameArchive DEF Walking
  <1>5. AllOnTheWay(names)'
    <2>1. \A i \in DOMAIN copy.sources : \A n \in Whole(i) : Archived(i, n, names)'
      BY <1>1, <1>4, WalkOver
    <2>2. \A i : Whole(i)' = Whole(i)
      BY <1>1, SameCopy
    <2> QED
      BY <1>1, <2>1, <2>2 DEF AllOnTheWay
  <1> QED
    BY <1>1, <1>2, <1>3, <1>4, <1>5 DEF Unpacking, Walking

\* An entry is unpacked where it belongs, or the copy fails.
LEMMA UnpackKeeps ==
    ASSUME NEW names, IsCopy(copy, names), Planned(names), NothingElse, copy' = copy,
           NEW i \in DOMAIN copy.sources, NEW n \in Whole(i), NEW e, IsEntry(e, i, n, names),
           Unpack(plan.dir \o e.path, e.node)
    PROVE  /\ NothingElse'
           /\ phase' = "unpack" =>
                /\ InPlace(i, n)'
                /\ SourcesDistinct => \A j \in DOMAIN copy.sources : \A c \in Whole(j) :
                                         InPlace(j, c) => InPlace(j, c)'
  <1>1. SourcesNamed
    BY DEF Planned
  <1>2. plan.dir \o e.path = Lands(i, n) /\ e.node = copy.src[n]
    BY DEF IsEntry
  <1>3. \A j, c : Lands(j, c)' = Lands(j, c)
    BY SameCopy
  <1>4. CASE CanUnpack(plan.dir \o e.path, e.node)
    <2>1. Place(Lands(i, n), copy.src[n])
      BY <1>2, <1>4 DEF Unpack
    <2>2. /\ NothingElse' /\ DOMAIN dst \subseteq DOMAIN dst' /\ Lands(i, n) \in DOMAIN dst'
          /\ dst'[Lands(i, n)] = copy.src[n] /\ \A q \in DOMAIN dst : q # Lands(i, n) => dst'[q] = dst[q]
      BY <1>1, <2>1, NodePlaced
    <2>3. InPlace(i, n)'
      BY <1>3, <2>2 DEF InPlace
    <2>4. ASSUME SourcesDistinct, NEW j \in DOMAIN copy.sources, NEW c \in Whole(j), InPlace(j, c)
          PROVE  InPlace(j, c)'
      <3>1. CASE Lands(i, n) = Lands(j, c)
        <4>1. i = j /\ n = c
          BY <1>1, <2>4, <3>1, LandsOnce
        <4> QED
          BY <2>3, <4>1
      <3>2. CASE Lands(i, n) # Lands(j, c)
        BY <1>3, <2>2, <2>4, <3>2 DEF InPlace
      <3> QED
        BY <3>1, <3>2
    <2> QED
      BY <2>2, <2>3, <2>4
  <1>5. CASE ~CanUnpack(plan.dir \o e.path, e.node)
    <2>1. phase' = "failed" /\ dst' = dst
      BY <1>5 DEF Unpack
    <2>2. NothingElse'
      BY <2>1, SameTree
    <2> QED
      BY <2>1, <2>2
  <1> QED
    BY <1>4, <1>5

\* The next entry of the archive.
LEMMA UnpackNextKeeps ==
    ASSUME NEW names, IsCopy(copy, names), Planned(names), Unpacking(names), NothingElse, UnpackNext
    PROVE  Planned(names)' /\ NothingElse' /\ (phase' = "unpack" => Unpacking(names)')
  <1>0. PICK e, L : e = Head(archive) /\ L = Len(archive)
    OBVIOUS
  <1>1. /\ archive # <<>> /\ archive' = Tail(archive) /\ UNCHANGED <<copy, plan>>
        /\ \/ UnpackOne(e)
           \/ phase' = "failed" /\ dst' = dst
    BY <1>0 DEF UnpackNext
  <1>2. Planned(names)'
    BY <1>1, SamePlan
  <1>3. /\ archive \in Seq(Stored(names)) /\ \A a \in 1..L : EntryOK(archive[a], names)
        /\ \A f \in late : EntryOK(f, names)
    BY <1>0 DEF Unpacking, ArchiveOK
  <1>4. /\ \A f, i, n : IsEntry(f, i, n, names)' = IsEntry(f, i, n, names)
        /\ \A f : EntryOK(f, names)' = EntryOK(f, names) /\ Stored(names)' = Stored(names)
    BY <1>1, SameEntry
  <1>5. /\ \A i : Whole(i)' = Whole(i)
        /\ \A i, n : Lands(i, n)' = Lands(i, n)
        /\ SourcesDistinct' = SourcesDistinct
    BY <1>1, SameCopy
  <1>6. /\ L \in Nat \ {0} /\ archive[1] = e
        /\ Tail(archive) \in Seq(Stored(names)) /\ Len(Tail(archive)) = L - 1
        /\ \A a \in 1..L - 1 : Tail(archive)[a] = archive[a + 1]
    BY <1>0, <1>1, <1>3
  <1>7. /\ Len(archive') = L - 1 /\ archive' \in Seq(Stored(names))
        /\ \A a \in 1..L - 1 : archive'[a] = archive[a + 1]
    BY <1>1, <1>6
  <1>8. 1 \in 1..L /\ \A a \in 1..L - 1 : a + 1 \in 1..L
    BY <1>6
  <1>9. ArchiveOK(names)'
    <2>1. \A a \in 1..L - 1 : EntryOK(archive'[a], names)
      BY <1>3, <1>7, <1>8
    <2> QED
      BY <1>4, <1>7, <2>1 DEF ArchiveOK
  <1>10. \A i, n : Archived(i, n, names) => IsEntry(e, i, n, names) \/ Archived(i, n, names)'
    <2> SUFFICES ASSUME NEW i, NEW n, NEW a \in 1..L, IsEntry(archive[a], i, n, names)
                 PROVE  IsEntry(e, i, n, names) \/ Archived(i, n, names)'
      BY <1>0 DEF Archived
    <2>1. CASE a = 1
      BY <1>6, <2>1
    <2>2. CASE a # 1
      <3>1. a - 1 \in 1..L - 1 /\ (a - 1) + 1 = a
        BY <1>6, <2>2
      <3>2. archive'[a - 1] = archive[a]
        BY <1>7, <3>1
      <3> QED
        BY <1>4, <1>7, <3>1, <3>2 DEF Archived
    <2> QED
      BY <2>1, <2>2
  <1>11. PICK i \in DOMAIN copy.sources : \E n \in Whole(i) : IsEntry(e, i, n, names)
    <2>1. EntryOK(e, names)
      BY <1>3, <1>6, <1>8
    <2> QED
      BY <2>1 DEF EntryOK
  <1>12. PICK n \in Whole(i) : IsEntry(e, i, n, names)
    BY <1>11
  <1>13. CASE phase' = "failed" /\ dst' = dst
    BY <1>1, <1>2, <1>13, SameTree
  <1>14. CASE e.node.kind = "dir" /\ late' = late \cup {e} /\ dst' = dst
    <2>1. NothingElse'
      BY <1>1, <1>14, SameTree
    <2>2. \A f \in late' : EntryOK(f, names)'
      BY <1>3, <1>4, <1>6, <1>8, <1>14
    <2>3. ASSUME SourcesDistinct PROVE AllOnTheWay(names)'
      <3> SUFFICES ASSUME NEW j \in DOMAIN copy.sources, NEW c \in Whole(j)
                   PROVE  \/ Archived(j, c, names)' \/ (\E f \in late' : IsEntry(f, j, c, names)')
                          \/ InPlace(j, c)'
        BY <1>1, <1>5 DEF AllOnTheWay
      <3>1. Archived(j, c, names) \/ (\E f \in late : IsEntry(f, j, c, names)) \/ InPlace(j, c)
        BY <2>3 DEF Unpacking, AllOnTheWay
      <3>2. CASE Archived(j, c, names)
        BY <1>4, <1>10, <1>14, <3>2
      <3>3. CASE \E f \in late : IsEntry(f, j, c, names)
        BY <1>4, <1>14, <3>3
      <3>4. CASE InPlace(j, c)
        BY <1>1, <1>5, <1>14, <3>4 DEF InPlace
      <3> QED
        BY <3>1, <3>2, <3>3, <3>4
    <2> QED
      BY <1>2, <1>5, <1>9, <2>1, <2>2, <2>3 DEF Unpacking
  <1>15. CASE Unpack(plan.dir \o e.path, e.node) /\ late' = late
    <2>1. /\ NothingElse'
          /\ phase' = "unpack" =>
                /\ InPlace(i, n)'
                /\ SourcesDistinct => \A j \in DOMAIN copy.sources : \A c \in Whole(j) :
                                         InPlace(j, c) => InPlace(j, c)'
      BY <1>1, <1>12, <1>15, UnpackKeeps
    <2>2. \A f \in late' : EntryOK(f, names)'
      BY <1>3, <1>4, <1>15
    <2>3. ASSUME SourcesDistinct, phase' = "unpack" PROVE AllOnTheWay(names)'
      <3> SUFFICES ASSUME NEW j \in DOMAIN copy.sources, NEW c \in Whole(j)
                   PROVE  \/ Archived(j, c, names)' \/ (\E f \in late' : IsEntry(f, j, c, names)')
                          \/ InPlace(j, c)'
        BY <1>1, <1>5 DEF AllOnTheWay
      <3>1. Archived(j, c, names) \/ (\E f \in late : IsEntry(f, j, c, names)) \/ InPlace(j, c)
        BY <2>3 DEF Unpacking, AllOnTheWay
      <3>2. CASE IsEntry(e, j, c, names)
        <4>1. Lands(i, n) = Lands(j, c) /\ SourcesNamed
          BY <1>12, <3>2 DEF IsEntry, Planned
        <4>2. i = j /\ n = c
          BY <2>3, <4>1, LandsOnce
        <4> QED
          BY <2>1, <2>3, <4>2
      <3>3. CASE \E f \in late : IsEntry(f, j, c, names)
        BY <1>4, <1>15, <3>3
      <3>4. CASE InPlace(j, c)
        BY <2>1, <2>3, <3>4
      <3> QED
        BY <1>10, <3>1, <3>2, <3>3, <3>4
    <2> QED
      BY <1>2, <1>5, <1>9, <2>1, <2>2, <2>3 DEF Unpacking
  <1> QED
    BY <1>1, <1>13, <1>14, <1>15 DEF UnpackOne

\* A directory that waited for the end.
LEMMA UnpackDirectoryKeeps ==
    ASSUME NEW names, IsCopy(copy, names), Planned(names), Unpacking(names), NothingElse,
           NEW e \in late, UnpackDirectory(e)
    PROVE  Planned(names)' /\ NothingElse' /\ (phase' = "unpack" => Unpacking(names)')
  <1>1. /\ Unpack(plan.dir \o e.path, e.node) /\ late' = late \ {e} /\ UNCHANGED <<copy, plan, archive>>
    BY DEF UnpackDirectory
  <1>2. Planned(names)'
    BY <1>1, SamePlan
  <1>3. ArchiveOK(names)' /\ \A i, n : Archived(i, n, names)' = Archived(i, n, names)
    BY <1>1, SameArchive DEF Unpacking
  <1>4. /\ \A f, i, n : IsEntry(f, i, n, names)' = IsEntry(f, i, n, names)
        /\ \A f : EntryOK(f, names)' = EntryOK(f, names)
    BY <1>1, SameEntry
  <1>5. (\A i : Whole(i)' = Whole(i)) /\ SourcesDistinct' = SourcesDistinct
    BY <1>1, SameCopy
  <1>6. PICK i \in DOMAIN copy.sources : \E n \in Whole(i) : IsEntry(e, i, n, names)
    BY DEF Unpacking, EntryOK
  <1>7. PICK n \in Whole(i) : IsEntry(e, i, n, names)
    BY <1>6
  <1>8. /\ NothingElse'
        /\ phase' = "unpack" =>
             /\ InPlace(i, n)'
             /\ SourcesDistinct => \A j \in DOMAIN copy.sources : \A c \in Whole(j) :
                                      InPlace(j, c) => InPlace(j, c)'
    BY <1>1, <1>7, UnpackKeeps
  <1>9. \A f \in late' : EntryOK(f, names)'
    BY <1>1, <1>4 DEF Unpacking
  <1>10. ASSUME SourcesDistinct, phase' = "unpack" PROVE AllOnTheWay(names)'
    <2> SUFFICES ASSUME NEW j \in DOMAIN copy.sources, NEW c \in Whole(j)
                 PROVE  \/ Archived(j, c, names)' \/ (\E f \in late' : IsEntry(f, j, c, names)')
                        \/ InPlace(j, c)'
      BY <1>1, <1>5 DEF AllOnTheWay
    <2>1. Archived(j, c, names) \/ (\E f \in late : IsEntry(f, j, c, names)) \/ InPlace(j, c)
      BY <1>10 DEF Unpacking, AllOnTheWay
    <2>2. CASE IsEntry(e, j, c, names)
      <3>1. Lands(i, n) = Lands(j, c) /\ SourcesNamed
        BY <1>7, <2>2 DEF IsEntry, Planned
      <3>2. i = j /\ n = c
        BY <1>10, <3>1, LandsOnce
      <3> QED
        BY <1>8, <1>10, <3>2
    <2>3. CASE \E f \in late \ {e} : IsEntry(f, j, c, names)
      BY <1>1, <1>4, <2>3
    <2>4. CASE InPlace(j, c)
      BY <1>8, <1>10, <2>4
    <2> QED
      BY <1>3, <2>1, <2>2, <2>3, <2>4
  <1> QED
    BY <1>2, <1>3, <1>5, <1>8, <1>9, <1>10 DEF Unpacking

\* With the archive unpacked and the directories made, everything is in place.
LEMMA UnpackedKeeps ==
    ASSUME NEW names, Unpacking(names), SourcesDistinct, Unpacked
    PROVE  AllPlaced'
  <1>1. archive = <<>> /\ late = {} /\ UNCHANGED <<copy, dst>>
    BY DEF Unpacked
  <1>2. \A i, n : ~Archived(i, n, names)
    BY <1>1 DEF Archived
  <1>3. \A i \in DOMAIN copy.sources : \A n \in Whole(i) : InPlace(i, n)
    BY <1>1, <1>2 DEF Unpacking, AllOnTheWay
  <1>4. \A p \in CopyNodes : dst[Lands(p[1], p[2])] = copy.src[p[2]]
    <2> SUFFICES ASSUME NEW i \in DOMAIN copy.sources, NEW n \in Whole(i)
                 PROVE  dst[Lands(i, n)] = copy.src[n]
      BY NodesAre
    <2> QED
      BY <1>3 DEF InPlace
  <1> QED
    BY <1>1, <1>4, SameCopy DEF AllPlaced

-----------------------------------------------------------------------------
(* The steps of a copy together, and what follows.                        *)

\* A step before anything is archived.
LEMMA PlanKeeps ==
    ASSUME NEW names, CopyInv(names), ReadOperands \/ MakePlan \/ Request
    PROVE  CopyInv(names)'
  <1>1. /\ IsCopy(copy, names) /\ NothingElse /\ src = copy.src /\ dst = copy.dst
        /\ todo = <<>> /\ archive = <<>> /\ late = {}
        /\ UNCHANGED <<copy, src, dst, todo, archive, late>>
    BY DEF CopyInv, ReadOperands, MakePlan, Request
  <1>2. IsCopy(copy, names)' /\ NothingElse' /\ SourcesNamed' = SourcesNamed
    BY <1>1, SameTree, SameCopy
  <1>3. CASE ReadOperands
    BY <1>1, <1>2, <1>3 DEF CopyInv, ReadOperands
  <1>4. CASE MakePlan
    <2> DEFINE p == PlanForDestination(copy.dest.path, Kind # "download", PlanEntries)
    <2>1. plan' = p /\ phase' \in {"request", "failed"} /\ (phase' = "request" => p.dir # NoName) /\ SourcesNamed
      BY <1>4 DEF MakePlan, CopyInv
    <2>2. CASE phase' = "request"
      <3>1. (Kind # "download") \in BOOLEAN /\ plan'.dir # NoName
        BY <2>1, <2>2
      <3>2. /\ plan' = [dir |-> plan'.dir, entries |-> plan'.entries]
            /\ plan'.dir \in Seq(names) /\ \A i \in DOMAIN copy.sources : plan'.dir = Front(Target(i))
            /\ plan'.entries \in Seq({PlanEntry(i) : i \in DOMAIN copy.sources})
            /\ Len(plan'.entries) = Len(copy.sources)
            /\ \A k \in 1..Len(plan'.entries) : plan'.entries[k] = PlanEntry(k)
        BY <1>1, <2>1, <3>1, PlanMade
      <3>3. /\ \A i : Target(i)' = Target(i) /\ Last(Target(i))' = Last(Target(i))
            /\ \A i : PlanEntry(i)' = PlanEntry(i)
        BY <1>1, SameCopy DEF PlanEntry
      <3>4. Len(copy.sources) \in Nat /\ Len(plan'.entries) = Len(copy'.sources)
        BY <1>1, <3>2, ResolveIs
      <3>5. Taken' = 0
        BY <1>1, <3>2, <3>4 DEF Taken
      <3>6. \A k \in 1..Len(plan'.entries) : plan'.entries[k] = PlanEntry(Taken' + k)
        <4>1. \A k \in 1..Len(plan'.entries) : Taken' + k = k
          BY <3>4, <3>5
        <4> QED
          BY <3>2, <4>1
      <3>7. Len(plan'.entries) <= Len(copy'.sources)
        BY <1>1, <3>4
      <3>8. Planned(names)'
        BY <1>1, <1>2, <2>1, <3>2, <3>3, <3>6, <3>7 DEF Planned
      <3> QED
        BY <1>1, <1>2, <2>2, <3>5, <3>8 DEF CopyInv
    <2>3. CASE phase' = "failed"
      BY <1>1, <1>2, <2>3 DEF CopyInv
    <2> QED
      BY <2>1, <2>2, <2>3
  <1>5. CASE Request
    <2>1. plan' = plan /\ phase' \in {"archive", "failed"} /\ Planned(names) /\ Taken = 0
      BY <1>5 DEF Request, CopyInv
    <2>2. Planned(names)' /\ Taken' = 0
      BY <1>1, <2>1, SamePlan
    <2>3. Walking(names)'
      <3>1. archive' = <<>> /\ todo' = <<>> /\ src' = copy'.src /\ dst' = copy'.dst /\ late' = {}
        BY <1>1
      <3>2. ArchiveOK(names)' /\ TodoOK(names)'
        BY <3>1 DEF ArchiveOK, TodoOK
      <3>3. SrcOK'
        BY <3>1 DEF SrcOK
      <3>4. AllReached(names)'
        <4>1. Len(copy.sources) \in Nat /\ DOMAIN copy.sources = 1..Len(copy.sources)
          BY <1>1, ResolveIs
        <4>2. \A i \in DOMAIN copy'.sources : ~(i <= Taken')
          BY <1>1, <2>2, <4>1
        <4> QED
          BY <4>2 DEF AllReached
      <3> QED
        BY <3>1, <3>2, <3>3, <3>4 DEF Walking
    <2> QED
      BY <1>1, <1>2, <2>1, <2>2, <2>3 DEF CopyInv
  <1> QED
    BY <1>3, <1>4, <1>5

\* A step of the walk.
LEMMA WalkKeeps ==
    ASSUME NEW names, CopyInv(names),
           NextSource \/ AppendPath \/ OpenDestination \/ \E n \in DOMAIN src : Vanish(n)
    PROVE  CopyInv(names)'
  <1>1. /\ IsCopy(copy, names) /\ NothingElse /\ Planned(names) /\ Walking(names) /\ copy' = copy
        /\ phase = "archive"
    BY DEF CopyInv, NextSource, AppendPath, OpenDestination, Vanish
  <1>2. IsCopy(copy, names)'
    BY <1>1
  <1>3. CASE NextSource
    <2>1. phase' = "archive" /\ dst' = dst
      BY <1>1, <1>3 DEF NextSource
    <2>2. Planned(names)' /\ Walking(names)' /\ NothingElse'
      BY <1>1, <1>3, <2>1, NextSourceKeeps, SameTree
    <2> QED
      BY <1>2, <2>1, <2>2 DEF CopyInv
  <1>4. CASE AppendPath
    <2>1. phase' \in {"archive", "failed"} /\ dst' = dst
      BY <1>1, <1>4 DEF AppendPath
    <2>2. phase' = "archive" => Planned(names)' /\ Walking(names)'
      BY <1>1, <1>4, AppendKeeps
    <2>3. NothingElse'
      BY <1>1, <2>1, SameTree
    <2> QED
      BY <1>2, <2>1, <2>2, <2>3 DEF CopyInv
  <1>5. CASE OpenDestination
    <2>1. phase' \in {"unpack", "failed"}
      BY <1>5 DEF OpenDestination
    <2>2. Planned(names)' /\ NothingElse' /\ Unpacking(names)'
      BY <1>1, <1>5, OpenKeeps
    <2> QED
      BY <1>2, <2>1, <2>2 DEF CopyInv
  <1>6. CASE \E n \in DOMAIN src : Vanish(n)
    <2>1. phase' = "archive" /\ dst' = dst
      BY <1>1, <1>6 DEF Vanish
    <2>2. Planned(names)' /\ Walking(names)' /\ NothingElse'
      BY <1>1, <1>6, <2>1, VanishKeeps, SameTree
    <2> QED
      BY <1>2, <2>1, <2>2 DEF CopyInv
  <1> QED
    BY <1>3, <1>4, <1>5, <1>6

\* A step of the extraction.
LEMMA ExtractKeeps ==
    ASSUME NEW names, CopyInv(names), UnpackNext \/ Unpacked \/ \E e \in late : UnpackDirectory(e)
    PROVE  CopyInv(names)'
  <1>1. /\ IsCopy(copy, names) /\ NothingElse /\ Planned(names) /\ Unpacking(names) /\ copy' = copy
        /\ phase = "unpack"
    BY DEF CopyInv, UnpackNext, Unpacked, UnpackDirectory
  <1>2. IsCopy(copy, names)' /\ SourcesDistinct' = SourcesDistinct
    BY <1>1, SameCopy
  <1>3. CASE UnpackNext
    <2>1. phase' \in {"unpack", "failed"}
      BY <1>1, <1>3 DEF UnpackNext, UnpackOne, Unpack
    <2>2. Planned(names)' /\ NothingElse' /\ (phase' = "unpack" => Unpacking(names)')
      BY <1>1, <1>3, UnpackNextKeeps
    <2> QED
      BY <1>2, <2>1, <2>2 DEF CopyInv
  <1>4. CASE \E e \in late : UnpackDirectory(e)
    <2>1. phase' \in {"unpack", "failed"}
      BY <1>1, <1>4 DEF UnpackDirectory, Unpack
    <2>2. Planned(names)' /\ NothingElse' /\ (phase' = "unpack" => Unpacking(names)')
      BY <1>1, <1>4, UnpackDirectoryKeeps
    <2> QED
      BY <1>2, <2>1, <2>2 DEF CopyInv
  <1>5. CASE Unpacked
    <2>1. phase' = "done" /\ dst' = dst
      BY <1>5 DEF Unpacked
    <2>2. NothingElse'
      BY <1>1, <2>1, SameTree
    <2>3. SourcesDistinct => AllPlaced'
      BY <1>1, <1>5, UnpackedKeeps
    <2> QED
      BY <1>2, <2>1, <2>2, <2>3 DEF CopyInv
  <1> QED
    BY <1>3, <1>4, <1>5

\* The invariant of a copy, for any operands, trees, limits and orders of listing.
THEOREM CopyInvariance ==
    ASSUME NEW names, NEW copies, \A c \in copies : IsCopy(c, names)
    PROVE  CopySpec(copies) => []CopyInv(names)
  <1>1. CopyInit(copies) => CopyInv(names)
    <2> SUFFICES ASSUME CopyInit(copies) PROVE CopyInv(names)
      OBVIOUS
    <2>1. IsCopy(copy, names) /\ NothingElse
      BY DEF CopyInit, NothingElse
    <2> QED
      BY <2>1 DEF CopyInit, CopyInv
  <1>2. CopyInv(names) /\ [CopyNext]_copyVars => CopyInv(names)'
    <2> SUFFICES ASSUME CopyInv(names), [CopyNext]_copyVars PROVE CopyInv(names)'
      OBVIOUS
    <2>1. CASE CopyNext
      BY <2>1, PlanKeeps, WalkKeeps, ExtractKeeps DEF CopyNext
    <2>2. CASE UNCHANGED copyVars
      <3>1. UNCHANGED <<copy, phase, plan, src, dst, todo, archive, late>>
        BY <2>2 DEF copyVars
      <3>2. /\ IsCopy(copy, names)' /\ NothingElse'
            /\ SourcesDistinct' = SourcesDistinct /\ SourcesNamed' = SourcesNamed
        BY <3>1, SameTree, SameCopy DEF CopyInv
      <3>3. /\ Planned(names)' = Planned(names) /\ Taken' = Taken
            /\ ArchiveOK(names)' = ArchiveOK(names) /\ \A i, n : Archived(i, n, names)' = Archived(i, n, names)
        BY <3>1, SamePlan, SameArchive
      <3>4. /\ \A i : Source(i)' = Source(i) /\ Whole(i)' = Whole(i)
            /\ \A i, n : Lands(i, n)' = Lands(i, n)
            /\ CopyNodes' = CopyNodes
            /\ \A e, i, n : IsEntry(e, i, n, names)' = IsEntry(e, i, n, names)
            /\ \A e : EntryOK(e, names)' = EntryOK(e, names)
        BY <3>1, SameCopy, SameEntry
      <3>5. Walking(names) => Walking(names)'
        <4>1. TodoOK(names) => TodoOK(names)'
          BY <3>1, <3>3, <3>4 DEF TodoOK, Found
        <4>2. SrcOK => SrcOK'
          BY <3>1 DEF SrcOK
        <4>3. AllReached(names) => AllReached(names)'
          BY <3>1, <3>3, <3>4 DEF AllReached, Ahead
        <4> QED
          BY <3>1, <3>3, <4>1, <4>2, <4>3 DEF Walking
      <3>6. Unpacking(names) => Unpacking(names)'
        <4>1. AllOnTheWay(names) => AllOnTheWay(names)'
          BY <3>1, <3>3, <3>4 DEF AllOnTheWay, InPlace
        <4> QED
          BY <3>1, <3>2, <3>3, <3>4, <4>1 DEF Unpacking
      <3>7. AllPlaced => AllPlaced'
        BY <3>1, <3>4 DEF AllPlaced
      <3> QED
        BY <3>1, <3>2, <3>3, <3>5, <3>6, <3>7 DEF CopyInv
    <2> QED
      BY <2>1, <2>2
  <1> QED
    BY <1>1, <1>2, PTL DEF CopySpec

\* unpack_archive_limited: a copy, also one that fails on the way, leaves at the
\* destination what was there, except where a node of a source lands and but for
\* new directories above the targets.
THEOREM CopyElsewhere ==
    ASSUME NEW names, NEW copies, \A c \in copies : IsCopy(c, names)
    PROVE  CopySpec(copies) => []NothingElse
  <1>1. CopyInv(names) => NothingElse
    BY DEF CopyInv
  <1>2. CopySpec(copies) => []CopyInv(names)
    BY CopyInvariance
  <1> QED
    BY <1>1, <1>2, PTL

\* append_path_limited and unpack_archive_limited: when a copy is done, every node
\* of every source is where it belongs, in whatever order the directories were read
\* and made, if no two sources have the same name.
THEOREM CopyPlaces ==
    ASSUME NEW names, NEW copies, \A c \in copies : IsCopy(c, names)
    PROVE  CopySpec(copies) => [](phase = "done" /\ SourcesDistinct => AllPlaced)
  <1>1. CopyInv(names) => (phase = "done" /\ SourcesDistinct => AllPlaced)
    BY DEF CopyInv
  <1>2. CopySpec(copies) => []CopyInv(names)
    BY CopyInvariance
  <1> QED
    BY <1>1, <1>2, PTL
=============================================================================
