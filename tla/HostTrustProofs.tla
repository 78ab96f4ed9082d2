--------------------------- MODULE HostTrustProofs ---------------------------
(***************************************************************************)
(* Host identity and trust on first use, for any number of servers,        *)
(* clients, hosts, pairs and faults.                                       *)
(***************************************************************************)
EXTENDS HostTrust, TLAPS

\* A file whose contents were synced before it was renamed into place.
Whole(S) == [cur : S, synced : {TRUE}, disk : S]

-----------------------------------------------------------------------------
(* The servers.                                                           *)

Writing == {"cert", "certDir", "key", "keyDir"}
Contents == (-2..MaxPairs) \cup {None}

\* No file of the identity is ever torn, and a pair the operator provided comes
\* from the disk.
IdFiles ==
    /\ cert \in Whole(Contents) /\ key \in Whole(Contents)
    /\ cert.cur \in {-1, -2} => cert.disk = cert.cur
    /\ key.cur \in {-1, -2} => key.disk = key.cur

\* While a server writes its pair no other runs with the files, and it knows what
\* it wrote unless they were deleted meanwhile.
Writers ==
    \A s \in Servers : spc[s] \in Writing =>
        /\ pair[s] >= 1 /\ served = None
        /\ \A t \in Servers : ~Up(t)
        /\ since[s] = deletes =>
            /\ spc[s] # "cert" => cert.cur = pair[s]
            /\ spc[s] \in {"key", "keyDir"} => cert.disk = pair[s]
            /\ spc[s] = "keyDir" => key.cur = pair[s]

\* A pair that was served is in the files and on disk.
ServedKept ==
    served # None =>
        cert.cur = served /\ cert.disk = served /\ key.cur = served /\ key.disk = served

\* Nobody writes over the operator's pair.
ProvidedAlone ==
    (explicit /\ cert.disk = -1 /\ key.disk \in {-1, -2}) =>
        /\ cert.cur = -1 /\ key.cur = key.disk
        /\ \A s \in Servers : spc[s] \notin Writing

IdInv == IdTypeOK /\ IdFiles /\ Writers /\ ServedKept /\ ProvidedAlone /\ IdentityStable

-----------------------------------------------------------------------------
(* The clients.                                                           *)

\* known_hosts is never torn.
PinFile == known \in Whole(Pins \cup {None})

\* A client whose check goes on has a host and its fingerprint.
Checking ==
    \A c \in Clients :
        /\ cpc[c] \in {"lock", "check", "save", "saveDir", "accepted"} =>
            conn[c].host \in Hosts /\ conn[c].print \in Prints
        /\ cpc[c] \in {"lock", "save", "saveDir"} => trust[c] = "tofu"
        /\ cpc[c] = "check" => trust[c] \in {"tofu", "knownOnly"}

\* What a client saves is the file as it is and its own pin, or the file was
\* removed and nothing was pinned since.
Saving ==
    \A c \in Clients :
        /\ cpc[c] = "save" =>
            IF asOf[c] = forgets THEN entries[c] = Inserted(c) /\ Read[conn[c].host] = NoPrint
                                 ELSE known.cur = None
        /\ cpc[c] = "saveDir" /\ asOf[c] = forgets => Read[conn[c].host] = conn[c].print

KhInv == KhTypeOK /\ PinFile /\ Checking /\ Saving /\ AcceptedIsPinned

-----------------------------------------------------------------------------
(* Both.                                                                  *)

\* The files are the pair v and on disk, and nobody is about to replace them.
Settled(v) ==
    /\ v \in -2..MaxPairs
    /\ cert.cur = v /\ cert.disk = v /\ key.cur = v /\ key.disk = v
    /\ \A s \in Servers : spc[s] \notin Writing

\* Those pins, if they are any, are of the settled pair.
PinSettled(pins) == pins \in Pins /\ pins["srv"] # NoPrint => Settled(pins["srv"])

\* As long as nothing was deleted and no server was hasty, whatever "srv" presents,
\* whatever it presented to a client and whatever is pinned for it is the pair in
\* the files.
Agreed ==
    (deletes = 0 /\ ~loose) =>
        /\ \A s \in Servers : spc[s] = "up" => Settled(pair[s])
        /\ \A c \in Clients : conn[c].host = "srv" => Settled(conn[c].print)
        /\ PinSettled(known.cur) /\ PinSettled(known.disk)
        /\ \A c \in Clients : PinSettled(entries[c])

IInv == IdInv /\ KhInv /\ losses \in 0..MaxFaults /\ Agreed /\ NoFalseAlarm
-----------------------------------------------------------------------------
(* Files that are replaced atomically.                                    *)

\* A file that is given has its contents.
LEMMA HoldingWhole ==
    ASSUME NEW S, NEW v \in S
    PROVE  Holding(v) \in Whole(S) /\ Holding(v).cur = v /\ Holding(v).disk = v
  BY DEF Holding, Whole

\* The rename replaces the contents; the disk has the old ones.
LEMMA RenamedWhole ==
    ASSUME NEW S, NEW f \in Whole(S), NEW v \in S
    PROVE  Renamed(f, v) \in Whole(S) /\ Renamed(f, v).cur = v /\ Renamed(f, v).disk = f.disk
  BY DEF Renamed, Whole

\* The sync of the directory brings them to disk.
LEMMA DirSyncedWhole ==
    ASSUME NEW S, NEW f \in Whole(S)
    PROVE  DirSynced(f) \in Whole(S) /\ DirSynced(f).cur = f.cur /\ DirSynced(f).disk = f.cur
  BY DEF DirSynced, Kept, Whole

\* A power loss leaves the new or the old contents, never torn ones.
LEMMA AfterLossWhole ==
    ASSUME NEW S, NEW f \in Whole(S), NEW g \in AfterLoss(f)
    PROVE  g \in Whole(S) /\ g.cur = g.disk /\ g.disk \in {f.disk, f.cur}
  <1>1. f.synced = TRUE /\ f.cur \in S /\ f.disk \in S
    BY DEF Whole
  <1>2. PICK v \in {f.disk, f.cur} : g = Holding(v)
    BY <1>1 DEF AfterLoss, Kept
  <1> QED
    BY <1>1, <1>2, HoldingWhole

-----------------------------------------------------------------------------
(* The servers.                                                           *)

\* The files of the identity hold a pair or nothing.
LEMMA IdContents ==
    ASSUME IdInv
    PROVE  cert.cur \in Contents /\ cert.disk \in Contents /\ key.cur \in Contents /\ key.disk \in Contents
  BY DEF IdInv, IdFiles, Whole

\* Starting, locking and leaving preserve the invariant of the servers.
LEMMA StartSteps ==
    ASSUME IdInv, NEW s \in Servers, Start(s) \/ Lock(s) \/ IdError(s) \/ IdStop(s)
    PROVE  IdInv'
  <1>1. CASE Start(s)
    <2>1. IdFiles'
      BY <1>1, IdContents, HostIdentityAssumption DEF Start, idFiles, IdInv, IdFiles
    <2>2. IdTypeOK'
      BY <1>1, IdContents, HostIdentityAssumption
      DEF Start, Goto, idFiles, IdInv, IdTypeOK, Working
    <2>3. Writers'
      BY <1>1, IdContents, HostIdentityAssumption
      DEF Start, Goto, idFiles, IdInv, Writers, Writing, Up
    <2>4. ServedKept'
      BY <1>1, IdContents, HostIdentityAssumption DEF Start, idFiles, IdInv, ServedKept
    <2>5. ProvidedAlone'
      BY <1>1, IdContents, HostIdentityAssumption
      DEF Start, Goto, idFiles, IdInv, ProvidedAlone, Writing
    <2>6. IdentityStable'
      BY <1>1, IdContents, HostIdentityAssumption
      DEF Start, Goto, idFiles, IdInv, IdentityStable, Up
    <2> QED
      BY <2>1, <2>2, <2>3, <2>4, <2>5, <2>6 DEF IdInv
  <1>2. CASE Lock(s)
    <2>1. IdFiles'
      BY <1>2, IdContents, HostIdentityAssumption DEF Lock, idFiles, IdInv, IdFiles
    <2>2. IdTypeOK'
      BY <1>2, IdContents, HostIdentityAssumption
      DEF Lock, Goto, idFiles, IdInv, IdTypeOK, Working
    <2>3. Writers'
      BY <1>2, IdContents, HostIdentityAssumption
      DEF Lock, Goto, IdInv, IdTypeOK, Writers, Writing
    <2>4. ServedKept'
      BY <1>2, IdContents, HostIdentityAssumption DEF Lock, idFiles, IdInv, ServedKept
    <2>5. ProvidedAlone'
      BY <1>2, IdContents, HostIdentityAssumption
      DEF Lock, Goto, idFiles, IdInv, ProvidedAlone, Writing
    <2>6. IdentityStable'
      BY <1>2, IdContents, HostIdentityAssumption
      DEF Lock, Goto, idFiles, IdInv, IdentityStable, Up
    <2> QED
      BY <2>1, <2>2, <2>3, <2>4, <2>5, <2>6 DEF IdInv
  <1>3. CASE IdError(s)
    <2>1. IdFiles'
      BY <1>3, IdContents, HostIdentityAssumption DEF IdError, Leave, idFiles, IdInv, IdFiles
    <2>2. IdTypeOK'
      BY <1>3, IdContents, HostIdentityAssumption
      DEF IdError, Leave, Goto, Unlocked, idFiles, IdInv, IdTypeOK, Working
    <2>3. Writers'
      BY <1>3, IdContents, HostIdentityAssumption
      DEF IdError, Leave, Goto, idFiles, IdInv, IdTypeOK, Writers, Writing, Up
    <2>4. ServedKept'
      BY <1>3, IdContents, HostIdentityAssumption DEF IdError, Leave, idFiles, IdInv, ServedKept
    <2>5. ProvidedAlone'
      BY <1>3, IdContents, HostIdentityAssumption
      DEF IdError, Leave, Goto, idFiles, IdInv, ProvidedAlone, Writing
    <2>6. IdentityStable'
      BY <1>3, IdContents, HostIdentityAssumption
      DEF IdError, Leave, Goto, idFiles, IdInv, IdentityStable, Working, Up
    <2> QED
      BY <2>1, <2>2, <2>3, <2>4, <2>5, <2>6 DEF IdInv
  <1>4. CASE IdStop(s)
    <2>1. IdFiles'
      BY <1>4, IdContents, HostIdentityAssumption DEF IdStop, Leave, idFiles, IdInv, IdFiles
    <2>2. IdTypeOK'
      BY <1>4, IdContents, HostIdentityAssumption
      DEF IdStop, Leave, Goto, Unlocked, idFiles, IdInv, IdTypeOK, Working
    <2>3. Writers'
      BY <1>4, IdContents, HostIdentityAssumption
      DEF IdStop, Leave, Goto, idFiles, IdInv, IdTypeOK, Writers, Writing, Up
    <2>4. ServedKept'
      BY <1>4, IdContents, HostIdentityAssumption DEF IdStop, Leave, idFiles, IdInv, ServedKept
    <2>5. ProvidedAlone'
      BY <1>4, IdContents, HostIdentityAssumption
      DEF IdStop, Leave, Goto, idFiles, IdInv, ProvidedAlone, Writing
    <2>6. IdentityStable'
      BY <1>4, IdContents, HostIdentityAssumption
      DEF IdStop, Leave, Goto, idFiles, IdInv, IdTypeOK, IdentityStable, Up
    <2> QED
      BY <2>1, <2>2, <2>3, <2>4, <2>5, <2>6 DEF IdInv
  <1> QED
    BY <1>1, <1>2, <1>3, <1>4

\* A server takes up the pair in the files, refuses it, or begins to write one of its
\* own where nobody runs with them.
LEMMA ReadStep ==
    ASSUME IdInv, NEW s \in Servers, ReadPair(s)
    PROVE  IdInv'
  <1>1. spc[s] = "read" /\ UNCHANGED <<explicit, cert, key, deletes, served>>
    BY DEF ReadPair, idFiles
  <1>2. CASE /\ ValidPair /\ spc' = [spc EXCEPT ![s] = "up"] /\ pair' = [pair EXCEPT ![s] = cert.cur]
           /\ since' = [since EXCEPT ![s] = deletes] /\ made' = made /\ idLock' = Unlocked(s)
           /\ loose' = (loose \/ cert.disk # cert.cur \/ key.disk # key.cur)
    <2>1. IdFiles'
      BY <1>1, <1>2, IdContents, HostIdentityAssumption DEF IdInv, IdFiles
    <2>2. IdTypeOK'
      BY <1>1, <1>2, IdContents, HostIdentityAssumption
      DEF ValidPair, Present, Unlocked, IdInv, IdTypeOK, Working
    <2>3. Writers'
      BY <1>1, <1>2, IdContents, HostIdentityAssumption DEF IdInv, IdTypeOK, Writers, Writing
    <2>4. ServedKept'
      BY <1>1, <1>2, IdContents, HostIdentityAssumption DEF IdInv, ServedKept
    <2>5. ProvidedAlone'
      BY <1>1, <1>2, IdContents, HostIdentityAssumption DEF IdInv, ProvidedAlone, Writing
    <2>6. IdentityStable'
      BY <1>1, <1>2, IdContents, HostIdentityAssumption
      DEF ValidPair, IdInv, IdTypeOK, ServedKept, IdentityStable, Up
    <2> QED
      BY <2>1, <2>2, <2>3, <2>4, <2>5, <2>6 DEF IdInv
  <1>3. CASE /\ spc' = [spc EXCEPT ![s] = "failed"] /\ idLock' = Unlocked(s)
             /\ UNCHANGED <<pair, made, since, loose>>
    <2>1. IdFiles'
      BY <1>1, <1>3, IdContents, HostIdentityAssumption DEF IdInv, IdFiles
    <2>2. IdTypeOK'
      BY <1>1, <1>3, IdContents, HostIdentityAssumption DEF Unlocked, IdInv, IdTypeOK, Working
    <2>3. Writers'
      BY <1>1, <1>3, IdContents, HostIdentityAssumption DEF IdInv, Writers, Writing, Up
    <2>4. ServedKept'
      BY <1>1, <1>3, IdContents, HostIdentityAssumption DEF IdInv, ServedKept
    <2>5. ProvidedAlone'
      BY <1>1, <1>3, IdContents, HostIdentityAssumption DEF IdInv, ProvidedAlone, Writing
    <2>6. IdentityStable'
      BY <1>1, <1>3, IdContents, HostIdentityAssumption DEF IdInv, IdentityStable, Up
    <2> QED
      BY <2>1, <2>2, <2>3, <2>4, <2>5, <2>6 DEF IdInv
  <1>4. CASE /\ ~ValidPair /\ ~RefusesPair /\ made < MaxPairs /\ made' = made + 1
           /\ pair' = [pair EXCEPT ![s] = made + 1] /\ since' = [since EXCEPT ![s] = deletes]
           /\ spc' = [spc EXCEPT ![s] = "cert"] /\ UNCHANGED <<idLock, loose>>
    <2>1. IdFiles'
      BY <1>1, <1>4, IdContents, HostIdentityAssumption DEF IdInv, IdFiles
    <2>2. IdTypeOK'
      BY <1>1, <1>4, IdContents, HostIdentityAssumption DEF IdInv, IdTypeOK, Working
    <2>3. Writers'
      BY <1>1, <1>4, IdContents, HostIdentityAssumption
      DEF ValidPair, Present, IdInv, IdTypeOK, Writers, ServedKept, IdentityStable, Up
    <2>4. ServedKept'
      BY <1>1, <1>4, IdContents, HostIdentityAssumption DEF IdInv, ServedKept
    <2>5. ProvidedAlone'
      BY <1>1, <1>4, IdContents, HostIdentityAssumption
      DEF RefusesPair, Present, IdInv, ProvidedAlone
    <2>6. IdentityStable'
      BY <1>1, <1>4, IdContents, HostIdentityAssumption DEF IdInv, IdentityStable, Up
    <2> QED
      BY <2>1, <2>2, <2>3, <2>4, <2>5, <2>6 DEF IdInv
  <1> QED
    BY <1>2, <1>3, <1>4 DEF ReadPair, Goto

\* A server that writes its pair preserves the invariant of the servers.
LEMMA WriteSteps ==
    ASSUME IdInv, NEW s \in Servers, RenameCert(s) \/ SyncCert(s) \/ RenameKey(s) \/ SyncKey(s)
    PROVE  IdInv'
  <1>1. CASE RenameCert(s)
    <2>1. cert' \in Whole(Contents) /\ cert'.cur = pair[s] /\ cert'.disk = cert.disk
      BY <1>1, RenamedWhole DEF RenameCert, IdInv, IdTypeOK, IdFiles, Contents
    <2>2. IdFiles'
      BY <1>1, <2>1, IdContents, HostIdentityAssumption
      DEF RenameCert, IdInv, IdFiles, Writers, Writing
    <2>3. IdTypeOK'
      BY <1>1, <2>1, IdContents, HostIdentityAssumption
      DEF RenameCert, Goto, IdInv, IdTypeOK, Working
    <2>4. Writers'
      BY <1>1, <2>1, IdContents, HostIdentityAssumption
      DEF RenameCert, Goto, IdInv, IdTypeOK, Writers, Writing, Up
    <2>5. ServedKept'
      BY <1>1, <2>1, IdContents, HostIdentityAssumption
      DEF RenameCert, IdInv, Writers, ServedKept, Writing
    <2>6. ProvidedAlone'
      BY <1>1, <2>1, IdContents, HostIdentityAssumption
      DEF RenameCert, IdInv, ProvidedAlone, Writing
    <2>7. IdentityStable'
      BY <1>1, <2>1, IdContents, HostIdentityAssumption
      DEF RenameCert, Goto, IdInv, Writers, IdentityStable, Writing, Up
    <2> QED
      BY <2>2, <2>3, <2>4, <2>5, <2>6, <2>7 DEF IdInv
  <1>2. CASE SyncCert(s)
    <2>1. cert' \in Whole(Contents) /\ cert'.cur = cert.cur /\ cert'.disk = cert.cur
      BY <1>2, DirSyncedWhole DEF SyncCert, IdInv, IdFiles
    <2>2. IdFiles'
      BY <1>2, <2>1, IdContents, HostIdentityAssumption DEF SyncCert, IdInv, IdFiles
    <2>3. IdTypeOK'
      BY <1>2, <2>1, IdContents, HostIdentityAssumption
      DEF SyncCert, Goto, IdInv, IdTypeOK, Working
    <2>4. Writers'
      BY <1>2, <2>1, IdContents, HostIdentityAssumption
      DEF SyncCert, Goto, IdInv, Writers, Writing, Up
    <2>5. ServedKept'
      BY <1>2, <2>1, IdContents, HostIdentityAssumption DEF SyncCert, IdInv, ServedKept
    <2>6. ProvidedAlone'
      BY <1>2, <2>1, IdContents, HostIdentityAssumption
      DEF SyncCert, IdInv, IdFiles, ProvidedAlone, Writing
    <2>7. IdentityStable'
      BY <1>2, <2>1, IdContents, HostIdentityAssumption
      DEF SyncCert, Goto, IdInv, IdentityStable, Up
    <2> QED
      BY <2>2, <2>3, <2>4, <2>5, <2>6, <2>7 DEF IdInv
  <1>3. CASE RenameKey(s)
    <2>1. key' \in Whole(Contents) /\ key'.cur = pair[s] /\ key'.disk = key.disk
      BY <1>3, RenamedWhole DEF RenameKey, IdInv, IdTypeOK, IdFiles, Contents
    <2>2. IdFiles'
      BY <1>3, <2>1, IdContents, HostIdentityAssumption
      DEF RenameKey, IdInv, IdFiles, Writers, Writing
    <2>3. IdTypeOK'
      BY <1>3, <2>1, IdContents, HostIdentityAssumption
      DEF RenameKey, Goto, IdInv, IdTypeOK, Working
    <2>4. Writers'
      BY <1>3, <2>1, IdContents, HostIdentityAssumption
      DEF RenameKey, Goto, IdInv, IdTypeOK, Writers, Writing, Up
    <2>5. ServedKept'
      BY <1>3, <2>1, IdContents, HostIdentityAssumption
      DEF RenameKey, IdInv, Writers, ServedKept, Writing
    <2>6. ProvidedAlone'
      BY <1>3, <2>1, IdContents, HostIdentityAssumption
      DEF RenameKey, IdInv, ProvidedAlone, Writing
    <2>7. IdentityStable'
      BY <1>3, <2>1, IdContents, HostIdentityAssumption
      DEF RenameKey, Goto, IdInv, Writers, IdentityStable, Writing, Up
    <2> QED
      BY <2>2, <2>3, <2>4, <2>5, <2>6, <2>7 DEF IdInv
  <1>4. CASE SyncKey(s)
    <2>1. key' \in Whole(Contents) /\ key'.cur = key.cur /\ key'.disk = key.cur
      BY <1>4, DirSyncedWhole DEF SyncKey, IdInv, IdFiles
    <2>2. IdFiles'
      BY <1>4, <2>1, IdContents, HostIdentityAssumption DEF SyncKey, IdInv, IdFiles
    <2>3. IdTypeOK'
      BY <1>4, <2>1, IdContents, HostIdentityAssumption
      DEF SyncKey, Goto, Unlocked, IdInv, IdTypeOK, Writers, Working, Writing
    <2>4. Writers'
      BY <1>4, <2>1, IdContents, HostIdentityAssumption
      DEF SyncKey, Goto, IdInv, IdTypeOK, Writers, Writing
    <2>5. ServedKept'
      BY <1>4, <2>1, IdContents, HostIdentityAssumption
      DEF SyncKey, IdInv, Writers, ServedKept, Writing
    <2>6. ProvidedAlone'
      BY <1>4, <2>1, IdContents, HostIdentityAssumption
      DEF SyncKey, IdInv, IdFiles, ProvidedAlone, Writing
    <2>7. IdentityStable'
      BY <1>4, <2>1, IdContents, HostIdentityAssumption
      DEF SyncKey, Goto, IdInv, Writers, IdentityStable, Writing, Up
    <2> QED
      BY <2>2, <2>3, <2>4, <2>5, <2>6, <2>7 DEF IdInv
  <1> QED
    BY <1>1, <1>2, <1>3, <1>4

\* The operator removes a file.
LEMMA DeleteStep ==
    ASSUME IdInv, DeleteIdentity
    PROVE  IdInv'
  <1>1. \/ cert' \in Whole(Contents) /\ cert'.cur = None /\ cert'.disk = None /\ key' = key
        \/ key' \in Whole(Contents) /\ key'.cur = None /\ key'.disk = None /\ cert' = cert
    BY HoldingWhole DEF DeleteIdentity, Contents
  <1>2. IdFiles'
    BY <1>1, IdContents, HostIdentityAssumption DEF DeleteIdentity, IdInv, IdFiles
  <1>3. IdTypeOK'
    BY <1>1, IdContents, HostIdentityAssumption DEF DeleteIdentity, IdInv, IdTypeOK
  <1>4. Writers'
    BY <1>1, IdContents, HostIdentityAssumption DEF DeleteIdentity, IdInv, IdTypeOK, Writers, Up
  <1>5. ServedKept'
    BY <1>1, IdContents, HostIdentityAssumption
    DEF DeleteIdentity, IdTypeOK, IdFiles, Writers, ServedKept, ProvidedAlone, IdentityStable,
        Working, Writing, Up
  <1>6. ProvidedAlone'
    BY <1>1, IdContents, HostIdentityAssumption
    DEF DeleteIdentity, IdTypeOK, IdFiles, Writers, ServedKept, ProvidedAlone, IdentityStable,
        Working
  <1>7. IdentityStable'
    BY <1>1, IdContents, HostIdentityAssumption
    DEF DeleteIdentity, IdInv, IdTypeOK, IdentityStable, Up
  <1> QED
    BY <1>2, <1>3, <1>4, <1>5, <1>6, <1>7 DEF IdInv

\* The servers' machine loses power.
LEMMA IdLossStep ==
    ASSUME IdInv, IdPowerLoss
    PROVE  IdInv'
  <1>1. /\ cert' \in Whole(Contents) /\ cert'.cur = cert'.disk /\ cert'.disk \in {cert.disk, cert.cur}
        /\ key' \in Whole(Contents) /\ key'.cur = key'.disk /\ key'.disk \in {key.disk, key.cur}
    BY AfterLossWhole DEF IdPowerLoss, IdInv, IdFiles
  <1>2. IdFiles'
    BY <1>1, IdContents, HostIdentityAssumption
    DEF IdPowerLoss, IdTypeOK, IdFiles, Writers, ServedKept, ProvidedAlone, IdentityStable,
        Working, Writing, Up
  <1>3. IdTypeOK'
    BY <1>1, IdContents, HostIdentityAssumption DEF IdPowerLoss, IdInv, IdTypeOK, Working
  <1>4. Writers'
    BY <1>1, IdContents, HostIdentityAssumption
    DEF IdPowerLoss, IdTypeOK, IdFiles, Writers, ServedKept, ProvidedAlone, IdentityStable,
        Working, Writing
  <1>5. ServedKept'
    BY <1>1, IdContents, HostIdentityAssumption DEF IdPowerLoss, IdInv, ServedKept
  <1>6. ProvidedAlone'
    BY <1>1, IdContents, HostIdentityAssumption
    DEF IdPowerLoss, IdTypeOK, IdFiles, Writers, ServedKept, ProvidedAlone, IdentityStable,
        Working, Writing, Up
  <1>7. IdentityStable'
    BY <1>1, IdContents, HostIdentityAssumption
    DEF IdPowerLoss, IdTypeOK, IdFiles, Writers, ServedKept, ProvidedAlone, IdentityStable,
        Working, Writing, Up
  <1> QED
    BY <1>2, <1>3, <1>4, <1>5, <1>6, <1>7 DEF IdInv

\* The invariant of the servers.
LEMMA IdSteps ==
    ASSUME IdInv, NEW s \in Servers, IdStep(s)
    PROVE  IdInv'
  BY StartSteps, ReadStep, WriteSteps DEF IdStep

-----------------------------------------------------------------------------
(* The clients.                                                           *)

\* known_hosts holds pins or nothing.
LEMMA KhContents ==
    ASSUME KhInv
    PROVE  /\ known.cur \in Pins \cup {None} /\ known.disk \in Pins \cup {None}
           /\ Torn \notin Pins \cup {None} /\ Read \in Pins
  <1>1. known.cur \in Pins \cup {None} /\ known.disk \in Pins \cup {None}
    BY DEF KhInv, PinFile, Whole
  <1>2. Torn \notin Pins \cup {None}
    BY KnownHostsAssumption, AtomicFileAssumption
  <1>3. Read \in Pins
    BY <1>1 DEF Read, NoPins, Pins
  <1> QED
    BY <1>1, <1>2, <1>3

\* Beginning a check, locking and leaving preserve the invariant of the clients.
LEMMA AskSteps ==
    ASSUME KhInv, NEW c \in Clients, NEW h \in Hosts, NEW fp \in Prints,
           CheckOrInsert(c, h, fp) \/ LockPins(c) \/ KhError(c) \/ KhStop(c)
    PROVE  KhInv'
  <1>1. CASE CheckOrInsert(c, h, fp)
    <2>1. KhTypeOK'
      BY <1>1, KhContents, KnownHostsAssumption DEF CheckOrInsert, Step, KhInv, KhTypeOK, Trusts
    <2>2. PinFile'
      BY <1>1, KhContents, KnownHostsAssumption DEF CheckOrInsert, Step, KhInv, PinFile
    <2>3. Checking'
      BY <1>1, KhContents, KnownHostsAssumption
      DEF CheckOrInsert, Step, KhInv, KhTypeOK, Checking, Trusts
    <2>4. Saving'
      BY <1>1, KhContents, KnownHostsAssumption
      DEF CheckOrInsert, Step, KhInv, PinFile, Checking, Saving, Read, Inserted, Trusts
    <2>5. AcceptedIsPinned'
      BY <1>1, KhContents, KnownHostsAssumption
      DEF CheckOrInsert, Step, KhInv, KhTypeOK, Checking, AcceptedIsPinned, Readable, Read, Trusts
    <2> QED
      BY <2>1, <2>2, <2>3, <2>4, <2>5 DEF KhInv
  <1>2. CASE LockPins(c)
    <2>1. KhTypeOK'
      BY <1>2, KhContents, KnownHostsAssumption DEF LockPins, Step, KhInv, KhTypeOK, Checking
    <2>2. PinFile'
      BY <1>2, KhContents, KnownHostsAssumption DEF LockPins, Step, KhInv, PinFile
    <2>3. Checking'
      BY <1>2, KhContents, KnownHostsAssumption DEF LockPins, Step, KhInv, Checking
    <2>4. Saving'
      BY <1>2, KhContents, KnownHostsAssumption
      DEF LockPins, Step, KhInv, Saving, AcceptedIsPinned, Read, Inserted
    <2>5. AcceptedIsPinned'
      BY <1>2, KhContents, KnownHostsAssumption
      DEF LockPins, Step, KhInv, AcceptedIsPinned, Readable, Read
    <2> QED
      BY <2>1, <2>2, <2>3, <2>4, <2>5 DEF KhInv
  <1>3. CASE KhError(c)
    <2>1. KhTypeOK'
      BY <1>3, KhContents, KnownHostsAssumption
      DEF KhError, Drop, Step, PinsUnlocked, KhInv, KhTypeOK, NoPins, Pins, Trusts, NoConn
    <2>2. PinFile'
      BY <1>3, KhContents, KnownHostsAssumption DEF KhError, Drop, Step, KhInv, PinFile
    <2>3. Checking'
      BY <1>3, KhContents, KnownHostsAssumption DEF KhError, Drop, Step, KhInv, KhTypeOK, Checking
    <2>4. Saving'
      BY <1>3, KhContents, KnownHostsAssumption
      DEF KhError, Drop, Step, KhInv, KhTypeOK, Saving, Read, Inserted
    <2>5. AcceptedIsPinned'
      BY <1>3, KhContents, KnownHostsAssumption
      DEF KhError, Drop, Step, KhInv, AcceptedIsPinned, Readable, Read
    <2> QED
      BY <2>1, <2>2, <2>3, <2>4, <2>5 DEF KhInv
  <1>4. CASE KhStop(c)
    <2>1. KhTypeOK'
      BY <1>4, KhContents, KnownHostsAssumption
      DEF KhStop, Drop, Step, PinsUnlocked, KhInv, KhTypeOK, NoPins, Pins, Trusts, NoConn
    <2>2. PinFile'
      BY <1>4, KhContents, KnownHostsAssumption DEF KhStop, Drop, Step, KhInv, PinFile
    <2>3. Checking'
      BY <1>4, KhContents, KnownHostsAssumption DEF KhStop, Drop, Step, KhInv, KhTypeOK, Checking
    <2>4. Saving'
      BY <1>4, KhContents, KnownHostsAssumption
      DEF KhStop, Drop, Step, KhInv, KhTypeOK, Saving, Read, Inserted
    <2>5. AcceptedIsPinned'
      BY <1>4, KhContents, KnownHostsAssumption
      DEF KhStop, Drop, Step, KhInv, KhTypeOK, AcceptedIsPinned, Readable, Read
    <2> QED
      BY <2>1, <2>2, <2>3, <2>4, <2>5 DEF KhInv
  <1> QED
    BY <1>1, <1>2, <1>3, <1>4

\* A client looks its host up.
LEMMA CheckStep ==
    ASSUME KhInv, NEW c \in Clients, Check(c)
    PROVE  KhInv'
  <1> DEFINE old == Read[conn[c].host]
  <1>1. /\ UNCHANGED <<known, forgets, conn, trust>> /\ asOf' = [asOf EXCEPT ![c] = forgets]
        /\ cpc[c] = "check" /\ trust[c] \in {"tofu", "knownOnly"}
        /\ conn[c].host \in Hosts /\ conn[c].print \in Prints
    BY DEF Check, KhInv, Checking
  <1>2. Read' = Read /\ Inserted(c)' = Inserted(c) /\ Inserted(c) \in Pins
    BY <1>1, KhContents DEF Read, Inserted, Pins
  <1>3. CASE /\ cpc' = [cpc EXCEPT ![c] = "accepted"] /\ khLock' = PinsUnlocked(c)
             /\ UNCHANGED entries /\ old = conn[c].print
    <2>1. KhTypeOK'
      BY <1>1, <1>2, <1>3, KhContents, KnownHostsAssumption DEF PinsUnlocked, KhInv, KhTypeOK
    <2>2. PinFile'
      BY <1>1, <1>2, <1>3, KhContents, KnownHostsAssumption DEF KhInv, PinFile
    <2>3. Checking'
      BY <1>1, <1>2, <1>3, KhContents, KnownHostsAssumption DEF KhInv, Checking
    <2>4. Saving'
      BY <1>1, <1>2, <1>3, KhContents, KnownHostsAssumption DEF KhInv, KhTypeOK, Saving, Inserted
    <2>5. AcceptedIsPinned'
      BY <1>1, <1>2, <1>3, KhContents, KnownHostsAssumption DEF KhInv, AcceptedIsPinned, Readable
    <2> QED
      BY <2>1, <2>2, <2>3, <2>4, <2>5 DEF KhInv
  <1>4. CASE cpc' = [cpc EXCEPT ![c] = "mismatch"] /\ khLock' = PinsUnlocked(c) /\ UNCHANGED entries
    <2>1. KhTypeOK'
      BY <1>1, <1>2, <1>4, KhContents, KnownHostsAssumption DEF PinsUnlocked, KhInv, KhTypeOK
    <2>2. PinFile'
      BY <1>1, <1>2, <1>4, KhContents, KnownHostsAssumption DEF KhInv, PinFile
    <2>3. Checking'
      BY <1>1, <1>2, <1>4, KhContents, KnownHostsAssumption DEF KhInv, Checking
    <2>4. Saving'
      BY <1>1, <1>2, <1>4, KhContents, KnownHostsAssumption DEF KhInv, KhTypeOK, Saving, Inserted
    <2>5. AcceptedIsPinned'
      BY <1>1, <1>2, <1>4, KhContents, KnownHostsAssumption DEF KhInv, AcceptedIsPinned, Readable
    <2> QED
      BY <2>1, <2>2, <2>3, <2>4, <2>5 DEF KhInv
  <1>5. CASE cpc' = [cpc EXCEPT ![c] = "refused"] /\ UNCHANGED <<khLock, entries>> /\ trust[c] = "knownOnly"
    <2>1. KhTypeOK'
      BY <1>1, <1>2, <1>5, KhContents, KnownHostsAssumption DEF KhInv, KhTypeOK
    <2>2. PinFile'
      BY <1>1, <1>2, <1>5, KhContents, KnownHostsAssumption DEF KhInv, PinFile
    <2>3. Checking'
      BY <1>1, <1>2, <1>5, KhContents, KnownHostsAssumption DEF KhInv, Checking
    <2>4. Saving'
      BY <1>1, <1>2, <1>5, KhContents, KnownHostsAssumption DEF KhInv, KhTypeOK, Saving, Inserted
    <2>5. AcceptedIsPinned'
      BY <1>1, <1>2, <1>5, KhContents, KnownHostsAssumption DEF KhInv, AcceptedIsPinned, Readable
    <2> QED
      BY <2>1, <2>2, <2>3, <2>4, <2>5 DEF KhInv
  <1>6. CASE /\ cpc' = [cpc EXCEPT ![c] = "save"] /\ UNCHANGED khLock /\ trust[c] = "tofu" /\ old = NoPrint
           /\ entries' = [entries EXCEPT ![c] = Inserted(c)]
    <2>1. KhTypeOK'
      BY <1>1, <1>2, <1>6, KhContents, KnownHostsAssumption DEF KhInv, KhTypeOK
    <2>2. PinFile'
      BY <1>1, <1>2, <1>6, KhContents, KnownHostsAssumption DEF KhInv, PinFile
    <2>3. Checking'
      BY <1>1, <1>2, <1>6, KhContents, KnownHostsAssumption DEF KhInv, Checking
    <2>4. Saving'
      BY <1>1, <1>2, <1>6, KhContents, KnownHostsAssumption DEF KhInv, KhTypeOK, Saving
    <2>5. AcceptedIsPinned'
      BY <1>1, <1>2, <1>6, KhContents, KnownHostsAssumption DEF KhInv, AcceptedIsPinned, Readable
    <2> QED
      BY <2>1, <2>2, <2>3, <2>4, <2>5 DEF KhInv
  <1> QED
    BY <1>3, <1>4, <1>5, <1>6 DEF Check, Step

\* A client saves what it read and its pin.  What others were accepted by is in it,
\* or the file was removed and nobody was accepted since.
LEMMA RenameStep ==
    ASSUME KhInv, NEW c \in Clients, RenamePins(c)
    PROVE  KhInv'
  <1>1. /\ known' \in Whole(Pins \cup {None}) /\ known'.cur = entries[c] /\ known'.disk = known.disk
        /\ entries[c] \in Pins /\ cpc[c] = "save" /\ cpc' = [cpc EXCEPT ![c] = "saveDir"]
        /\ UNCHANGED <<conn, trust, forgets, asOf>>
    BY RenamedWhole DEF RenamePins, Step, KhInv, KhTypeOK, PinFile
  <1>2. Readable' /\ Read' = entries[c]
    BY <1>1, KhContents, KnownHostsAssumption DEF Readable, Read
  <1>3. ASSUME NEW d \in Clients, cpc'[d] = "accepted", trust[d] # "insecure", asOf[d] = forgets
        PROVE  entries[c][conn[d].host] = conn[d].print
    <2>1. Read[conn[d].host] = conn[d].print /\ conn[d].host \in Hosts /\ conn[d].print \in Prints
      BY <1>1, <1>3 DEF KhInv, KhTypeOK, AcceptedIsPinned, Checking
    <2>2. CASE asOf[c] = forgets
      <3>1. entries[c] = Inserted(c) /\ Read[conn[c].host] = NoPrint
        BY <1>1, <2>2 DEF KhInv, Saving
      <3>2. conn[d].host # conn[c].host
        BY <2>1, <3>1, KnownHostsAssumption
      <3> QED
        BY <2>1, <3>1, <3>2, KhContents DEF Inserted, Pins
    <2>3. CASE asOf[c] # forgets
      <3>1. known.cur = None
        BY <1>1, <2>3 DEF KhInv, Saving
      <3> QED
        BY <2>1, <3>1, KnownHostsAssumption DEF Read, NoPins
    <2> QED
      BY <2>2, <2>3
  <1>4. AcceptedIsPinned'
    BY <1>1, <1>2, <1>3 DEF AcceptedIsPinned
  <1>5. KhTypeOK'
    BY <1>1, <1>2, KhContents, KnownHostsAssumption
    DEF RenamePins, Step, KhInv, KhTypeOK, NoPins, Pins
  <1>6. PinFile'
    BY <1>1, <1>2, KhContents, KnownHostsAssumption DEF RenamePins, Step, KhInv, PinFile
  <1>7. Checking'
    BY <1>1, <1>2, KhContents, KnownHostsAssumption DEF RenamePins, Step, KhInv, Checking
  <1>8. Saving'
    BY <1>1, <1>2, KhContents, KnownHostsAssumption
    DEF RenamePins, Step, KhInv, KhTypeOK, Checking, Saving, Inserted, Pins
  <1> QED
    BY <1>4, <1>5, <1>6, <1>7, <1>8 DEF KhInv

\* A client's pin reaches the disk.
LEMMA SyncStep ==
    ASSUME KhInv, NEW c \in Clients, SyncPins(c)
    PROVE  KhInv'
  <1>1. known' \in Whole(Pins \cup {None}) /\ known'.cur = known.cur /\ known'.disk = known.cur
    BY DirSyncedWhole DEF SyncPins, KhInv, PinFile
  <1>2. KhTypeOK'
    BY <1>1, KhContents, KnownHostsAssumption DEF SyncPins, Step, PinsUnlocked, KhInv, KhTypeOK
  <1>3. PinFile'
    BY <1>1, KhContents, KnownHostsAssumption DEF SyncPins, Step, KhInv, PinFile
  <1>4. Checking'
    BY <1>1, KhContents, KnownHostsAssumption DEF SyncPins, Step, KhInv, Checking
  <1>5. Saving'
    BY <1>1, KhContents, KnownHostsAssumption DEF SyncPins, Step, KhInv, KhTypeOK, Saving
  <1>6. AcceptedIsPinned'
    BY <1>1, KhContents, KnownHostsAssumption
    DEF SyncPins, Step, KhInv, KhTypeOK, Saving, AcceptedIsPinned, Readable, Read
  <1> QED
    BY <1>2, <1>3, <1>4, <1>5, <1>6 DEF KhInv

\* The user removes known_hosts.
LEMMA ForgetStep ==
    ASSUME KhInv, Forget
    PROVE  KhInv'
  <1>1. known' \in Whole(Pins \cup {None}) /\ known'.cur = None /\ known'.disk = None
    BY HoldingWhole DEF Forget
  <1>2. KhTypeOK'
    BY <1>1, KhContents, KnownHostsAssumption DEF Forget, KhInv, KhTypeOK
  <1>3. PinFile'
    BY <1>1, KhContents, KnownHostsAssumption DEF Forget, KhInv, PinFile
  <1>4. Checking'
    BY <1>1, KhContents, KnownHostsAssumption DEF Forget, KhInv, Checking
  <1>5. Saving'
    BY <1>1, KhContents, KnownHostsAssumption DEF Forget, KhInv, KhTypeOK, Saving
  <1>6. AcceptedIsPinned'
    BY <1>1, KhContents, KnownHostsAssumption DEF Forget, KhInv, KhTypeOK, AcceptedIsPinned
  <1> QED
    BY <1>2, <1>3, <1>4, <1>5, <1>6 DEF KhInv

\* The clients' machine loses power.
LEMMA KhLossStep ==
    ASSUME KhInv, KhPowerLoss
    PROVE  KhInv'
  <1>1. /\ known' \in Whole(Pins \cup {None}) /\ known'.cur = known'.disk
        /\ known'.disk \in {known.disk, known.cur}
    BY AfterLossWhole DEF KhPowerLoss, KhInv, PinFile
  <1>2. KhTypeOK'
    BY <1>1, KhContents, KnownHostsAssumption
    DEF KhPowerLoss, KhInv, KhTypeOK, NoPins, Pins, Trusts, NoConn
  <1>3. PinFile'
    BY <1>1, KhContents, KnownHostsAssumption DEF KhPowerLoss, KhInv, PinFile
  <1>4. Checking'
    BY <1>1, KhContents, KnownHostsAssumption DEF KhPowerLoss, KhInv, Checking
  <1>5. Saving'
    BY <1>1, KhContents, KnownHostsAssumption DEF KhPowerLoss, KhInv, Saving
  <1>6. AcceptedIsPinned'
    BY <1>1, KhContents, KnownHostsAssumption DEF KhPowerLoss, KhInv, AcceptedIsPinned
  <1> QED
    BY <1>2, <1>3, <1>4, <1>5, <1>6 DEF KhInv

\* The invariant of the clients.
LEMMA KhSteps ==
    ASSUME KhInv, NEW c \in Clients, KhStep(c)
    PROVE  KhInv'
  <1>1. "srv" \in Hosts /\ -1 \in Prints
    BY HostIdentityAssumption, HostTrustAssumption
  <1> QED
    BY <1>1, AskSteps, CheckStep, RenameStep, SyncStep DEF KhStep

-----------------------------------------------------------------------------
(* Both.                                                                  *)

\* A settled pair is not replaced but by a deletion.
LEMMA SettledKept ==
    ASSUME IdInv, NEW v, Settled(v), IdPowerLoss \/ \E s \in Servers : IdStep(s)
    PROVE  Settled(v)'
  <1>1. ASSUME NEW s \in Servers, IdStep(s) PROVE Settled(v)'
    <2>1. ValidPair /\ spc[s] \notin Writing
      BY HostIdentityAssumption DEF ValidPair, Present, Settled
    <2>2. UNCHANGED <<cert, key>>
      BY <1>1, <2>1
      DEF IdStep, Start, Lock, ReadPair, RenameCert, SyncCert, RenameKey, SyncKey, IdError,
          IdStop, Leave, idFiles, Writing
    <2>3. spc' = [spc EXCEPT ![s] = spc'[s]] /\ spc'[s] \notin Writing
      BY <1>1, <2>1
      DEF IdStep, Start, Lock, ReadPair, RenameCert, SyncCert, RenameKey, SyncKey, IdError,
          IdStop, Leave, Goto, Writing, IdInv, IdTypeOK
    <2> QED
      BY <2>2, <2>3 DEF Settled, IdInv, IdTypeOK
  <1>2. CASE IdPowerLoss
    <2>1. cert'.cur = v /\ cert'.disk = v /\ key'.cur = v /\ key'.disk = v
      BY <1>2, AfterLossWhole DEF IdPowerLoss, Settled, IdInv, IdFiles
    <2> QED
      BY <1>2, <2>1 DEF IdPowerLoss, Settled, Writing
  <1> QED
    BY <1>1, <1>2

\* A server comes up with a settled pair, unless files were deleted or it was hasty.
LEMMA ComesUpSettled ==
    ASSUME IdInv, NEW s \in Servers, IdStep(s), spc[s] # "up", spc'[s] = "up", deletes' = 0, ~loose'
    PROVE  Settled(pair[s])' /\ pair' = [pair EXCEPT ![s] = pair'[s]]
  <1>1. CASE ReadPair(s)
    <2>1. /\ ValidPair /\ cert.disk = cert.cur /\ key.disk = key.cur /\ UNCHANGED <<cert, key>>
          /\ pair' = [pair EXCEPT ![s] = cert.cur] /\ spc[s] = "read" /\ spc' = [spc EXCEPT ![s] = "up"]
      BY <1>1 DEF ReadPair, Goto, idFiles, IdInv, IdTypeOK
    <2>2. \A t \in Servers : spc'[t] \notin Writing
      BY <2>1, HostIdentityAssumption DEF IdInv, IdTypeOK, Working, Writing
    <2> QED
      BY <2>1, <2>2, IdContents DEF Settled, ValidPair, Present, Contents, IdInv, IdTypeOK
  <1>2. CASE SyncKey(s)
    <2>1. /\ key'.cur = key.cur /\ key'.disk = key.cur /\ UNCHANGED <<cert, pair, deletes>>
          /\ spc[s] = "keyDir" /\ spc' = [spc EXCEPT ![s] = "up"]
      BY <1>2, DirSyncedWhole DEF SyncKey, Goto, IdInv, IdFiles
    <2>2. since[s] = deletes /\ pair[s] \in -2..MaxPairs
      BY <2>1 DEF IdInv, IdTypeOK
    <2>3. cert.cur = pair[s] /\ cert.disk = pair[s] /\ key.cur = pair[s]
      BY <2>1, <2>2 DEF IdInv, Writers, Writing
    <2>4. \A t \in Servers : spc'[t] \notin Writing
      BY <2>1, HostIdentityAssumption DEF IdInv, IdTypeOK, Working, Writing
    <2> QED
      BY <2>1, <2>2, <2>3, <2>4 DEF Settled, IdInv, IdTypeOK
  <1> QED
    BY <1>1, <1>2
    DEF IdStep, Start, Lock, RenameCert, SyncCert, RenameKey, IdError, IdStop, Leave, Goto, IdInv,
        IdTypeOK

\* Deletions and hasty servers are not forgotten.
LEMMA FaultsStay ==
    ASSUME IdInv, NEW s \in Servers, IdStep(s)
    PROVE  deletes' = deletes /\ (loose => loose')
  <1>1. CASE ReadPair(s)
    <2>1. /\ deletes' = deletes
          /\ loose' = loose \/ loose' = (loose \/ cert.disk # cert.cur \/ key.disk # key.cur)
      BY <1>1 DEF ReadPair
    <2>2. CASE loose' = loose
      BY <2>1, <2>2
    <2>3. CASE loose' = (loose \/ cert.disk # cert.cur \/ key.disk # key.cur)
      BY <2>1, <2>3, Zenon
    <2> QED
      BY <2>1, <2>2, <2>3
  <1>2. CASE ~ReadPair(s)
    BY <1>2
    DEF IdStep, Start, Lock, RenameCert, SyncCert, RenameKey, SyncKey, IdError, IdStop, Leave
  <1> QED
    BY <1>1, <1>2

\* Of one server's step only its own state is touched.
LEMMA OthersStay ==
    ASSUME IdInv, NEW s \in Servers, IdStep(s), NEW t \in Servers \ {s}
    PROVE  spc'[t] = spc[t] /\ pair'[t] = pair[t]
  BY DEF IdStep, Start, Lock, ReadPair, RenameCert, SyncCert, RenameKey, SyncKey, IdError, IdStop,
         Leave, Goto, IdInv, IdTypeOK

\* The steps of the servers preserve the agreement.
LEMMA IdAgreed ==
    ASSUME IInv, NEW s \in Servers, IdStep(s), UNCHANGED khVars
    PROVE  Agreed'
  <1> SUFFICES ASSUME deletes' = 0, ~loose' PROVE Agreed'
    BY DEF Agreed
  <1>1. deletes = 0 /\ ~loose
    BY FaultsStay DEF IInv
  <1>2. ASSUME NEW v, Settled(v) PROVE Settled(v)'
    BY <1>2, SettledKept DEF IInv
  <1>3. ASSUME NEW t \in Servers, spc'[t] = "up" PROVE Settled(pair[t])'
    <2>1. CASE t = s /\ spc[s] # "up"
      BY <1>3, <2>1, ComesUpSettled DEF IInv
    <2>2. CASE t = s /\ spc[s] = "up"
      BY <1>3, <2>2
      DEF IdStep, Start, Lock, ReadPair, RenameCert, SyncCert, RenameKey, SyncKey, IdError,
          IdStop, Leave, Goto, IInv, IdInv, IdTypeOK
    <2>3. CASE t # s
      <3>1. spc[t] = "up" /\ pair'[t] = pair[t]
        BY <1>3, <2>3, OthersStay DEF IInv
      <3>2. Settled(pair[t])
        BY <1>1, <3>1 DEF IInv, Agreed
      <3> QED
        BY <1>2, <3>1, <3>2 DEF Settled
    <2> QED
      BY <2>1, <2>2, <2>3
  <1> QED
    BY <1>1, <1>2, <1>3 DEF IInv, Agreed, PinSettled, Settled, khVars

\* What a client reads, and what it adds to it, is of the settled pair.
LEMMA ReadSettled ==
    ASSUME IInv, deletes = 0, ~loose
    PROVE  PinSettled(Read)
  BY HostTrustAssumption DEF IInv, Agreed, Read, NoPins, PinSettled

\* The steps of the clients preserve the agreement.
LEMMA KhAgreed ==
    ASSUME IInv, NEW c \in Clients, KhStep(c) \/ Handshake(c), UNCHANGED idVars
    PROVE  Agreed'
  <1> SUFFICES ASSUME deletes = 0, ~loose PROVE Agreed'
    BY DEF Agreed, idVars
  <1>1. ASSUME NEW v, Settled(v) PROVE Settled(v)'
    BY <1>1 DEF Settled, idVars
  <1>2. /\ \A s \in Servers : spc[s] = "up" => Settled(pair[s])
        /\ \A d \in Clients : conn[d].host = "srv" => Settled(conn[d].print)
        /\ PinSettled(known.cur) /\ PinSettled(known.disk) /\ \A d \in Clients : PinSettled(entries[d])
    BY DEF IInv, Agreed
  <1>3. \A s \in Servers : (spc[s] = "up" => Settled(pair[s]))'
    BY <1>1, <1>2 DEF Settled, idVars
  <1>4. ASSUME NEW d \in Clients, conn'[d].host = "srv" PROVE Settled(conn[d].print)'
    <2>1. conn'[d] = conn[d] \/ Settled(conn'[d].print)
      <3>1. CASE Handshake(c)
        BY <1>2, <1>4, <3>1 DEF Handshake, CheckOrInsert, IInv, KhInv, KhTypeOK
      <3>2. CASE KhStep(c)
        <4>1. conn' = conn \/ conn' = [conn EXCEPT ![c] = NoConn]
          BY <3>2 DEF KhStep, LockPins, Check, RenamePins, SyncPins, KhError, KhStop, Drop
        <4>2. conn'[d] # NoConn
          BY <1>4, HostTrustAssumption, KnownHostsAssumption DEF NoConn
        <4> QED
          BY <4>1, <4>2 DEF IInv, KhInv, KhTypeOK
      <3> QED
        BY <3>1, <3>2
    <2> QED
      BY <1>1, <1>2, <1>4, <2>1 DEF Settled, idVars
  <1>5. PinSettled(known.cur)' /\ PinSettled(known.disk)'
    <2>1. known' = known \/ (known'.cur = entries[c] /\ known'.disk = known.disk)
                         \/ (known'.cur = known.cur /\ known'.disk = known.cur)
      BY RenamedWhole, DirSyncedWhole
      DEF KhStep, Handshake, CheckOrInsert, LockPins, Check, RenamePins, SyncPins, KhError,
          KhStop, Drop, IInv, KhInv, KhTypeOK, PinFile
    <2> QED
      BY <1>2, <2>1 DEF PinSettled, Settled, idVars
  <1>6. ASSUME NEW d \in Clients PROVE PinSettled(entries[d])'
    <2>1. entries' = entries \/ entries' = [entries EXCEPT ![c] = NoPins]
            \/ (entries' = [entries EXCEPT ![c] = Inserted(c)] /\ cpc[c] = "check")
      BY DEF KhStep, Handshake, CheckOrInsert, LockPins, Check, RenamePins, SyncPins, KhError,
             KhStop, Drop
    <2>2. entries'[d] = entries[d] \/ entries'[d] = NoPins \/ (entries'[d] = Inserted(c) /\ cpc[c] = "check")
      BY <2>1 DEF IInv, KhInv, KhTypeOK
    <2>3. CASE entries'[d] = entries[d]
      BY <1>2, <2>3 DEF PinSettled, Settled, idVars
    <2>4. CASE entries'[d] = NoPins
      BY <2>4, HostTrustAssumption DEF PinSettled, NoPins
    <2>5. CASE entries'[d] = Inserted(c) /\ cpc[c] = "check"
      <3>1. PinSettled(Read) /\ Read \in Pins
        BY ReadSettled, KhContents DEF IInv
      <3>2. conn[c].host = "srv" => Inserted(c)["srv"] = conn[c].print
        BY <3>1, HostTrustAssumption DEF Inserted, Pins
      <3>3. conn[c].host # "srv" => Inserted(c)["srv"] = Read["srv"]
        BY <3>1, HostTrustAssumption DEF Inserted, Pins
      <3> QED
        BY <1>2, <2>5, <3>1, <3>2, <3>3 DEF PinSettled, Settled, idVars
    <2> QED
      BY <2>2, <2>3, <2>4, <2>5
  <1> QED
    BY <1>3, <1>4, <1>5, <1>6 DEF Agreed

\* Power loss and a removed known_hosts preserve the agreement; a removed identity
\* ends it.
LEMMA FaultAgreed ==
    ASSUME IInv, Fault
    PROVE  Agreed'
  <1>1. CASE DeleteIdentity
    BY <1>1 DEF DeleteIdentity, Agreed, IInv, IdInv, IdTypeOK
  <1>2. CASE Forget /\ UNCHANGED idVars
    <2>1. known'.cur = None /\ known'.disk = None /\ UNCHANGED <<entries, conn>>
      BY <1>2, HoldingWhole DEF Forget
    <2> QED
      BY <1>2, <2>1, KnownHostsAssumption DEF IInv, Agreed, PinSettled, Settled, idVars
  <1>3. CASE IdPowerLoss /\ KhPowerLoss
    <2> SUFFICES ASSUME deletes = 0, ~loose PROVE Agreed'
      BY <1>3 DEF Agreed, IdPowerLoss
    <2>1. ASSUME NEW v, Settled(v) PROVE Settled(v)'
      BY <1>3, <2>1, SettledKept DEF IInv
    <2>2. PinSettled(known.cur)' /\ PinSettled(known.disk)'
      <3>1. known'.cur = known'.disk /\ known'.disk \in {known.disk, known.cur}
        BY <1>3, AfterLossWhole DEF KhPowerLoss, IInv, KhInv, PinFile
      <3> QED
        BY <2>1, <3>1 DEF IInv, Agreed, PinSettled, Settled
    <2>3. \A c \in Clients : entries'[c] = NoPins /\ conn'[c] = NoConn
      BY <1>3 DEF KhPowerLoss
    <2>4. \A s \in Servers : spc'[s] # "up"
      BY <1>3 DEF IdPowerLoss
    <2>5. \A c \in Clients : PinSettled(entries[c])'
      BY <2>3, HostTrustAssumption DEF PinSettled, NoPins
    <2>6. \A c \in Clients : conn'[c].host # "srv"
      BY <2>3, HostTrustAssumption, KnownHostsAssumption DEF NoConn
    <2> QED
      BY <2>2, <2>4, <2>5, <2>6 DEF Agreed
  <1> QED
    BY <1>1, <1>2, <1>3 DEF Fault, PowerLoss

\* Whoever is told of a changed certificate compared it with a pin, and the two
\* differ only if the agreement has ended.
LEMMA AlarmSteps ==
    ASSUME IInv, Next, IdInv', KhInv'
    PROVE  NoFalseAlarm'
  <1>1. Torn \notin {cert.cur, key.cur, known.cur}'
    <2>1. Torn \notin Contents /\ {cert.cur, key.cur}' \subseteq Contents
      BY HostIdentityAssumption, AtomicFileAssumption DEF Contents, IdInv, IdFiles, Whole
    <2>2. known'.cur \in Pins \cup {None} /\ Torn \notin Pins \cup {None}
      BY KnownHostsAssumption, AtomicFileAssumption DEF KhInv, PinFile, Whole
    <2> QED
      BY <2>1, <2>2
  <1>2. ASSUME NEW c \in Clients, cpc'[c] = "mismatch", conn'[c].host = "srv"
        PROVE  deletes' > 0 \/ loose'
    <2>1. deletes \in Nat /\ (deletes > 0 \/ loose => deletes' > 0 \/ loose')
      <3>1. deletes \in Nat
        BY DEF IInv, IdInv, IdTypeOK
      <3>2. deletes' \in {deletes, deletes + 1} /\ (loose => loose')
        <4>1. CASE Fault
          BY <4>1 DEF Fault, PowerLoss, DeleteIdentity, IdPowerLoss, idVars
        <4>2. CASE UNCHANGED idVars
          BY <4>2 DEF idVars
        <4> QED
          BY <4>1, <4>2, FaultsStay DEF Next, IInv
      <3>3. deletes > 0 => deletes' > 0
        BY <3>1, <3>2
      <3> QED
        BY <3>1, <3>2, <3>3
    <2>2. CASE cpc[c] = "mismatch" /\ conn'[c] = conn[c]
      BY <1>2, <2>1, <2>2 DEF IInv, NoFalseAlarm
    <2>3. CASE Check(c) /\ UNCHANGED idVars
      <3> SUFFICES ASSUME deletes = 0, ~loose PROVE FALSE
        BY <2>1
      <3>1. conn[c].host = "srv" /\ Read["srv"] \notin {conn[c].print, NoPrint}
        BY <1>2, <2>3 DEF Check, Step, IInv, KhInv, KhTypeOK
      <3>2. Settled(conn[c].print) /\ Settled(Read["srv"])
        BY <3>1, ReadSettled, KhContents DEF IInv, Agreed, PinSettled
      <3> QED
        BY <3>1, <3>2 DEF Settled
    <2>4. (cpc[c] = "mismatch" /\ conn'[c] = conn[c]) \/ (Check(c) /\ UNCHANGED idVars)
      <3>1. ASSUME NEW d \in Clients, KhStep(d) \/ Handshake(d), UNCHANGED idVars
            PROVE  (cpc[c] = "mismatch" /\ conn'[c] = conn[c]) \/ Check(c)
        BY <1>2, <3>1
        DEF KhStep, Handshake, CheckOrInsert, LockPins, Check, RenamePins, SyncPins, KhError,
            KhStop, Drop, Step, Trusts, IInv, KhInv, KhTypeOK
      <3>2. CASE Fault
        BY <1>2, <3>2 DEF Fault, Forget, PowerLoss, KhPowerLoss, khVars
      <3>3. CASE UNCHANGED khVars
        BY <1>2, <3>3 DEF khVars
      <3> QED
        BY <3>1, <3>2, <3>3 DEF Next
    <2> QED
      BY <2>2, <2>3, <2>4
  <1> QED
    BY <1>1, <1>2 DEF NoFalseAlarm

-----------------------------------------------------------------------------

\* The invariant holds before anybody starts.
LEMMA Initially == Init => IInv
  <1> SUFFICES ASSUME Init PROVE IInv
    OBVIOUS
  <1> USE DEF Init, IdInit, KhInit
  <1>1. /\ cert \in Whole(Contents) /\ key \in Whole(Contents) /\ cert.cur = cert.disk /\ key.cur = key.disk
        /\ spc = [s \in Servers |-> "down"] /\ served = None
    BY HoldingWhole, HostIdentityAssumption DEF Provided, Contents
  <1>2. cert.cur \in Contents /\ cert.disk \in Contents /\ key.cur \in Contents /\ key.disk \in Contents
    BY <1>1 DEF Whole
  <1>0. loose \in BOOLEAN
    BY Zenon
  <1>3. IdTypeOK
    BY <1>0, <1>1, <1>2, HostIdentityAssumption DEF IdTypeOK, Contents, Working
  <1>4. IdFiles /\ Writers /\ ServedKept /\ ProvidedAlone /\ IdentityStable
    BY <1>1 DEF IdFiles, Writers, ServedKept, ProvidedAlone, IdentityStable, Up, Writing
  <1>5. known \in Whole(Pins \cup {None}) /\ known.cur = None /\ known.disk = None
    BY HoldingWhole
  <1>6. KhTypeOK
    BY <1>5, KnownHostsAssumption DEF KhTypeOK, Pins, NoPins, NoConn, Trusts
  <1>7. PinFile /\ Checking /\ Saving /\ AcceptedIsPinned
    BY <1>5 DEF PinFile, Checking, Saving, AcceptedIsPinned
  <1>8. Agreed
    BY <1>1, <1>5, HostTrustAssumption, KnownHostsAssumption
    DEF Agreed, PinSettled, NoPins, NoConn
  <1>9. NoFalseAlarm
    BY <1>2, <1>5, HostIdentityAssumption, AtomicFileAssumption DEF NoFalseAlarm, Contents
  <1>10. losses \in 0..MaxFaults
    BY HostTrustAssumption
  <1> QED
    BY <1>3, <1>4, <1>6, <1>7, <1>8, <1>9, <1>10 DEF IInv, IdInv, KhInv

\* The inductive invariant of servers and clients.
THEOREM Invariance == Spec => []IInv
  <1>1. IInv /\ [Next]_vars => IInv'
    <2> SUFFICES ASSUME IInv, [Next]_vars PROVE IInv'
      OBVIOUS
    <2>1. CASE UNCHANGED vars
      BY <2>1
      DEF vars, idVars, khVars, IInv, IdInv, IdTypeOK, IdFiles, Writers, ServedKept,
          ProvidedAlone, IdentityStable, Up, KhInv, KhTypeOK, PinFile, Checking, Saving,
          AcceptedIsPinned, Inserted, Readable, Read, Agreed, PinSettled, Settled, NoFalseAlarm
    <2>2. CASE Next
      <3>1. IdInv'
        <4>1. CASE UNCHANGED idVars
          BY <4>1
          DEF idVars, IInv, IdInv, IdTypeOK, IdFiles, Writers, ServedKept, ProvidedAlone,
              IdentityStable, Up
        <4> QED
          BY <2>2, <4>1, IdSteps, DeleteStep, IdLossStep DEF Next, Fault, PowerLoss, IInv
      <3>2. KhInv'
        <4>1. CASE UNCHANGED khVars
          BY <4>1
          DEF khVars, IInv, KhInv, KhTypeOK, PinFile, Checking, Saving, AcceptedIsPinned,
              Inserted, Readable, Read
        <4>2. ASSUME NEW c \in Clients, Handshake(c) PROVE KhInv'
          <5>1. \A s \in Servers : pair[s] \in Prints
            BY HostTrustAssumption DEF IInv, IdInv, IdTypeOK
          <5>2. -1 \in Prints /\ "srv" \in Hosts
            BY HostIdentityAssumption, HostTrustAssumption
          <5> QED
            BY <4>2, <5>1, <5>2, AskSteps DEF Handshake, IInv
        <4> QED
          BY <2>2, <4>1, <4>2, KhSteps, ForgetStep, KhLossStep DEF Next, Fault, PowerLoss, IInv
      <3>3. Agreed'
        BY <2>2, IdAgreed, KhAgreed, FaultAgreed DEF Next
      <3>4. NoFalseAlarm'
        BY <2>2, <3>1, <3>2, AlarmSteps
      <3>5. losses' \in 0..MaxFaults
        <4>1. losses \in Nat /\ deletes \in Nat /\ forgets \in Nat /\ losses \in 0..MaxFaults
          BY HostTrustAssumption DEF IInv, IdInv, IdTypeOK, KhInv, KhTypeOK
        <4>2. losses' = losses \/ (losses' = losses + 1 /\ deletes + forgets + losses < MaxFaults)
          BY <2>2 DEF Next, Fault, PowerLoss
        <4> QED
          BY <4>1, <4>2, HostTrustAssumption
      <3> QED
        BY <3>1, <3>2, <3>3, <3>4, <3>5 DEF IInv
    <2> QED
      BY <2>1, <2>2
  <1> QED
    BY <1>1, Initially, PTL DEF Spec

\* Every variable keeps its type, each lock is held by the one inside, and the
\* faults stay within their bound.
THEOREM TypeCorrect == Spec => []TypeOK
  <1>1. IInv => TypeOK
    BY DEF IInv, IdInv, KhInv, TypeOK
  <1> QED
    BY <1>1, Invariance, PTL

\* load_or_create_host_cert: servers that run since the operator last touched the
\* files run with the pair in them, a pair that was served is kept through kills,
\* failing calls and power loss, and the operator's own is never written to.
THEOREM IdentitySafe == Spec => []IdentityKept
  <1>1. IInv => IdentityKept
    BY DEF IInv, IdInv, ProvidedAlone, IdentityKept, ProvidedKept
  <1> QED
    BY <1>1, Invariance, PTL

\* KnownHosts::check_or_insert: a client that accepted a certificate finds it pinned
\* until somebody removes the file, however many clients save to it.
THEOREM PinsSafe == Spec => []AcceptedIsPinned
  <1>1. IInv => AcceptedIsPinned
    BY DEF IInv, KhInv
  <1> QED
    BY <1>1, Invariance, PTL

\* TofuServerVerifier: no client is told of a changed certificate unless a file of
\* the identity was removed or a server adopted it before it was on disk, and no
\* file is ever torn.
THEOREM AlarmsTrue == Spec => []NoFalseAlarm
  <1>1. IInv => NoFalseAlarm
    BY DEF IInv
  <1> QED
    BY <1>1, Invariance, PTL
==============================================================================
