--------------------------- MODULE ResetKeyProofs ---------------------------
(***************************************************************************)
(* For any number of processes, keys, names, iterations, deletions and     *)
(* power losses: ResetKey keeps its types, the key file is never torn, all *)
(* servers of a generation agree, and the whole implements KeyStore.       *)
(*                                                                         *)
(* Agreement is not inductive by itself.  IInv adds who owns a temporary   *)
(* name, what a file about to be linked holds, and that a key taken in the *)
(* current generation is the one on file.                                  *)
(***************************************************************************)
EXTENDS ResetKey, TLAPS

InLoop == {"write", "sync", "link", "unlink", "syncdir", "unlinkLost", "cleanup"}

\* A temporary name belongs to one call at a time.
NamesOwned ==
    /\ \A p \in Procs : pc[p] \in InLoop => name[p] \in Names
    /\ \A p, q \in Procs : (p # q /\ name[p] # NoName) => name[p] # name[q]

\* A call past "fill" has a key, and links a complete, synced file.
LinkReady ==
    /\ \A p \in Procs : pc[p] \in {"create", "write", "sync", "link"} => key[p] \in Keys
    /\ \A p \in Procs : pc[p] = "create" => tries[p] < MaxTries
    /\ \A p \in Procs : pc[p] = "fill" \/ key[p] = NoKey => tries[p] = 0
    /\ \A p \in Procs :
        pc[p] = "link" => tmp[name[p]] = [key |-> key[p], synced |-> TRUE]

FileGood == path # NoFile => path.key \in Keys /\ path.synced

\* The key a call has taken: chosen when it is up or has linked it.
TakenGood ==
    /\ \A p \in Procs : pc[p] \in {"up", "unlink", "syncdir"} => taken[p].key \in Keys
    /\ \A p \in Procs : taken[p].gen <= gen
    /\ \A p \in Procs :
        (taken[p].key # NoKey /\ taken[p].gen = gen)
            => path # NoFile /\ path.key = taken[p].key
    /\ \A p, q \in Procs :
        (taken[p].key # NoKey /\ taken[q].key # NoKey /\ taken[p].gen = taken[q].gen)
            => taken[p].key = taken[q].key

IInv == TypeOK /\ NamesOwned /\ LinkReady /\ FileGood /\ TakenGood

\* A file is never the absence of one.
LEMMA FileRecord ==
    ASSUME NEW k \in Keys \cup {NoKey}, NEW b \in BOOLEAN
    PROVE  /\ [key |-> k, synced |-> b] \in File
           /\ [key |-> k, synced |-> b] # NoFile
<1>1. [key |-> k, synced |-> b] \in File
  BY DEF File
<1> QED
  BY <1>1, ResetKeyAssumption

\* The initial state, an empty directory and no process running, satisfies
\* the inductive invariant.
LEMMA InitIInv == Init => IInv
<1> SUFFICES ASSUME Init PROVE IInv
  OBVIOUS
<1> USE ResetKeyAssumption DEF Init
<1>1. TypeOK
  <2>1. path \in File \cup {NoFile} /\ tmp \in [Names -> File \cup {NoFile}]
    OBVIOUS
  <2>2. onDisk \in BOOLEAN
    OBVIOUS
  <2>3. pc \in [Procs -> Steps] /\ gen \in 0..MaxGen /\ tries \in [Procs -> 0..MaxTries]
    BY DEF Steps
  <2>4. key \in [Procs -> Keys \cup {NoKey}] /\ name \in [Procs -> Names \cup {NoName}]
    OBVIOUS
  <2>5. taken \in [Procs -> [key : Keys \cup {NoKey}, gen : 0..MaxGen]]
    BY DEF Untaken
  <2> QED
    BY <2>1, <2>2, <2>3, <2>4, <2>5 DEF TypeOK
<1>2. NamesOwned /\ LinkReady /\ FileGood
  BY DEF NamesOwned, LinkReady, FileGood, InLoop
<1>3. TakenGood
  BY DEF TakenGood, Untaken
<1> QED
  BY <1>1, <1>2, <1>3 DEF IInv

\* Every step of a call, an error or a kill keeps every variable in its type.
LEMMA StepType ==
    ASSUME IInv, NEW p \in Procs, Step(p) \/ IoError(p) \/ Kill(p)
    PROVE  TypeOK'
<1> USE ResetKeyAssumption
<1>1. CASE Start(p)
  BY <1>1 DEF Start, IInv, TypeOK, Goto, dirVars, Steps
<1>2. CASE ReadPath(p)
  <2>1. pc' \in [Procs -> Steps] /\ name' \in [Procs -> Names \cup {NoName}]
    BY <1>2 DEF ReadPath, IInv, TypeOK, Goto, Fail, Iterate, Steps
  <2>2. taken' \in [Procs -> [key : Keys \cup {NoKey}, gen : 0..MaxGen]]
    BY <1>2 DEF ReadPath, IInv, TypeOK, Fail, Taken, Untaken
  <2> QED
    BY <1>2, <2>1, <2>2 DEF ReadPath, IInv, TypeOK, dirVars
<1>3. CASE FillKey(p)
  BY <1>3 DEF FillKey, IInv, TypeOK, Goto, Iterate, dirVars, Steps
<1>4. CASE CreateTmp(p)
  <2>1. PICK n \in Names :
          \/ /\ tmp' = [tmp EXCEPT ![n] = [key |-> NoKey, synced |-> FALSE]]
             /\ name' = [name EXCEPT ![p] = n]
             /\ pc' = [pc EXCEPT ![p] = "write"]
          \/ /\ Iterate(p, tries[p] + 1)
             /\ UNCHANGED <<tmp, name>>
    BY <1>4 DEF CreateTmp, Goto
  <2>2. pc' \in [Procs -> Steps] /\ name' \in [Procs -> Names \cup {NoName}]
    BY <2>1 DEF IInv, TypeOK, Goto, Iterate, Steps
  <2>3. [key |-> NoKey, synced |-> FALSE] \in File
    BY FileRecord
  <2>4. tmp' \in [Names -> File \cup {NoFile}]
    BY <2>1, <2>3 DEF IInv, TypeOK
  <2>5. tries' \in [Procs -> 0..MaxTries]
    BY <1>4 DEF CreateTmp, IInv, TypeOK, LinkReady
  <2> QED
    BY <1>4, <2>2, <2>4, <2>5 DEF CreateTmp, IInv, TypeOK
<1>5. CASE WriteTmp(p)
  BY <1>5 DEF WriteTmp, IInv, TypeOK, Goto, Steps, File
<1>6. CASE SyncTmp(p)
  BY <1>6 DEF SyncTmp, IInv, TypeOK, Goto, Steps, File
<1>7. CASE LinkTmp(p)
  <2>1. name[p] \in Names
    BY <1>7 DEF LinkTmp, IInv, NamesOwned, InLoop
  <2>2. path' \in File \cup {NoFile} /\ onDisk' \in BOOLEAN
    BY <1>7, <2>1 DEF LinkTmp, IInv, TypeOK
  <2>3. taken' \in [Procs -> [key : Keys \cup {NoKey}, gen : 0..MaxGen]]
    BY <1>7 DEF LinkTmp, IInv, TypeOK, Taken
  <2>4. pc' \in [Procs -> Steps]
    BY <1>7 DEF LinkTmp, IInv, TypeOK, Goto, Steps
  <2> QED
    BY <1>7, <2>2, <2>3, <2>4 DEF LinkTmp, IInv, TypeOK
<1>8. CASE UnlinkTmp(p)
  BY <1>8 DEF UnlinkTmp, IInv, TypeOK, Goto, Steps
<1>9. CASE SyncDir(p)
  BY <1>9 DEF SyncDir, IInv, TypeOK, Goto, Steps
<1>10. CASE Cleanup(p)
  BY <1>10 DEF Cleanup, IInv, TypeOK, Goto, Steps
<1>11. CASE IoError(p)
  BY <1>11 DEF IoError, Fail, IInv, TypeOK, Goto, dirVars, Steps, Untaken
<1>12. CASE Kill(p)
  BY <1>12 DEF Kill, IInv, TypeOK, Goto, dirVars, Steps, Untaken
<1> QED
  BY <1>1, <1>2, <1>3, <1>4, <1>5, <1>6, <1>7, <1>8, <1>9, <1>10, <1>11, <1>12
     DEF Step


\* A step of a call draws only names that no other call holds.
LEMMA StepNames ==
    ASSUME IInv, NEW p \in Procs, Step(p) \/ IoError(p) \/ Kill(p)
    PROVE  NamesOwned'
<1> USE ResetKeyAssumption DEF Goto, IInv, TypeOK, NamesOwned, InLoop
<1>1. CASE Start(p)
  BY <1>1 DEF Start, dirVars
<1>2. CASE ReadPath(p)
  BY <1>2 DEF ReadPath, Fail, Iterate, dirVars
<1>3. CASE FillKey(p)
  BY <1>3 DEF FillKey, Iterate, dirVars
<1>4. CASE CreateTmp(p)
  <2>1. PICK n \in Names :
          /\ \A q \in Procs : name[q] # n
          /\ \/ name' = [name EXCEPT ![p] = n] /\ pc' = [pc EXCEPT ![p] = "write"]
             \/ Iterate(p, tries[p] + 1) /\ UNCHANGED name
    BY <1>4 DEF CreateTmp
  <2> QED
    BY <2>1 DEF Iterate
<1>5. CASE WriteTmp(p)
  BY <1>5 DEF WriteTmp
<1>6. CASE SyncTmp(p)
  BY <1>6 DEF SyncTmp
<1>7. CASE LinkTmp(p)
  BY <1>7 DEF LinkTmp
<1>8. CASE UnlinkTmp(p)
  BY <1>8 DEF UnlinkTmp
<1>9. CASE SyncDir(p)
  BY <1>9 DEF SyncDir
<1>10. CASE Cleanup(p)
  BY <1>10 DEF Cleanup
<1>11. CASE IoError(p)
  BY <1>11 DEF IoError, Fail, dirVars, Steps
<1>12. CASE Kill(p)
  BY <1>12 DEF Kill, dirVars
<1> QED
  BY <1>1, <1>2, <1>3, <1>4, <1>5, <1>6, <1>7, <1>8, <1>9, <1>10, <1>11, <1>12 DEF Step

\* No other call writes to the temporary file a call is about to link.
LEMMA StepLink ==
    ASSUME IInv, NEW p \in Procs, Step(p) \/ IoError(p) \/ Kill(p)
    PROVE  LinkReady'
<1> USE ResetKeyAssumption DEF Goto, IInv, TypeOK, LinkReady, NamesOwned, InLoop
<1>1. CASE Start(p)
  BY <1>1 DEF Start, dirVars
<1>2. CASE ReadPath(p)
  BY <1>2 DEF ReadPath, Fail, Iterate, dirVars
<1>3. CASE FillKey(p)
  BY <1>3 DEF FillKey, Iterate, dirVars
<1>4. CASE CreateTmp(p)
  BY <1>4 DEF CreateTmp, Iterate
<1>5. CASE WriteTmp(p)
  BY <1>5 DEF WriteTmp
<1>6. CASE SyncTmp(p)
  BY <1>6 DEF SyncTmp
<1>7. CASE LinkTmp(p)
  BY <1>7 DEF LinkTmp
<1>8. CASE UnlinkTmp(p)
  BY <1>8 DEF UnlinkTmp
<1>9. CASE SyncDir(p)
  BY <1>9 DEF SyncDir
<1>10. CASE Cleanup(p)
  BY <1>10 DEF Cleanup
<1>11. CASE IoError(p)
  BY <1>11 DEF IoError, Fail, dirVars, Steps
<1>12. CASE Kill(p)
  BY <1>12 DEF Kill, dirVars
<1> QED
  BY <1>1, <1>2, <1>3, <1>4, <1>5, <1>6, <1>7, <1>8, <1>9, <1>10, <1>11, <1>12 DEF Step

\* The final name is only ever given to a complete, synced file.
LEMMA StepFile ==
    ASSUME IInv, NEW p \in Procs, Step(p) \/ IoError(p) \/ Kill(p)
    PROVE  FileGood'
<1> USE ResetKeyAssumption DEF Goto, IInv, TypeOK, FileGood, LinkReady
<1>1. CASE Start(p)
  BY <1>1 DEF Start, dirVars
<1>2. CASE ReadPath(p)
  BY <1>2 DEF ReadPath, Fail, Iterate, dirVars
<1>3. CASE FillKey(p)
  BY <1>3 DEF FillKey, Iterate, dirVars
<1>4. CASE CreateTmp(p)
  BY <1>4 DEF CreateTmp, Iterate
<1>5. CASE WriteTmp(p)
  BY <1>5 DEF WriteTmp
<1>6. CASE SyncTmp(p)
  BY <1>6 DEF SyncTmp
<1>7. CASE LinkTmp(p)
  <2>1. tmp[name[p]] = [key |-> key[p], synced |-> TRUE] /\ key[p] \in Keys
    BY <1>7 DEF LinkTmp
  <2>2. CASE path = NoFile
    <3>1. path' = [key |-> key[p], synced |-> TRUE]
      BY <1>7, <2>1, <2>2 DEF LinkTmp
    <3> QED
      BY <2>1, <3>1
  <2>3. CASE path # NoFile
    BY <1>7, <2>3 DEF LinkTmp
  <2> QED
    BY <2>2, <2>3
<1>8. CASE UnlinkTmp(p)
  BY <1>8 DEF UnlinkTmp
<1>9. CASE SyncDir(p)
  BY <1>9 DEF SyncDir
<1>10. CASE Cleanup(p)
  BY <1>10 DEF Cleanup
<1>11. CASE IoError(p)
  BY <1>11 DEF IoError, Fail, dirVars, Steps
<1>12. CASE Kill(p)
  BY <1>12 DEF Kill, dirVars
<1> QED
  BY <1>1, <1>2, <1>3, <1>4, <1>5, <1>6, <1>7, <1>8, <1>9, <1>10, <1>11, <1>12 DEF Step

\* A key is taken from the file or put there by the same step.
LEMMA StepTaken ==
    ASSUME IInv, NEW p \in Procs, Step(p) \/ IoError(p) \/ Kill(p)
    PROVE  TakenGood'
<1> USE ResetKeyAssumption DEF Goto, IInv, TypeOK, TakenGood, LinkReady, FileGood
<1>1. CASE Start(p)
  BY <1>1 DEF Start, dirVars
<1>2. CASE ReadPath(p)
  <2>1. CASE path # NoFile /\ path.key \in Keys
    <3>1. /\ taken' = [taken EXCEPT ![p] = [key |-> path.key, gen |-> gen]]
          /\ pc' = [pc EXCEPT ![p] = "up"]
          /\ path' = path /\ gen' = gen
      BY <1>2, <2>1 DEF ReadPath, Taken, dirVars
    <3> QED
      BY <2>1, <3>1
  <2>2. CASE path = NoFile
    BY <1>2, <2>2 DEF ReadPath, Iterate, dirVars
  <2> QED
    BY <2>1, <2>2
<1>3. CASE FillKey(p)
  BY <1>3 DEF FillKey, Iterate, dirVars
<1>4. CASE CreateTmp(p)
  BY <1>4 DEF CreateTmp, Iterate
<1>5. CASE WriteTmp(p)
  BY <1>5 DEF WriteTmp
<1>6. CASE SyncTmp(p)
  BY <1>6 DEF SyncTmp
<1>7. CASE LinkTmp(p)
  <2>1. CASE path = NoFile
    <3>1. path' = [key |-> key[p], synced |-> TRUE] /\ key[p] \in Keys
      BY <1>7, <2>1 DEF LinkTmp
    <3>4. path' # NoFile
      BY <3>1, FileRecord
    <3>2. /\ taken' = [taken EXCEPT ![p] = [key |-> key[p], gen |-> gen]]
          /\ pc' = [pc EXCEPT ![p] = "unlink"]
          /\ gen' = gen
      BY <1>7, <2>1 DEF LinkTmp, Taken
    <3>3. \A q \in Procs : taken[q].key # NoKey => taken[q].gen # gen
      BY <2>1
    <3> QED
      BY <3>1, <3>2, <3>3, <3>4
  <2>2. CASE path # NoFile
    BY <1>7, <2>2 DEF LinkTmp
  <2> QED
    BY <2>1, <2>2
<1>8. CASE UnlinkTmp(p)
  BY <1>8 DEF UnlinkTmp
<1>9. CASE SyncDir(p)
  BY <1>9 DEF SyncDir
<1>10. CASE Cleanup(p)
  BY <1>10 DEF Cleanup
<1>11. CASE IoError(p)
  BY <1>11 DEF IoError, Fail, dirVars, Steps, Untaken
<1>12. CASE Kill(p)
  BY <1>12 DEF Kill, dirVars, Untaken
<1> QED
  BY <1>1, <1>2, <1>3, <1>4, <1>5, <1>6, <1>7, <1>8, <1>9, <1>10, <1>11, <1>12 DEF Step


\* A deletion opens a generation in which nobody has taken a key yet.
LEMMA DeleteIInv == IInv /\ DeleteKey => IInv'
<1> SUFFICES ASSUME IInv, DeleteKey PROVE IInv'
  OBVIOUS
<1> USE ResetKeyAssumption DEF IInv, DeleteKey, procVars
<1>1. TypeOK'
  <2>1. onDisk' \in BOOLEAN /\ path' \in File \cup {NoFile}
    OBVIOUS
  <2>2. gen' \in 0..MaxGen
    BY DEF TypeOK
  <2> QED
    BY <2>1, <2>2 DEF TypeOK
<1>2. NamesOwned' /\ LinkReady' /\ FileGood'
  BY DEF NamesOwned, LinkReady, FileGood
<1>3. TakenGood'
  BY DEF TakenGood, TypeOK
<1> QED
  BY <1>1, <1>2, <1>3

\* After a power loss the file on disk is the complete one or none.
LEMMA PowerLossIInv == IInv /\ PowerLoss => IInv'
<1> SUFFICES ASSUME IInv, PowerLoss PROVE IInv'
  OBVIOUS
<1> USE ResetKeyAssumption
<1>1. path' \in {path, NoFile}
  BY DEF PowerLoss, AfterLoss, IInv, FileGood
<1>2. [key |-> NoKey, synced |-> TRUE] \in File
  BY FileRecord
<1>3. tmp' \in [Names -> File \cup {NoFile}]
  BY <1>2 DEF PowerLoss, AfterLoss, IInv, TypeOK
<1>4. /\ pc' = [p \in Procs |-> "down"]
      /\ key' = [p \in Procs |-> NoKey]
      /\ name' = [p \in Procs |-> NoName]
      /\ tries' = [p \in Procs |-> 0]
      /\ taken' = [p \in Procs |-> [key |-> NoKey, gen |-> 0]]
      /\ gen' \in 0..MaxGen
  BY DEF PowerLoss, Untaken, IInv, TypeOK
<1>5. onDisk' \in BOOLEAN
  BY DEF PowerLoss
<1>6. TypeOK'
  <2>1. pc' \in [Procs -> Steps] /\ tries' \in [Procs -> 0..MaxTries]
    BY <1>4 DEF Steps
  <2>2. key' \in [Procs -> Keys \cup {NoKey}] /\ name' \in [Procs -> Names \cup {NoName}]
    BY <1>4
  <2>3. taken' \in [Procs -> [key : Keys \cup {NoKey}, gen : 0..MaxGen]]
    BY <1>4
  <2> QED
    BY <1>1, <1>3, <1>4, <1>5, <2>1, <2>2, <2>3 DEF TypeOK, IInv
<1>7. NamesOwned' /\ LinkReady'
  BY <1>4 DEF NamesOwned, LinkReady, InLoop
<1>8. FileGood'
  BY <1>1 DEF IInv, FileGood
<1>9. TakenGood'
  BY <1>4 DEF TakenGood
<1> QED
  BY <1>6, <1>7, <1>8, <1>9 DEF IInv

\* IInv is inductive: whatever the step and whoever takes it, it holds after.
THEOREM Inductive == Spec => []IInv
<1>1. IInv /\ [Next]_vars => IInv'
  <2> SUFFICES ASSUME IInv, [Next]_vars PROVE IInv'
    OBVIOUS
  <2>1. ASSUME NEW p \in Procs, Step(p) \/ IoError(p) \/ Kill(p) PROVE IInv'
    BY <2>1, StepType, StepNames, StepLink, StepFile, StepTaken DEF IInv
  <2>2. CASE UNCHANGED vars
    BY <2>2 DEF vars, IInv, TypeOK, NamesOwned, LinkReady, FileGood, TakenGood
  <2> QED
    BY <2>1, <2>2, DeleteIInv, PowerLossIInv DEF Next
<1> QED
  BY <1>1, InitIInv, PTL DEF Spec

\* The variables keep their types and a start loops at most MaxTries times.
THEOREM TypeCorrect == Spec => []TypeOK
  BY Inductive, PTL DEF IInv

\* No start, however many race and whatever dies, leaves a torn key file.
THEOREM NeverTornHolds == Spec => []NeverTorn
<1>1. IInv => NeverTorn
  BY DEF IInv, FileGood, NeverTorn
<1> QED
  BY <1>1, Inductive, PTL

\* All servers that took a key in one generation run with the same key.
THEOREM AgreementHolds == Spec => []Agreement
<1>1. IInv => Agreement
  BY ResetKeyAssumption DEF IInv, TakenGood, Agreement
<1> QED
  BY <1>1, Inductive, PTL

\* A running server's key is the one its next start will read.
THEOREM UpMatchesFileHolds == Spec => []UpMatchesFile
<1>1. IInv => UpMatchesFile
  BY ResetKeyAssumption DEF IInv, TakenGood, UpMatchesFile
<1> QED
  BY <1>1, Inductive, PTL

\* Once the winner returns, its key is on disk.
THEOREM InstallerDurableHolds == Spec => InstallerDurable
<1>1. IInv /\ [Next]_vars => [InstallDurable]_vars
  <2> SUFFICES ASSUME IInv, Next, NEW p \in Procs,
                      pc[p] \in {"unlink", "syncdir"}, pc'[p] = "up", taken[p].gen = gen
               PROVE  path' # NoFile /\ onDisk' /\ path'.synced
    BY DEF InstallDurable
  <2>1. SyncDir(p)
    <3>1. ASSUME NEW q \in Procs, Step(q) \/ IoError(q) \/ Kill(q) PROVE SyncDir(p)
      <4>1. q = p
        BY <3>1 DEF Step, Start, ReadPath, FillKey, CreateTmp, WriteTmp, SyncTmp, LinkTmp,
                    UnlinkTmp, SyncDir, Cleanup, IoError, Kill, Goto, Fail, Iterate,
                    IInv, TypeOK
      <4> QED
        BY <3>1, <4>1 DEF Step, Start, ReadPath, FillKey, CreateTmp, WriteTmp, SyncTmp,
                    LinkTmp, UnlinkTmp, SyncDir, Cleanup, IoError, Kill, Goto, Fail,
                    Iterate, IInv, TypeOK
    <3>2. ~DeleteKey /\ ~PowerLoss
      BY DEF DeleteKey, PowerLoss, procVars
    <3> QED
      BY <3>1, <3>2 DEF Next
  <2>2. path # NoFile /\ path.synced
    BY ResetKeyAssumption DEF IInv, TakenGood, FileGood
  <2> QED
    BY <2>1, <2>2 DEF SyncDir
<1> QED
  BY <1>1, Inductive, PTL DEF Spec, InstallerDurable

\* Every step of the racing starts is a step of the write-once register.
LEMMA StepRefines ==
    ASSUME IInv, NEW p \in Procs, Step(p) \/ IoError(p) \/ Kill(p)
    PROVE  [Store!StoreNext]_(Store!storeVars)
<1> USE ResetKeyAssumption DEF Store!storeVars
<1>0. Store!StoreRelease(p) \/ Store!StoreAdopt(p) \/ Store!StoreInstall(p)
        => Store!StoreNext
  BY DEF Store!StoreNext
<1>1. CASE UNCHANGED <<path, gen, taken>>
  BY <1>1
<1>2. CASE UNCHANGED <<path, gen>> /\ taken' = [taken EXCEPT ![p] = Untaken]
  BY <1>0, <1>2 DEF Store!StoreRelease, Store!Untaken, Untaken
<1>3. CASE ReadPath(p)
  <2>1. CASE path # NoFile
    <3>1. taken' = [taken EXCEPT ![p] = [key |-> path.key, gen |-> gen]]
      BY <1>3, <2>1 DEF ReadPath, Taken, IInv, FileGood
    <3>2. path' = path /\ gen' = gen
      BY <1>3 DEF ReadPath, dirVars
    <3>3. Store!StoreAdopt(p)
      BY <2>1, <3>1, <3>2 DEF Store!StoreAdopt, Store!Taken, IInv, FileGood
    <3> QED
      BY <1>0, <3>3
  <2>2. CASE path = NoFile
    BY <1>1, <1>3, <2>2 DEF ReadPath, dirVars
  <2> QED
    BY <2>1, <2>2
<1>4. CASE LinkTmp(p)
  <2>1. CASE path = NoFile
    <3>1. path' = [key |-> key[p], synced |-> TRUE] /\ key[p] \in Keys
      BY <1>4, <2>1 DEF LinkTmp, IInv, LinkReady
    <3>2. path' # NoFile
      BY <3>1, FileRecord
    <3>3. taken' = [taken EXCEPT ![p] = [key |-> key[p], gen |-> gen]] /\ gen' = gen
      BY <1>4, <2>1 DEF LinkTmp, Taken
    <3>4. Store!StoreInstall(p)
      BY <2>1, <3>1, <3>2, <3>3 DEF Store!StoreInstall, Store!Taken
    <3> QED
      BY <1>0, <3>4
  <2>2. CASE path # NoFile
    BY <1>1, <1>4, <2>2 DEF LinkTmp
  <2> QED
    BY <2>1, <2>2
<1>5. CASE Start(p) \/ FillKey(p) \/ CreateTmp(p) \/ WriteTmp(p) \/ SyncTmp(p)
            \/ UnlinkTmp(p) \/ SyncDir(p) \/ Cleanup(p)
  BY <1>1, <1>5 DEF Start, FillKey, CreateTmp, WriteTmp, SyncTmp, UnlinkTmp, SyncDir,
                    Cleanup, dirVars
<1>6. CASE IoError(p) \/ Kill(p)
  BY <1>2, <1>6 DEF IoError, Kill, Fail, dirVars
<1> QED
  BY <1>3, <1>4, <1>5, <1>6 DEF Step

\* The racing starts, with their temporary files and hard links, implement the
\* abstract write-once register.
THEOREM Refinement == Spec => ImplementsStore
<1>1. Init => Store!StoreInit
  BY DEF Init, Store!StoreInit, Store!Untaken, Untaken
<1>2. IInv /\ [Next]_vars => [Store!StoreNext]_(Store!storeVars)
  <2> SUFFICES ASSUME IInv, [Next]_vars PROVE [Store!StoreNext]_(Store!storeVars)
    OBVIOUS
  <2>1. CASE DeleteKey
    <3>1. Store!StoreDelete
      BY <2>1, ResetKeyAssumption DEF DeleteKey, procVars, Store!StoreDelete
    <3> QED
      BY <3>1 DEF Store!StoreNext
  <2>2. CASE PowerLoss
    <3>1. path' \in {path, NoFile}
      BY <2>2 DEF PowerLoss, AfterLoss, IInv, FileGood
    <3>2. Store!StorePowerLoss
      BY <2>2, <3>1 DEF PowerLoss, Store!StorePowerLoss, Store!Untaken, Untaken
    <3> QED
      BY <3>2 DEF Store!StoreNext
  <2>3. CASE UNCHANGED vars
    BY <2>3 DEF vars, Store!storeVars
  <2> QED
    BY <2>1, <2>2, <2>3, StepRefines DEF Next
<1> QED
  BY <1>1, <1>2, Inductive, PTL DEF Spec, ImplementsStore, Store!StoreSpec

=============================================================================
