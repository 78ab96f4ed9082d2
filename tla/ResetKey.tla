------------------------------ MODULE ResetKey ------------------------------
(***************************************************************************)
(* load_or_create_stateless_reset_key (hush-core/src/endpoint.rs): several *)
(* server processes start on one data directory, with no lock between      *)
(* them.  Each reads stateless_reset.key or installs a fresh key by        *)
(* writing a temporary file and hard-linking it to the final name.         *)
(*                                                                         *)
(* Every system call that another process can observe is a step of its     *)
(* own.  A file is a record of its contents and of whether they are on     *)
(* disk.  A hard link copies the record: the handle is dropped before the  *)
(* link, so no write reaches the file once it has two names.  A process    *)
(* may be killed at any step, any system call may fail, the operator may   *)
(* delete the key and the machine may lose power.                          *)
(***************************************************************************)
EXTENDS Naturals

CONSTANTS Procs,      \* server processes sharing one data directory
          Keys,       \* 64-byte keys a process may generate
          NoKey,      \* no key, or contents that are not 64 bytes
          Names,      \* temporary file names (12 random bytes, in hex)
          NoName,     \* no temporary name drawn
          NoFile,     \* a directory entry that does not exist
          MaxTries,   \* 32 in the code
          MaxGen      \* bound on deletions and power losses

File == [key : Keys \cup {NoKey}, synced : BOOLEAN]

ASSUME ResetKeyAssumption ==
    /\ NoKey \notin Keys
    /\ NoName \notin Names
    /\ NoFile \notin File
    /\ MaxTries \in Nat
    /\ MaxGen \in Nat

VARIABLES path,     \* the file stateless_reset.key names, or NoFile
          onDisk,   \* the entry stateless_reset.key is on disk
          tmp,      \* temporary name -> the file it names, or NoFile
          pc,       \* process -> the system call it performs next
          key,      \* process -> the key it generated
          name,     \* process -> the temporary name it drew
          tries,    \* process -> iterations of the install loop begun
          gen,      \* deletions and power losses so far
          taken     \* process -> the key it will run with, and since when

dirVars == <<path, onDisk, tmp>>
procVars == <<pc, key, name, tries, taken>>
vars == <<path, onDisk, tmp, pc, key, name, tries, gen, taken>>

Steps == {"down", "read", "fill", "create", "write", "sync", "link",
          "unlink", "syncdir", "unlinkLost", "cleanup", "up", "failed"}

Untaken == [key |-> NoKey, gen |-> 0]
Taken(k) == [key |-> k, gen |-> gen]

Init ==
    /\ path = NoFile
    /\ onDisk = FALSE
    /\ tmp = [n \in Names |-> NoFile]
    /\ pc = [p \in Procs |-> "down"]
    /\ key = [p \in Procs |-> NoKey]
    /\ name = [p \in Procs |-> NoName]
    /\ tries = [p \in Procs |-> 0]
    /\ gen = 0
    /\ taken = [p \in Procs |-> Untaken]

Goto(p, step) == pc' = [pc EXCEPT ![p] = step]

\* An error return; inside the install closure the cleanup comes first.
Fail(p) ==
    /\ Goto(p, IF name[p] = NoName THEN "failed" ELSE "cleanup")
    /\ taken' = [taken EXCEPT ![p] = Untaken]

\* The next iteration of `for _ in 0..32`, or the error after the last one.
Iterate(p, done) == Goto(p, IF done < MaxTries THEN "create" ELSE "failed")

-----------------------------------------------------------------------------
(* The call.                                                              *)

Start(p) ==
    /\ pc[p] = "down"
    /\ Goto(p, "read")
    /\ UNCHANGED <<dirVars, key, name, tries, gen, taken>>

\* read_stateless_reset_key: exactly 64 bytes or an error.  NotFound leads to
\* generating a key the first time, and to the next iteration after a lost
\* race.  Only its `open` touches what other processes change.
ReadPath(p) ==
    /\ pc[p] = "read"
    /\ \/ /\ path = NoFile /\ key[p] = NoKey
          /\ Goto(p, "fill")
          /\ UNCHANGED <<name, taken>>
       \/ /\ path = NoFile /\ key[p] # NoKey
          /\ Iterate(p, tries[p])
          /\ name' = [name EXCEPT ![p] = NoName]
          /\ UNCHANGED taken
       \/ /\ path # NoFile /\ path.key \in Keys
          /\ Goto(p, "up")
          /\ name' = [name EXCEPT ![p] = NoName]
          /\ taken' = [taken EXCEPT ![p] = Taken(path.key)]
       \/ /\ path # NoFile /\ path.key \notin Keys
          /\ Fail(p)
          /\ UNCHANGED name
    /\ UNCHANGED <<dirVars, key, tries, gen>>

FillKey(p) ==
    /\ pc[p] = "fill"
    /\ \E k \in Keys : key' = [key EXCEPT ![p] = k]
    /\ Iterate(p, 0)
    /\ UNCHANGED <<dirVars, name, tries, gen, taken>>

\* create_new under a random name; a name already in use costs an iteration.
\* No two running calls draw the same 96 random bits, but a file that a killed
\* process left behind may be in the way.
CreateTmp(p) ==
    /\ pc[p] = "create"
    /\ tries' = [tries EXCEPT ![p] = @ + 1]
    /\ \E n \in {m \in Names : \A q \in Procs : name[q] # m} :
        \/ /\ tmp[n] = NoFile
           /\ tmp' = [tmp EXCEPT ![n] = [key |-> NoKey, synced |-> FALSE]]
           /\ name' = [name EXCEPT ![p] = n]
           /\ Goto(p, "write")
        \/ /\ tmp[n] # NoFile
           /\ Iterate(p, tries[p] + 1)
           /\ UNCHANGED <<tmp, name>>
    /\ UNCHANGED <<path, onDisk, key, gen, taken>>

\* Mutant of WriteTmp: the contents are not synced before the link.
WriteTmpNoSync(p) ==
    /\ pc[p] = "write"
    /\ tmp' = [tmp EXCEPT ![name[p]] = [key |-> key[p], synced |-> FALSE]]
    /\ Goto(p, "link")
    /\ UNCHANGED <<path, onDisk, key, name, tries, gen, taken>>

WriteTmp(p) ==
    /\ pc[p] = "write"
    /\ tmp' = [tmp EXCEPT ![name[p]] = [key |-> key[p], synced |-> FALSE]]
    /\ Goto(p, "sync")
    /\ UNCHANGED <<path, onDisk, key, name, tries, gen, taken>>

\* sync_all, and the drop of the file.
SyncTmp(p) ==
    /\ pc[p] = "sync"
    /\ tmp' = [tmp EXCEPT ![name[p]] = [key |-> key[p], synced |-> TRUE]]
    /\ Goto(p, "link")
    /\ UNCHANGED <<path, onDisk, key, name, tries, gen, taken>>

\* Mutant of LinkTmp: rename instead of hard_link replaces another's key.
LinkTmpRenames(p) ==
    /\ pc[p] = "link"
    /\ path' = tmp[name[p]]
    /\ onDisk' = FALSE
    /\ taken' = [taken EXCEPT ![p] = Taken(key[p])]
    /\ Goto(p, "unlink")
    /\ UNCHANGED <<tmp, key, name, tries, gen>>

\* Mutant of LinkTmp: the loser of the race keeps its own key.
LinkTmpKeepsOwn(p) ==
    /\ pc[p] = "link"
    /\ path' = IF path = NoFile THEN tmp[name[p]] ELSE path
    /\ onDisk' = (path # NoFile /\ onDisk)
    /\ taken' = [taken EXCEPT ![p] = Taken(key[p])]
    /\ Goto(p, "unlink")
    /\ UNCHANGED <<tmp, key, name, tries, gen>>

\* hard_link fails with AlreadyExists when another process was first.
LinkTmp(p) ==
    /\ pc[p] = "link"
    /\ \/ /\ path = NoFile
          /\ path' = tmp[name[p]]
          /\ onDisk' = FALSE
          /\ taken' = [taken EXCEPT ![p] = Taken(key[p])]
          /\ Goto(p, "unlink")
       \/ /\ path # NoFile
          /\ Goto(p, "unlinkLost")
          /\ UNCHANGED <<path, onDisk, taken>>
    /\ UNCHANGED <<tmp, key, name, tries, gen>>

\* Mutant of UnlinkTmp: the winner returns without syncing the directory.
UnlinkTmpNoSyncDir(p) ==
    /\ pc[p] \in {"unlink", "unlinkLost"}
    /\ tmp' = [tmp EXCEPT ![name[p]] = NoFile]
    /\ Goto(p, IF pc[p] = "unlink" THEN "up" ELSE "read")
    /\ UNCHANGED <<path, onDisk, key, name, tries, gen, taken>>

\* remove_file(&tmp), on the winner's and on the loser's branch.
UnlinkTmp(p) ==
    /\ pc[p] \in {"unlink", "unlinkLost"}
    /\ tmp' = [tmp EXCEPT ![name[p]] = NoFile]
    /\ Goto(p, IF pc[p] = "unlink" THEN "syncdir" ELSE "read")
    /\ UNCHANGED <<path, onDisk, key, name, tries, gen, taken>>

\* The directory's entries reach the disk, and the winner returns its key.
SyncDir(p) ==
    /\ pc[p] = "syncdir"
    /\ onDisk' = (path # NoFile)
    /\ Goto(p, "up")
    /\ name' = [name EXCEPT ![p] = NoName]
    /\ UNCHANGED <<path, tmp, key, tries, gen, taken>>

\* A system call fails.  Inside the install closure the temporary name is
\* removed before the error is returned; a key already linked stays.
IoError(p) ==
    /\ pc[p] \in Steps \ {"down", "cleanup", "up", "failed"}
    /\ Fail(p)
    /\ UNCHANGED <<dirVars, key, name, tries, gen>>

\* `if install.is_err() { let _ = fs::remove_file(&tmp); }`
Cleanup(p) ==
    /\ pc[p] = "cleanup"
    /\ tmp' \in {tmp, [tmp EXCEPT ![name[p]] = NoFile]}
    /\ Goto(p, "failed")
    /\ name' = [name EXCEPT ![p] = NoName]
    /\ UNCHANGED <<path, onDisk, key, tries, gen, taken>>

-----------------------------------------------------------------------------
(* The environment.                                                       *)

\* The process ends: killed during the call, after it failed, or while it
\* serves with its key.
Kill(p) ==
    /\ pc[p] # "down"
    /\ Goto(p, "down")
    /\ key' = [key EXCEPT ![p] = NoKey]
    /\ name' = [name EXCEPT ![p] = NoName]
    /\ tries' = [tries EXCEPT ![p] = 0]
    /\ taken' = [taken EXCEPT ![p] = Untaken]
    /\ UNCHANGED <<dirVars, gen>>

\* The operator deletes the key file (and the deletion reaches the disk).
DeleteKey ==
    /\ gen < MaxGen /\ path # NoFile
    /\ path' = NoFile /\ onDisk' = FALSE
    /\ gen' = gen + 1
    /\ UNCHANGED <<tmp, procVars>>

\* What a power loss leaves of a file: contents not synced are incomplete.
AfterLoss(f) ==
    IF f # NoFile /\ ~f.synced THEN [key |-> NoKey, synced |-> TRUE] ELSE f

\* An entry not yet on disk may be gone.
PowerLoss ==
    /\ gen < MaxGen
    /\ \/ path' = AfterLoss(path)
       \/ ~onDisk /\ path' = NoFile
    /\ onDisk' = (path' # NoFile)
    /\ \/ tmp' = [n \in Names |-> AfterLoss(tmp[n])]
       \/ tmp' = [n \in Names |-> NoFile]
    /\ gen' = gen + 1
    /\ pc' = [p \in Procs |-> "down"]
    /\ key' = [p \in Procs |-> NoKey]
    /\ name' = [p \in Procs |-> NoName]
    /\ tries' = [p \in Procs |-> 0]
    /\ taken' = [p \in Procs |-> Untaken]

Step(p) ==
    \/ Start(p) \/ ReadPath(p) \/ FillKey(p) \/ CreateTmp(p) \/ WriteTmp(p)
    \/ SyncTmp(p) \/ LinkTmp(p) \/ UnlinkTmp(p) \/ SyncDir(p) \/ Cleanup(p)

Next ==
    \/ \E p \in Procs : Step(p) \/ IoError(p) \/ Kill(p)
    \/ DeleteKey
    \/ PowerLoss

Spec == Init /\ [][Next]_vars

-----------------------------------------------------------------------------
(* Properties.                                                            *)

\* Every variable keeps its shape: the directory entries of server_dir, the
\* files they name, where each call of the function is, and at most MaxTries
\* iterations of its loop.
TypeOK ==
    /\ path \in File \cup {NoFile}
    /\ onDisk \in BOOLEAN
    /\ tmp \in [Names -> File \cup {NoFile}]
    /\ pc \in [Procs -> Steps]
    /\ key \in [Procs -> Keys \cup {NoKey}]
    /\ name \in [Procs -> Names \cup {NoName}]
    /\ tries \in [Procs -> 0..MaxTries]
    /\ gen \in 0..MaxGen
    /\ taken \in [Procs -> [key : Keys \cup {NoKey}, gen : 0..MaxGen]]

\* The name stateless_reset.key never refers to an incomplete file, not even
\* after a power loss, because the contents are synced before the link: a
\* later start never fails with "invalid stateless reset key length".
NeverTorn == path # NoFile => path.key \in Keys

\* Two servers that took their key in the same generation run with the same
\* key, whichever of them won the race to link it, whatever else was killed.
Agreement ==
    \A p, q \in Procs :
        (pc[p] = "up" /\ pc[q] = "up" /\ taken[p].gen = taken[q].gen)
            => taken[p].key = taken[q].key

\* A server that is up and whose generation has not ended runs with the key on
\* file: its next start will read the same one.
UpMatchesFile ==
    \A p \in Procs :
        (pc[p] = "up" /\ taken[p].gen = gen)
            => path # NoFile /\ path.key = taken[p].key

\* The winner's last step: from the install branch to the return of its key.
InstallDurable ==
    \A p \in Procs :
        (pc[p] \in {"unlink", "syncdir"} /\ pc'[p] = "up" /\ taken[p].gen = gen)
            => path' # NoFile /\ onDisk' /\ path'.synced

\* The process that installed the key returns it only once the entry is on
\* disk, so from then on no power loss takes it back (a process that lost the
\* race gives no such guarantee: it may return before the winner's sync).
InstallerDurable == [][InstallDurable]_vars

\* The store this module implements: the register is the file's contents.
Store == INSTANCE KeyStore WITH
            stored <- IF path = NoFile THEN NoKey ELSE path.key

\* Linking is the atomic installation of a key, opening the file is its
\* adoption, and no other step of any process changes what is stored.
ImplementsStore == Store!StoreSpec

=============================================================================
