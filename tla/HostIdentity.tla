---------------------------- MODULE HostIdentity ----------------------------
(***************************************************************************)
(* load_or_create_host_cert (hush-core/src/tls.rs): servers that start on  *)
(* one data directory share a certificate and its key, two files written   *)
(* one after the other under a lock.  A half-written default pair is       *)
(* generated anew by the next start; with configured paths a pair that     *)
(* does not match is an error.                                             *)
(*                                                                         *)
(* Pairs are numbered as they are generated; the operator's are negative.  *)
(* Any system call may fail and a server may be killed at any step, which  *)
(* releases its lock.                                                      *)
(***************************************************************************)
EXTENDS Integers, AtomicFile

CONSTANTS Servers, Nobody,
          MaxPairs      \* bound on the pairs generated

ASSUME HostIdentityAssumption ==
    /\ Nobody \notin Servers /\ MaxPairs \in Nat
    /\ None \notin -2..MaxPairs /\ Torn \notin -2..MaxPairs

VARIABLES
    explicit,   \* host_cert_path or host_key_path is configured
    cert, key,  \* the two files, by the pair they belong to
    idLock,     \* holder of .host-identity.lock
    spc,        \* server -> its step
    pair,       \* server -> the pair it generates or runs with
    made,       \* pairs generated so far
    deletes,    \* deletions of cert or key so far
    since,      \* server -> deletions when it read the files
    served,     \* the pair a server that wrote it came up with, since the last deletion
    loose       \* a server came up with files that were not on disk yet

idFiles == <<cert, key>>
idVars == <<explicit, cert, key, idLock, spc, pair, made, deletes, since, served, loose>>

\* The operator's files: a pair, two halves of different pairs, or one of them.
Provided == {<<-1, -1>>, <<-1, -2>>, <<-1, None>>, <<None, -2>>}

IdInit ==
    /\ explicit \in BOOLEAN
    /\ \E p \in {<<None, None>>} \cup (IF explicit THEN Provided ELSE {}) :
        cert = Holding(p[1]) /\ key = Holding(p[2])
    /\ idLock = Nobody
    /\ spc = [s \in Servers |-> "down"]
    /\ pair = [s \in Servers |-> 0]
    /\ made = 0 /\ deletes = 0
    /\ since = [s \in Servers |-> 0]
    /\ served = None /\ loose = FALSE

Goto(s, step) == spc' = [spc EXCEPT ![s] = step]

Start(s) ==
    /\ spc[s] = "down"
    /\ Goto(s, "lock")
    /\ UNCHANGED <<explicit, idFiles, idLock, pair, made, deletes, since, served, loose>>

\* ExclusiveFileLock::acquire.  Mutant: LOCK_NB, its failure ignored.
LockIgnored(s) ==
    /\ spc[s] = "lock"
    /\ idLock' = s
    /\ Goto(s, "read")
    /\ UNCHANGED <<explicit, idFiles, pair, made, deletes, since, served, loose>>
Lock(s) ==
    /\ spc[s] = "lock" /\ idLock = Nobody
    /\ idLock' = s
    /\ Goto(s, "read")
    /\ UNCHANGED <<explicit, idFiles, pair, made, deletes, since, served, loose>>

Unlocked(s) == IF idLock = s THEN Nobody ELSE idLock

Present == cert.cur # None /\ key.cur # None

\* make_server_config accepts the two.
ValidPair == Present /\ cert.cur = key.cur /\ cert.cur # Torn

\* Two files that do not form a pair are refused if they are the operator's;
\* the defaults are repaired.
RefusesPair == Present /\ ~ValidPair /\ explicit

\* Both files are read.  No other server writes them meanwhile.
ReadPair(s) ==
    /\ spc[s] = "read"
    /\ \/ /\ ValidPair
          /\ Goto(s, "up")
          /\ pair' = [pair EXCEPT ![s] = cert.cur]
          /\ since' = [since EXCEPT ![s] = deletes]
          /\ loose' = (loose \/ cert.disk # cert.cur \/ key.disk # key.cur)
          /\ idLock' = Unlocked(s)
          /\ UNCHANGED made
       \/ /\ RefusesPair
          /\ Goto(s, "failed")
          /\ idLock' = Unlocked(s)
          /\ UNCHANGED <<pair, made, since, loose>>
       \/ /\ ~ValidPair /\ ~RefusesPair /\ made < MaxPairs
          /\ made' = made + 1
          /\ pair' = [pair EXCEPT ![s] = made + 1]
          /\ since' = [since EXCEPT ![s] = deletes]
          /\ Goto(s, "cert")
          /\ UNCHANGED <<idLock, loose>>
    /\ UNCHANGED <<explicit, idFiles, deletes, served>>

RenameCert(s) ==
    /\ spc[s] = "cert"
    /\ cert' = Renamed(cert, pair[s])
    /\ Goto(s, "certDir")
    /\ UNCHANGED <<explicit, key, idLock, pair, made, deletes, since, served, loose>>

SyncCert(s) ==
    /\ spc[s] = "certDir"
    /\ cert' = DirSynced(cert)
    /\ Goto(s, "key")
    /\ UNCHANGED <<explicit, key, idLock, pair, made, deletes, since, served, loose>>

RenameKey(s) ==
    /\ spc[s] = "key"
    /\ key' = Renamed(key, pair[s])
    /\ Goto(s, "keyDir")
    /\ UNCHANGED <<explicit, cert, idLock, pair, made, deletes, since, served, loose>>

\* The last sync, and the return with the new pair.
SyncKey(s) ==
    /\ spc[s] = "keyDir"
    /\ key' = DirSynced(key)
    /\ Goto(s, "up")
    /\ served' = IF since[s] = deletes THEN pair[s] ELSE served
    /\ idLock' = Unlocked(s)
    /\ UNCHANGED <<explicit, cert, pair, made, deletes, since, loose>>

Working == {"lock", "read", "cert", "certDir", "key", "keyDir"}

\* The function returns an error or its process ends: the lock is dropped.
Leave(s, step) ==
    /\ Goto(s, step)
    /\ idLock' = Unlocked(s)
    /\ pair' = [pair EXCEPT ![s] = 0] /\ since' = [since EXCEPT ![s] = 0]
    /\ UNCHANGED <<explicit, idFiles, made, deletes, served, loose>>

\* A system call fails, or the two paths are the same.
IdError(s) ==
    /\ spc[s] \in Working
    /\ Leave(s, "failed")

\* The process ends or is killed.
IdStop(s) ==
    /\ spc[s] # "down"
    /\ Leave(s, "down")

\* The operator removes a file, for good.
DeleteIdentity ==
    /\ \/ cert.cur # None /\ cert' = Holding(None) /\ UNCHANGED key
       \/ key.cur # None /\ key' = Holding(None) /\ UNCHANGED cert
    /\ deletes' = deletes + 1
    /\ served' = None
    /\ UNCHANGED <<explicit, idLock, spc, pair, made, since, loose>>

IdPowerLoss ==
    /\ cert' \in AfterLoss(cert) /\ key' \in AfterLoss(key)
    /\ idLock' = Nobody
    /\ spc' = [s \in Servers |-> "down"]
    /\ pair' = [s \in Servers |-> 0] /\ since' = [s \in Servers |-> 0]
    /\ UNCHANGED <<explicit, made, deletes, served, loose>>

IdStep(s) ==
    \/ Start(s) \/ Lock(s) \/ ReadPair(s) \/ RenameCert(s) \/ SyncCert(s)
    \/ RenameKey(s) \/ SyncKey(s) \/ IdError(s) \/ IdStop(s)

-----------------------------------------------------------------------------
(* Properties.                                                            *)

\* Every variable keeps its shape, and the lock is held by the server inside.
IdTypeOK ==
    /\ explicit \in BOOLEAN /\ loose \in BOOLEAN
    /\ {cert.cur, cert.disk, key.cur, key.disk} \subseteq (-2..MaxPairs) \cup {None, Torn}
    /\ idLock \in Servers \cup {Nobody}
    /\ \A s \in Servers : idLock = s <=> spc[s] \in Working \ {"lock"}
    /\ spc \in [Servers -> Working \cup {"down", "up", "failed"}]
    /\ pair \in [Servers -> -2..MaxPairs]
    /\ made \in 0..MaxPairs /\ deletes \in Nat
    /\ since \in [Servers -> 0..deletes]
    /\ served \in (1..MaxPairs) \cup {None}

Up(s) == spc[s] = "up" /\ since[s] = deletes

\* Servers that run since the operator last touched the files run with the pair
\* in them, and so with the same one, however their starts were interleaved and
\* interrupted; and a pair that a server wrote and served is the identity from
\* then on, through kills, failing calls and power loss.
\* load_or_create_host_cert: "concurrent server starts cannot persist halves
\* from different keypairs".
IdentityStable ==
    \A s \in Servers : Up(s) =>
        /\ cert.cur = pair[s] /\ key.cur = pair[s]
        /\ served \in {None, pair[s]}

\* The pair an operator provides is never written to, valid or not.
ProvidedKept ==
    (explicit /\ cert.disk = -1 /\ key.disk \in {-1, -2}) => cert.cur = -1 /\ key.cur = key.disk

\* The host keeps the identity its clients know: one for all of its servers, and
\* the operator's where there is one.
IdentityKept == IdentityStable /\ ProvidedKept

=============================================================================
