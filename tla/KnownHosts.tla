----------------------------- MODULE KnownHosts -----------------------------
(***************************************************************************)
(* Trust on first use (hush-core/src/tls.rs, KnownHosts and                *)
(* TofuServerVerifier): clients that share a known_hosts file check the    *)
(* fingerprint a server presents, and pin it when the host is new.  Each   *)
(* takes a snapshot of the file early and reads it again under a lock when *)
(* it may have to add to it.                                               *)
(***************************************************************************)
EXTENDS Integers, AtomicFile

CONSTANTS Clients, Hosts,
          Prints,       \* fingerprints
          NoPrint, NoHost, NoClient

Pins == [Hosts -> Prints \cup {NoPrint}]

ASSUME KnownHostsAssumption ==
    /\ NoPrint \notin Prints /\ NoClient \notin Clients /\ NoHost \notin Hosts
    /\ None \notin Pins /\ Torn \notin Pins

NoPins == [h \in Hosts |-> NoPrint]
Trusts == {"tofu", "knownOnly", "insecure"}

VARIABLES
    known,      \* the file known_hosts
    khLock,     \* holder of .known_hosts.lock
    cpc,        \* client -> its step
    entries,    \* client -> KnownHosts::entries while it saves them
    conn,       \* client -> the host it connects to, and what that presented
    trust,      \* client -> HostTrust
    forgets,    \* deletions of known_hosts so far
    asOf        \* client -> deletions when it read the file

khVars == <<known, khLock, cpc, entries, conn, trust, forgets, asOf>>

NoConn == [host |-> NoHost, print |-> NoPrint]

KhInit ==
    /\ known = Holding(None)
    /\ khLock = NoClient
    /\ cpc = [c \in Clients |-> "idle"]
    /\ entries = [c \in Clients |-> NoPins]
    /\ conn = [c \in Clients |-> NoConn]
    /\ trust = [c \in Clients |-> "insecure"]
    /\ forgets = 0
    /\ asOf = [c \in Clients |-> 0]

Step(c, step) == cpc' = [cpc EXCEPT ![c] = step]

\* read_entries: a missing file holds no pins; one that does not parse is an error.
Readable == known.cur # Torn
Read == IF known.cur = None THEN NoPins ELSE known.cur

\* make_client_config loads the file, and verify_server_cert begins
\* check_or_insert.  What was loaded is read again before it is used.
CheckOrInsert(c, h, fp) ==
    /\ cpc[c] = "idle" /\ Readable
    /\ conn' = [conn EXCEPT ![c] = [host |-> h, print |-> fp]]
    /\ \E t \in Trusts :
        /\ trust' = [trust EXCEPT ![c] = t]
        /\ Step(c, CASE t = "insecure" -> "accepted" [] t = "knownOnly" -> "check"
                     [] t = "tofu" -> "lock")
    /\ UNCHANGED <<known, khLock, entries, forgets, asOf>>

\* ExclusiveFileLock::acquire.
LockPins(c) ==
    /\ cpc[c] = "lock" /\ khLock = NoClient
    /\ khLock' = c
    /\ Step(c, "check")
    /\ UNCHANGED <<known, entries, conn, trust, forgets, asOf>>

PinsUnlocked(c) == IF khLock = c THEN NoClient ELSE khLock

\* The entries with the new pin.  Mutant: as they were before the lock.
InsertedStale(c) == [NoPins EXCEPT ![conn[c].host] = conn[c].print]
Inserted(c) == [Read EXCEPT ![conn[c].host] = conn[c].print]

\* read_entries, check_existing, and the insertion into the entries.
Check(c) ==
    /\ cpc[c] = "check" /\ Readable
    /\ asOf' = [asOf EXCEPT ![c] = forgets]
    /\ LET old == Read[conn[c].host] IN
        \/ /\ old = conn[c].print
           /\ Step(c, "accepted")
           /\ khLock' = PinsUnlocked(c)
           /\ UNCHANGED entries
        \/ /\ old \notin {conn[c].print, NoPrint}
           /\ Step(c, "mismatch")
           /\ khLock' = PinsUnlocked(c)
           /\ UNCHANGED entries
        \/ /\ old = NoPrint /\ trust[c] = "knownOnly"
           /\ Step(c, "refused")
           /\ UNCHANGED <<khLock, entries>>
        \/ /\ old = NoPrint /\ trust[c] = "tofu"
           /\ entries' = [entries EXCEPT ![c] = Inserted(c)]
           /\ Step(c, "save")
           /\ UNCHANGED khLock
    /\ UNCHANGED <<known, conn, trust, forgets>>

\* save.
RenamePins(c) ==
    /\ cpc[c] = "save"
    /\ known' = Renamed(known, entries[c])
    /\ Step(c, "saveDir")
    /\ entries' = [entries EXCEPT ![c] = NoPins]
    /\ UNCHANGED <<khLock, conn, trust, forgets, asOf>>

SyncPins(c) ==
    /\ cpc[c] = "saveDir"
    /\ known' = DirSynced(known)
    /\ Step(c, "accepted")
    /\ khLock' = PinsUnlocked(c)
    /\ UNCHANGED <<entries, conn, trust, forgets, asOf>>

\* The check is over without an answer, or the client: its lock is dropped.
Drop(c, step) ==
    /\ Step(c, step)
    /\ khLock' = PinsUnlocked(c)
    /\ entries' = [entries EXCEPT ![c] = NoPins]
    /\ conn' = [conn EXCEPT ![c] = NoConn]
    /\ trust' = [trust EXCEPT ![c] = "insecure"]
    /\ asOf' = [asOf EXCEPT ![c] = 0]
    /\ UNCHANGED <<known, forgets>>

\* A system call fails, or the file does not parse: the handshake is refused.
KhError(c) ==
    /\ cpc[c] \in {"lock", "check", "save", "saveDir"}
    /\ Drop(c, "refused")

\* The client ends or is killed.
KhStop(c) ==
    /\ cpc[c] # "idle"
    /\ Drop(c, "idle")

\* The user removes the file.
Forget ==
    /\ known.cur # None
    /\ known' = Holding(None)
    /\ forgets' = forgets + 1
    /\ UNCHANGED <<khLock, cpc, entries, conn, trust, asOf>>

KhPowerLoss ==
    /\ known' \in AfterLoss(known)
    /\ khLock' = NoClient
    /\ cpc' = [c \in Clients |-> "idle"]
    /\ entries' = [c \in Clients |-> NoPins]
    /\ conn' = [c \in Clients |-> NoConn]
    /\ trust' = [c \in Clients |-> "insecure"]
    /\ asOf' = [c \in Clients |-> 0]
    /\ UNCHANGED forgets

KhStep(c) ==
    \/ LockPins(c) \/ Check(c) \/ RenamePins(c) \/ SyncPins(c)
    \/ KhError(c) \/ KhStop(c)

-----------------------------------------------------------------------------
(* Properties.                                                            *)

\* Every variable keeps its shape, and the lock is held by the client inside.
KhTypeOK ==
    /\ {known.cur, known.disk} \subseteq Pins \cup {None, Torn}
    /\ khLock \in Clients \cup {NoClient}
    /\ \A c \in Clients : khLock = c <=>
        cpc[c] \in {"save", "saveDir"} \/ (cpc[c] = "check" /\ trust[c] = "tofu")
    /\ cpc \in [Clients -> {"idle", "lock", "check", "save", "saveDir", "accepted",
                            "mismatch", "refused"}]
    /\ entries \in [Clients -> Pins]
    /\ conn \in [Clients -> [host : Hosts \cup {NoHost}, print : Prints \cup {NoPrint}]]
    /\ trust \in [Clients -> Trusts]
    /\ forgets \in Nat /\ asOf \in [Clients -> 0..forgets]

\* A client that accepted a certificate finds it pinned as long as nobody
\* removed the file, whatever other clients do: two of them never trust
\* different certificates for one host, and no pin is lost to another's save.
AcceptedIsPinned ==
    \A c \in Clients :
        (cpc[c] = "accepted" /\ trust[c] # "insecure" /\ asOf[c] = forgets) =>
            Readable /\ Read[conn[c].host] = conn[c].print

=============================================================================
