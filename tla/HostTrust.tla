------------------------------ MODULE HostTrust ------------------------------
(***************************************************************************)
(* Servers with one host identity and clients with one known_hosts file,   *)
(* on a machine (or two, that fail together) that may lose power.  The     *)
(* host "srv" presents the identity of a running server; any other host    *)
(* presents what it likes.                                                 *)
(***************************************************************************)
EXTENDS HostIdentity, KnownHosts

CONSTANT MaxFaults      \* bound on deleted files and power losses

ASSUME HostTrustAssumption ==
    MaxFaults \in Nat /\ "srv" \in Hosts /\ -2..MaxPairs \subseteq Prints

VARIABLE losses     \* power losses so far

vars == <<idVars, khVars, losses>>

Init == IdInit /\ KhInit /\ losses = 0

\* A TLS handshake reaches the check of the certificate.
Handshake(c) ==
    \/ \E s \in Servers : spc[s] = "up" /\ CheckOrInsert(c, "srv", pair[s])
    \/ \E h \in Hosts \ {"srv"} : CheckOrInsert(c, h, -1)

PowerLoss == losses' = losses + 1 /\ IdPowerLoss /\ KhPowerLoss

Fault ==
    /\ deletes + forgets + losses < MaxFaults
    /\ \/ DeleteIdentity /\ UNCHANGED <<khVars, losses>>
       \/ Forget /\ UNCHANGED <<idVars, losses>>
       \/ PowerLoss

Next ==
    \/ \E s \in Servers : IdStep(s) /\ UNCHANGED <<khVars, losses>>
    \/ \E c \in Clients : (KhStep(c) \/ Handshake(c)) /\ UNCHANGED <<idVars, losses>>
    \/ Fault

Spec == Init /\ [][Next]_vars

\* The type invariants of both parts.
TypeOK == IdTypeOK /\ KhTypeOK /\ losses \in 0..MaxFaults

\* A client is told of a changed host certificate only if the operator removed a
\* file, or if a server adopted a pair before it was on disk: restarts, failing
\* calls, races of starts and of first uses, and power loss alone do not change
\* what "srv" presents nor what is pinned.  Nor is any file ever torn: a client
\* that cannot parse known_hosts refuses every host, and a server makes itself a
\* new identity in place of a torn one.
NoFalseAlarm ==
    /\ \A c \in Clients :
        (cpc[c] = "mismatch" /\ conn[c].host = "srv") => deletes > 0 \/ loose
    /\ Torn \notin {cert.cur, key.cur, known.cur}

=============================================================================
