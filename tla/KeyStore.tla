------------------------------ MODULE KeyStore ------------------------------
(***************************************************************************)
(* What load_or_create_stateless_reset_key promises, without saying how:   *)
(* the servers that start on one data directory share a write-once         *)
(* register.  A start either adopts the stored key or, when there is none, *)
(* stores one of its own.  An operator may delete the register and a power *)
(* loss may forget it; each of those opens a new generation, and within a  *)
(* generation every server runs with the same key.                         *)
(***************************************************************************)
EXTENDS Naturals

CONSTANTS Procs,      \* server processes sharing one data directory
          Keys,       \* 64-byte keys
          NoKey,      \* "no key": the file is absent, the start has no key
          MaxGen      \* bound on deletions and power losses

VARIABLES stored,   \* the key in the register, or NoKey
          gen,      \* generations opened so far
          taken     \* per process: the key it runs with, and its generation

storeVars == <<stored, gen, taken>>

Untaken == [key |-> NoKey, gen |-> 0]
Taken(k) == [key |-> k, gen |-> gen]

StoreInit ==
    /\ stored = NoKey
    /\ gen = 0
    /\ taken = [p \in Procs |-> Untaken]

StoreInstall(p) ==
    /\ stored = NoKey
    /\ \E k \in Keys :
        /\ stored' = k
        /\ taken' = [taken EXCEPT ![p] = Taken(k)]
    /\ UNCHANGED gen

StoreAdopt(p) ==
    /\ stored # NoKey
    /\ taken' = [taken EXCEPT ![p] = Taken(stored)]
    /\ UNCHANGED <<stored, gen>>

\* A start that dies or gives up no longer runs with a key.
StoreRelease(p) ==
    /\ taken' = [taken EXCEPT ![p] = Untaken]
    /\ UNCHANGED <<stored, gen>>

StoreDelete ==
    /\ gen < MaxGen
    /\ stored' = NoKey
    /\ gen' = gen + 1
    /\ UNCHANGED taken

\* Every process dies; the register is forgotten or not.
StorePowerLoss ==
    /\ gen < MaxGen
    /\ stored' \in {stored, NoKey}
    /\ gen' = gen + 1
    /\ taken' = [p \in Procs |-> Untaken]

StoreNext ==
    \/ \E p \in Procs : StoreInstall(p) \/ StoreAdopt(p) \/ StoreRelease(p)
    \/ StoreDelete
    \/ StorePowerLoss

StoreSpec == StoreInit /\ [][StoreNext]_storeVars

=============================================================================
