------------------------------ MODULE Identity ------------------------------
(***************************************************************************)
(* The key the client presents: load_identity_with_options and what it     *)
(* calls (hush-core/src/auth.rs).  `env` is the user's machine: the agents *)
(* at sockets, SSH_AUTH_SOCK, and key files with their .pub files.  Key    *)
(* formats and the encodings of keys and signatures are left out.          *)
(***************************************************************************)
EXTENDS Integers, Sequences

CONSTANTS NoKey,        \* a file that is missing or holds no key
          Supported     \* keys of an algorithm hush authenticates with

ASSUME KeyAssumption == NoKey \notin Supported

DEFAULT_IDENTITY_FILES == <<"id_ed25519", "id_ecdsa">>

Failed == [key |-> NoKey, via |-> "failed"]

\* AgentSocket::resolve.
ResolveSocket(env, setting) ==
    IF setting = "default" THEN env.authSock
    ELSE IF setting = "none" THEN "no socket" ELSE setting

\* list_agent_identities: the keys in the agent's order; none without an agent,
\* or when it refuses or answers badly.
ListAgentIdentities(env, socket) == IF socket \in DOMAIN env.agents THEN env.agents[socket] ELSE <<>>

\* The first of a sequence of keys in a set, as an identity of the agent.
FirstIn(keys, set, socket) ==
    LET at == {i \in DOMAIN keys : keys[i] \in set}
    IN IF at = {} THEN Failed
       ELSE [key |-> keys[CHOOSE i \in at : \A j \in at : i <= j], via |-> socket]

\* preferred_public_key: the first default .pub file that holds a key.
PreferredPublicKey(env) ==
    LET at == {i \in DOMAIN DEFAULT_IDENTITY_FILES : env.pub[DEFAULT_IDENTITY_FILES[i]] # NoKey}
    IN IF at = {} THEN NoKey
       ELSE env.pub[DEFAULT_IDENTITY_FILES[CHOOSE i \in at : \A j \in at : i <= j]]

\* load_identity_from_agent: the preferred key if the agent has it, or its first
\* supported one.
LoadFromAgent(env, socket) ==
    LET keys == ListAgentIdentities(env, socket)
        preferred == PreferredPublicKey(env)
        match == FirstIn(keys, {preferred} \cap Supported, socket)
    IN IF preferred # NoKey /\ match # Failed THEN match ELSE FirstIn(keys, Supported, socket)

\* Mutant of LoadFromAgentMatching: any key of the agent will do.
LoadFromAgentAny(env, socket, file) == LoadFromAgent(env, socket)

\* load_identity_from_agent_matching_file: the key named by the file's .pub.
LoadFromAgentMatching(env, socket, file) ==
    FirstIn(ListAgentIdentities(env, socket), {env.pub[file]} \cap Supported, socket)

\* load_identity_from_file_with: the outcomes, as the passphrase is right or not.
LoadFromFile(env, file, prompt) ==
    LET k == env.private[file]
        loaded == [key |-> k.key, via |-> "file"]
    IN IF k.key \notin Supported \/ (k.encrypted /\ ~prompt) THEN {Failed}
       ELSE IF k.encrypted THEN {loaded, Failed} ELSE {loaded}

\* The first default file there is, or the first of them.
DefaultFile(env) ==
    IF env.private["id_ed25519"].key = NoKey /\ env.private["id_ecdsa"].key # NoKey
    THEN "id_ecdsa" ELSE "id_ed25519"

\* load_identity_with_options: the identities it may return.
LoadIdentity(env, file, setting, prompt) ==
    LET socket == ResolveSocket(env, setting)
        agent == IF socket = "no socket" THEN Failed
                 ELSE IF file # NoKey THEN LoadFromAgentMatching(env, socket, file)
                 ELSE LoadFromAgent(env, socket)
    IN IF agent # Failed THEN {agent}
       ELSE LoadFromFile(env, IF file # NoKey THEN file ELSE DefaultFile(env), prompt)

=============================================================================
