------------------------------- MODULE Login -------------------------------
(***************************************************************************)
(* From a command line to a served connection: connect (hush/src/main.rs)  *)
(* reads the configuration, resolves its settings, loads an identity and   *)
(* signs the handshake with it; the server authenticates the connection    *)
(* (hush-core/src/server.rs).  Composes SshConfig, Identity and            *)
(* Authorization.  `world` is what they find: the command line, the        *)
(* config file, the user's machine and the server.                         *)
(***************************************************************************)
EXTENDS SshConfig, Authorization, FiniteSets

CONSTANT LongNames      \* user names of 128 bytes and more

VARIABLES world, stage,
          line, parse,  \* lines of the file read, and what they gave
          resolved,     \* user, host, port, identity file and agent to use
          identity      \* LoadedIdentity

loginVars == <<world, stage, line, parse, resolved, identity>>

IsSeq(s) == s \in Seq({s[i] : i \in DOMAIN s})

\* What there is to find.  A host name has a character, and no * in it; an agent
\* is at a path, never at the word that stands for a key file.
IsWorld(w) ==
    /\ IsSeq(w.file)
    /\ \A i \in DOMAIN w.file : LET v == w.file[i].value IN
         /\ w.file[i].key \in {"host", "setenv"} => IsSeq(v)
         /\ w.file[i].key = "host" =>
              \A p \in DOMAIN v : IsSeq(v[p].glob) /\ v[p].neg \in BOOLEAN
    /\ IsSeq(w.alias) /\ w.alias # <<>> /\ \A i \in DOMAIN w.alias : w.alias[i] # "*"
    /\ "file" \notin DOMAIN w.env.agents
    /\ \A s \in DOMAIN w.env.agents : IsSeq(w.env.agents[s])
    /\ \A f \in DOMAIN w.server.files : LET lines == w.server.files[f].lines IN
         /\ IsSeq(lines)
         /\ \A i \in DOMAIN lines : lines[i] = [kind |-> lines[i].kind, key |-> lines[i].key]

LoginInit(worlds) ==
    /\ world \in worlds /\ stage = "config" /\ line = 0
    /\ parse = [active |-> FALSE, cfg |-> SshHostConfig, failed |-> FALSE]
    /\ resolved = Unset /\ identity = Failed

\* The first of some settings that is there.
FirstSet(settings) ==
    LET at == {i \in DOMAIN settings : settings[i] # Unset}
    IN settings[CHOOSE i \in at : \A j \in at : i <= j]

-----------------------------------------------------------------------------

ReadConfigLine ==
    /\ stage = "config" /\ line < Len(world.file)
    /\ line' = line + 1
    /\ parse' = ReadLine(parse, world.file[line'], world.alias)
    /\ stage' = IF parse'.failed THEN "failed" ELSE stage
    /\ UNCHANGED <<world, resolved, identity>>

\* connect: the command line before the configuration before the defaults.
ResolveSettings ==
    /\ stage = "config" /\ line = Len(world.file)
    /\ LET c == parse.cfg
       IN resolved' =
            [user |-> FirstSet(<<world.cli.user, c["user"], world.env.user>>),
             host |-> FirstSet(<<c["hostname"], world.alias>>),
             port |-> FirstSet(<<world.cli.port, c["port"], 22022>>),
             file |-> FirstSet(<<world.cli.file, c["identityfile"], NoKey>>),
             agent |-> FirstSet(<<c["identityagent"], "default">>)]
    /\ stage' = "identity"
    /\ UNCHANGED <<world, line, parse, identity>>

\* load_identity_with_options, and the user name for the certificate.
LoadKey ==
    /\ stage = "identity"
    /\ identity' \in LoadIdentity(world.env, resolved.file, resolved.agent, world.cli.prompt)
    /\ stage' = IF identity' = Failed \/ resolved.user \in LongNames THEN "failed" ELSE "handshake"
    /\ UNCHANGED <<world, line, parse, resolved>>

\* The handshake: a server that started, and a signature.  The agent may have
\* dropped the key since it listed it, or refuse.
Handshake ==
    /\ stage = "handshake"
    /\ \/ Validate(world.server) /\ stage' = "pending"
       \/ (identity.via # "file" \/ ~Validate(world.server)) /\ stage' = "failed"
    /\ UNCHANGED <<world, line, parse, resolved, identity>>

\* PendingConnection: the key and the user of the peer's certificate.
Authenticate ==
    /\ stage = "pending"
    /\ stage' = IF CheckAuthorization(world.server, resolved.user, identity.key)
                  THEN "served" ELSE "refused"
    /\ UNCHANGED <<world, line, parse, resolved, identity>>

LoginNext == ReadConfigLine \/ ResolveSettings \/ LoadKey \/ Handshake \/ Authenticate

LoginSpec(worlds) == LoginInit(worlds) /\ [][LoginNext]_loginVars

-----------------------------------------------------------------------------
(* Properties.                                                            *)

\* The lines with key k that govern the alias.
LinesFor(k) == {i \in DOMAIN world.file : world.file[i].key = k /\ Governed(world.file, i, world.alias)}

\* The settings are those of the first matching block that gives them, by a
\* reading of globs, negations and blocks that does not depend on the order of
\* the loop; forwards add up, in the order of their lines; and only a line of a
\* matching block is an error.
ConfigFirst ==
    /\ stage \notin {"config", "failed"} =>
         /\ \A k \in Single : parse.cfg[k] = Meaning(world.file, world.alias, k)
         /\ \A k \in Forwards :
              /\ parse.cfg[k] \in Seq({ParseForward(world.file[i].value) : i \in LinesFor(k)})
              /\ Len(parse.cfg[k]) = Cardinality(LinesFor(k))
              /\ \A i \in LinesFor(k) :
                   parse.cfg[k][Cardinality({j \in LinesFor(k) : j <= i})] = ParseForward(world.file[i].value)
         /\ \A i \in LinesFor("setenv") : (\A j \in LinesFor("setenv") : i <= j) =>
                parse.cfg["setenv"] = ParseSetEnv(world.file[i].value)
    /\ parse.failed => Governed(world.file, line, world.alias)

\* With an identity file on the command line or in the configuration, no other
\* key is presented: its own, or the one its .pub names, held by the agent that
\* was asked for; without one, the agent's key of a default file comes first.
PresentsConfiguredKey ==
    stage \in {"handshake", "pending", "served", "refused"} =>
        LET e == world.env
            f == resolved.file
            held == IF identity.via \in DOMAIN e.agents THEN e.agents[identity.via] ELSE <<>>
            holds == {held[i] : i \in DOMAIN held}
        IN /\ identity.key \in Supported
           /\ f # NoKey /\ identity.via = "file" => identity.key = e.private[f].key
           /\ f # NoKey /\ identity.via # "file" => identity.key = e.pub[f]
           /\ identity.via # "file" =>
                /\ resolved.agent # "none" /\ identity.key \in holds
                /\ resolved.agent # "default" => identity.via = resolved.agent
           /\ f = NoKey /\ identity.via # "file" /\ PreferredPublicKey(e) \in holds \cap Supported
                => identity.key = PreferredPublicKey(e)

\* A served connection is that of the user who was asked for, with a key that
\* stands bare in the file of that user before any line with options for it;
\* and where root reads one file for all users, the user is one it was told of.
AuthorizedMeansListed ==
    stage = "served" =>
        LET s == world.server
            u == resolved.user
            c == RuntimeConfig(s)
            f == KeysOf(s, u)
            Has(i, kind) == f.lines[i] = [kind |-> kind, key |-> identity.key]
        IN /\ u = FirstSet(<<world.cli.user, Meaning(world.file, world.alias, "user"), world.env.user>>)
           /\ \E i \in DOMAIN f.lines : Has(i, "bare") /\ \A j \in 1..i : ~Has(j, "options")
           /\ u = s.user \/ s.root
           /\ c.allowUsers # {} \/ (s.root /\ c.keys # "unset") => u \in c.allowUsers

=============================================================================
