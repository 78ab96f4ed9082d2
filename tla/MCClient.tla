------------------------------ MODULE MCClient ------------------------------
(* Four parts of the client that share no state, checked in one run:       *)
(* `part` says which of them a behaviour is about.                         *)
EXTENDS EscapeFilter, AltScreen, Login, CopyPlan, TLC

Cat(ws) == FoldLeft(LAMBDA a, b : a \o b, <<>>, ws)
UpTo(n, S) == UNION {[1..k -> S] : k \in 0..n}

\* Keys and reports the terminal sends: plain, as kitty events, cut short.
Typed ==
    {<<"CR">>, <<"~">>, <<".">>, <<"ESC">>,
     <<"ESC", "[", "I">>, <<"ESC", "[", "CR">>, <<"ESC", "[", "?", ".">>}
    \cup {<<"ESC", "[", p, "u">> : p \in DOMAIN Kitty}
MCInputs == {Cat(w) : w \in UpTo(3, Typed)} \cup {<<"CR">> \o Cat(w) : w \in [1..3 -> Typed]}

\* Switches of the alternate screen, lone, among other modes, aborted, cut short.
Printed ==
    {<<"ESC", "[", "?", "n1049", "h">>, <<"ESC", "[", "?", "n1049", "l">>,
     <<"ESC", "[", "?", "n47", ";", "n25", "h">>,
     <<"ESC", "[", "BEL", "?", "n25", ";", "n1047", "BEL", "h">>,
     <<"ESC", "[", "?", "n1049", ";", "CAN">>, <<"ESC", "[", "?", "n25", "l">>,
     <<"ESC", "[", "n1049", "h">>, <<"ESC", "[", "?", "n1049", "$", "h">>,
     <<"ESC", "[", "?">>, <<"n47", "l">>, <<"ESC", "BEL">>}
MCOutputs == {Cat(w) : w \in UpTo(3, Printed)}

-----------------------------------------------------------------------------
(* Worlds in which one of configuration, identity and authorization varies.*)

Pat(neg, glob) == [neg |-> neg, glob |-> glob]
HostLine(pats) == [key |-> "host", value |-> pats]
Set(k, v) == [key |-> k, value |-> v]

PlainFile == <<HostLine(<<Pat(FALSE, <<"*">>)>>), Set("user", "u1")>>
PlainCli == [user |-> Unset, port |-> Unset, file |-> Unset, prompt |-> FALSE]
Private(k, e) == [key |-> k, encrypted |-> e]
PlainEnv ==
    [user |-> "u0", authSock |-> "no socket", agents |-> [s \in {} |-> <<>>],
     pub |-> [f \in {"id_ed25519", "id_ecdsa", "own"} |-> NoKey],
     private |-> [f \in {"id_ed25519", "id_ecdsa", "own"} |-> Private("k1", FALSE)]]
KeyFile(lines) == [state |-> "there", lines |-> lines]
Bare(k) == [kind |-> "bare", key |-> k]
PlainServer ==
    [root |-> FALSE, user |-> "u1",
     args |-> [allow |-> {}, keys |-> "unset"], conf |-> [allow |-> {}, keys |-> "unset"],
     files |-> [u \in {"u0", "u1", "u2", "argKeys", "confKeys"} |-> KeyFile(<<Bare("k1")>>)]]
PlainWorld ==
    [file |-> PlainFile, alias |-> <<"a", "b">>, cli |-> PlainCli, env |-> PlainEnv,
     server |-> PlainServer]

Lines ==
    {HostLine(<<Pat(FALSE, <<"a", "*">>)>>), HostLine(<<Pat(FALSE, <<"*">>), Pat(TRUE, <<"?", "b">>)>>),
     Set("user", "u1"), Set("user", "u2"), Set("unknown", ""), Set("port", 70000), Set("port", 22),
     Set("identityagent", "SSH_AUTH_SOCK"), Set("identityagent", "none"),
     Set("localforward", <<<<"80">>, <<"t", "81">>>>), Set("localforward", <<<<"80", "t">>>>),
     Set("setenv", <<<<"A", "1">>, <<"B", "1">>, <<"A", "2">>>>), Set("setenv", <<Bad>>)}
Globs == UpTo(3, {"a", "b", "?", "*"})
Letters == UpTo(3, {"a", "b"}) \ {<<>>}

\* Files of a few lines, and every short glob against every short alias.
ConfigWorlds ==
    {[PlainWorld EXCEPT !.file = f] : f \in UpTo(4, Lines)}
    \cup {[PlainWorld EXCEPT !.alias = a,
                             !.file = <<HostLine(<<Pat(FALSE, g)>>), Set("user", "u2")>>] :
             a \in Letters, g \in Globs}

Envs ==
    {[user |-> "u0", authSock |-> s, agents |-> a, pub |-> p,
      private |-> [id_ed25519 |-> Private(k, e), id_ecdsa |-> Private("k2", FALSE),
                   own |-> Private("k3", FALSE)]] :
        s \in {"no socket", "s1"},
        a \in {"s1" :> ks @@ "s2" :> <<"k4">> : ks \in {<<>>, <<"rsa", "k4", "k2">>, <<"k3", "k1">>}},
        p \in [{"id_ed25519", "id_ecdsa", "own"} -> {NoKey, "k2", "k3", "rsa"}],
        k \in {NoKey, "k1", "rsa"}, e \in BOOLEAN}
IdentityWorlds ==
    {[PlainWorld EXCEPT !.env = v, !.cli.file = f, !.cli.prompt = p,
                        !.file = PlainFile \o g] :
        v \in Envs, f \in {Unset, "own"}, p \in BOOLEAN,
        g \in {<<>>, <<Set("identityagent", "none")>>, <<Set("identityagent", "s2")>>}}

KeyLines == {[kind |-> k, key |-> y] : k \in {"bare", "options"}, y \in {"k1", "k2"}}
KeyFiles == {KeyFile(l) : l \in UpTo(2, KeyLines)}
                \cup {[state |-> s, lines |-> <<>>] : s \in {"missing", "unreadable"}}
ServerWorlds ==
    {[PlainWorld EXCEPT !.cli.user = u,
                        !.server = [PlainServer EXCEPT !.root = r, !.args = a, !.conf = c,
                                                       !.files[k] = f]] :
        u \in {Unset, "u2"}, r \in BOOLEAN,
        a \in [allow : {{}, {"u2"}}, keys : {"unset", "argKeys"}],
        c \in [allow : {{}, {"u1"}}, keys : {"unset", "confKeys"}],
        k \in {"u1", "argKeys"}, f \in KeyFiles}

\* Each of them is a world, so that what is proved of worlds is about these.
MCWorlds == ConfigWorlds \cup IdentityWorlds \cup ServerWorlds
                \cup {[PlainWorld EXCEPT !.cli.user = "long"]}
ASSUME \A w \in MCWorlds : IsWorld(w)

-----------------------------------------------------------------------------
(* Copies: sources of every kind, destinations that are there or not.     *)

Path(start, names, slash) == [start |-> start, names |-> names, slash |-> slash]
Rel(names) == Path("", names, FALSE)
At(host, paths) == [i \in DOMAIN paths |-> [host |-> host, path |-> paths[i]]]
Node(kind, size, open) == [kind |-> kind, size |-> size, open |-> open]
Homes == <<"base">> :> Node("dir", 0, TRUE)

SourceTree(open, link) ==
    Homes @@ <<"base", "f">> :> Node("file", 1, TRUE) @@ <<"base", "l">> :> Node(link, 0, TRUE)
    @@ <<"base", "d">> :> Node("dir", 0, open) @@ <<"base", "d", "f">> :> Node("file", 2, TRUE)
    @@ <<"base", "d", "e">> :> Node("dir", 0, ~open)
    @@ <<"base", "d", "e", "l">> :> Node("inside", 0, TRUE)
DestTree ==
    Homes @@ <<"base", "dir">> :> Node("dir", 0, TRUE) @@ <<"base", "f">> :> Node("file", 1, TRUE)
    @@ <<"base", "dir", "d">> :> Node("dir", 0, TRUE) @@ <<"shut">> :> Node("dir", 0, FALSE)

SourcePaths ==
    {<<Rel(<<"f">>)>>, <<Rel(<<"d">>)>>, <<Path("/", <<"base", "d">>, TRUE), Rel(<<"f">>)>>,
     <<Rel(<<"f">>), Rel(<<"d", "f">>)>>, <<Rel(<<"l">>)>>, <<Rel(<<"..">>)>>, <<Rel(<<"missing">>)>>}
DestPaths ==
    {Rel(<<"new">>), Path("", <<"new">>, TRUE), Rel(<<"dir">>), Rel(<<"f">>), Rel(<<>>),
     Rel(<<"sub", "new">>), Path("/", <<"shut">>, FALSE), Path("/", <<>>, TRUE)}
Limit(b, n) == [bytes |-> b, entries |-> n]

MCCopies ==
    LET Copy(sources, host, dest, cli, srv, tree) ==
            [sources |-> sources, dest |-> [host |-> host, path |-> dest],
             cliLimits |-> cli, srvLimits |-> srv, src |-> tree, dst |-> DestTree]
        Nameless == Copy(At("local", <<Rel(<<"f">>)>>), "h1", Rel(<<"new", "..">>),
                         Limit(9, 9), Limit(9, 9), SourceTree(TRUE, "inside"))
    IN {Nameless} \cup
       {Copy(At(h[1], s), h[2], d, l[1], l[2], SourceTree(open, k)) :
          h \in {<<"local", "h1">>, <<"h1", "local">>, <<"h1", "h2">>, <<"local", "local">>},
          s \in SourcePaths, d \in DestPaths, open \in BOOLEAN, k \in {"inside", "outside"},
          l \in {<<Limit(9, 9), Limit(9, 9)>>, <<Limit(2, 9), Limit(9, 3)>>, <<Limit(9, 2), Limit(0, 9)>>}}
       \cup {Copy(At("h1", <<Rel(<<"f">>)>>) \o At(h, <<Rel(<<"d">>)>>), "h2", Rel(<<"dir">>),
                  Limit(9, 9), Limit(9, 9), SourceTree(TRUE, "inside")) : h \in {"local", "h2"}}
PlainCopies == {CHOOSE c \in MCCopies : TRUE}
MCBase == <<"base">>
MCNames == {"base", "f", "l", "d", "e", "dir", "shut", "new", "sub", "..", "missing"}
ASSUME \A c \in MCCopies : IsCopy(c, MCNames)

-----------------------------------------------------------------------------

VARIABLE part

\* The parts a behaviour is not about have nothing to do.
Init ==
    /\ part \in {"input", "output", "login", "copy"}
    /\ FilterInit(IF part = "input" THEN MCInputs ELSE {<<>>})
    /\ AltInit(IF part = "output" THEN MCOutputs ELSE {<<>>})
    /\ LoginInit(IF part = "login" THEN MCWorlds ELSE {PlainWorld})
    /\ CopyInit(IF part = "copy" THEN MCCopies ELSE PlainCopies)

Next ==
    \/ part = "input" /\ FilterNext /\ UNCHANGED <<part, altVars, loginVars, copyVars>>
    \/ part = "output" /\ AltNext /\ UNCHANGED <<part, filterVars, loginVars, copyVars>>
    \/ part = "login" /\ LoginNext /\ UNCHANGED <<part, filterVars, altVars, copyVars>>
    \/ part = "copy" /\ CopyNext /\ UNCHANGED <<part, filterVars, altVars, loginVars>>

Spec == Init /\ [][Next]_<<part, filterVars, altVars, loginVars, copyVars>>
=============================================================================
