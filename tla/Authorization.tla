--------------------------- MODULE Authorization ---------------------------
(***************************************************************************)
(* Whether a peer's key may act as the user it claims: the checks of       *)
(* PendingConnection (hush-core/src/server.rs), is_authorized and          *)
(* can_login_as (hush-core/src/auth.rs), and ServerRuntimeConfig::validate.*)
(*                                                                         *)
(* `server` is the server's side: whether it is root, its user, the users  *)
(* it allows and the path it reads instead of each user's authorized_keys, *)
(* as its command line (args) and config.toml (conf) say, and the files.   *)
(* A line of authorized_keys is bare, carries options before its key, or   *)
(* is of no concern.                                                       *)
(***************************************************************************)
EXTENDS Identity

\* run: the command line before config.toml, setting by setting.
RuntimeConfig(server) ==
    [allowUsers |-> IF server.args.allow = {} THEN server.conf.allow ELSE server.args.allow,
     keys |-> IF server.args.keys = "unset" THEN server.conf.keys ELSE server.args.keys]

\* ServerRuntimeConfig::validate, before the server listens.
Validate(server) ==
    LET c == RuntimeConfig(server)
    IN ~(server.root /\ c.keys # "unset" /\ c.allowUsers = {})

\* The authorized_keys of a user, among the files there are.
KeysOf(server, user) ==
    LET keys == RuntimeConfig(server).keys
        path == IF keys = "unset" THEN user ELSE keys
    IN IF path \in DOMAIN server.files THEN server.files[path] ELSE [state |-> "missing", lines |-> <<>>]

\* The lines that decide for a key: a bare key line, or one with options.
Deciding(lines, key) ==
    {i \in DOMAIN lines :
        /\ lines[i].key = key
        /\ lines[i].kind = "bare" => key \in Supported
        /\ lines[i].kind \in {"bare", "options"}}

\* Mutant of IsAuthorized: a line with options counts like a bare one.
IsAuthorizedAny(server, user, key) ==
    LET file == KeysOf(server, user)
    IN IF file.state = "there" /\ Deciding(file.lines, key) # {} THEN "yes" ELSE "no"

\* is_authorized: the first deciding line; a missing file has none, and a file
\* that cannot be read or is too large is an error.
IsAuthorized(server, user, key) ==
    LET file == KeysOf(server, user)
        at == Deciding(file.lines, key)
        first == file.lines[CHOOSE i \in at : \A j \in at : i <= j]
    IN IF file.state = "unreadable" THEN "error"
       ELSE IF file.state = "missing" \/ at = {} THEN "no"
       ELSE IF first.kind = "bare" THEN "yes" ELSE "error"

CanLoginAs(server, user) == server.root \/ user = server.user

\* PendingConnection::check_authorization.
CheckAuthorization(server, user, key) ==
    /\ RuntimeConfig(server).allowUsers = {} \/ user \in RuntimeConfig(server).allowUsers
    /\ CanLoginAs(server, user)
    /\ IsAuthorized(server, user, key) = "yes"

=============================================================================
