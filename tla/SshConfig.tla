----------------------------- MODULE SshConfig -----------------------------
(***************************************************************************)
(* ~/.ssh/config as the client reads it: parse_ssh_config and its helpers  *)
(* (hush-core/src/config.rs).                                              *)
(*                                                                         *)
(* A line is a Host line, with patterns [neg, glob], or a directive, with a*)
(* key and a value; blank lines and comments are left out, as are quoting  *)
(* and the expansion of ~ and $VAR.  A forward is a sequence of arguments, *)
(* each the sequence of its colon-separated parts.                         *)
(***************************************************************************)
EXTENDS Integers, Sequences, SequencesExt

CONSTANTS Unset,        \* a setting with no value
          Bad,          \* a value that is an error
          PortWords     \* the parts of a forward that are port numbers

\* One turn of host_pattern_matches, at p in the glob and h in the host: a
\* character, a * (noted, with where the host stood), or back to the last * to
\* let it cover one more.  Where the loop has ended, nothing changes.
MatchTurn(glob, host, s) ==
    LET open == s.p <= Len(glob)
    IN IF s.h > Len(host) THEN s
       ELSE IF open /\ glob[s.p] \in {"?", host[s.h]} THEN [s EXCEPT !.p = s.p + 1, !.h = s.h + 1]
       ELSE IF open /\ glob[s.p] = "*" THEN [s EXCEPT !.star = s.p, !.p = s.p + 1, !.after = s.h]
       ELSE IF s.star # 0
            THEN [s EXCEPT !.p = s.star + 1, !.after = s.after + 1, !.h = s.after + 1]
       ELSE s

\* Turns enough for the loop to end: each * and each retry of one may look at
\* the whole host again.
MostTurns(glob, host) == (Len(glob) + Len(host) + 1) * (Len(host) + 2)

MatchTurns(glob, host) ==
    LET Turns[n \in 0..MostTurns(glob, host)] ==
            IF n = 0 THEN [p |-> 1, h |-> 1, star |-> 0, after |-> 1]
            ELSE MatchTurn(glob, host, Turns[n - 1])
    IN Turns

\* host_pattern_matches: the host is used up, and only * are left of the glob.
HostPatternMatches(glob, host) ==
    LET s == MatchTurns(glob, host)[MostTurns(glob, host)]
    IN s.h > Len(host) /\ \A i \in s.p..Len(glob) : glob[i] = "*"

\* Mutant of HostBlockMatches: a negated pattern only fails to match.
HostBlockMatchesAny(patterns, host) ==
    \E i \in DOMAIN patterns : ~patterns[i].neg /\ HostPatternMatches(patterns[i].glob, host)

\* host_block_matches: the patterns in turn; one that is negated and matches
\* decides against the block.
HostBlockMatches(patterns, host) ==
    LET hit == {i \in DOMAIN patterns : patterns[i].glob # <<>> /\ HostPatternMatches(patterns[i].glob, host)}
    IN hit # {} /\ \A i \in hit : ~patterns[i].neg

-----------------------------------------------------------------------------
(* Values.                                                                *)

\* A value that does not parse, or names the default agent, sets nothing.
ParseValue(key, value) ==
    IF \/ key = "port" /\ value \notin 0..65535
       \/ key = "identityagent" /\ value \in {"", "SSH_AUTH_SOCK"}
       \/ key = "forwardagent" /\ value = ""
    THEN Unset ELSE value

\* parse_set_env: NAME=VALUE arguments, as a set of pairs; the first of a name
\* counts.
ParseSetEnv(args) ==
    IF args = <<>> \/ \E i \in DOMAIN args : args[i] = Bad THEN Bad
    ELSE {args[i] : i \in {n \in DOMAIN args : \A j \in 1..n - 1 : args[j][1] # args[n][1]}}

\* parse_listen_endpoint, parse_target_endpoint.
ParseListen(parts) ==
    CASE Len(parts) = 1 /\ parts[1] \in PortWords -> <<"127.0.0.1", parts[1]>>
      [] Len(parts) = 2 /\ parts[2] \in PortWords -> parts
      [] OTHER -> Bad

ParseTarget(parts) == IF Len(parts) = 2 /\ parts[2] \in PortWords THEN parts ELSE Bad

\* parse_ssh_forward and parse_colon_forward: one, two or three arguments.
ParseForward(args) ==
    LET Both(l, t) == IF l = Bad \/ t = Bad THEN Bad ELSE l \o t
        one == args[1]
    IN CASE Len(args) = 1 /\ Len(one) \in {3, 4} ->
              Both(ParseListen(SubSeq(one, 1, Len(one) - 2)),
                   ParseTarget(SubSeq(one, Len(one) - 1, Len(one))))
         [] Len(args) = 2 -> Both(ParseListen(args[1]), ParseTarget(args[2]))
         [] Len(args) = 3 -> Both(ParseListen(args[1]), ParseTarget(<<args[2][1], args[3][1]>>))
         [] OTHER -> Bad

-----------------------------------------------------------------------------
(* parse_ssh_config, a line at a time.                                    *)

Single == {"user", "hostname", "port", "identityfile", "identityagent", "forwardagent"}
Forwards == {"localforward", "remoteforward"}

SshHostConfig ==
    [k \in Single \cup Forwards \cup {"setenv"} |->
        IF k \in Single THEN Unset ELSE IF k \in Forwards THEN <<>> ELSE {}]

\* What a directive makes of its setting.  The first value of a setting counts,
\* and forwards add up.
NewSetting(old, line) ==
    IF line.key \in Forwards
      THEN LET new == ParseForward(line.value) IN IF new = Bad THEN Bad ELSE Append(old, new)
    ELSE IF old # SshHostConfig[line.key] THEN old
    ELSE IF line.key = "setenv" THEN ParseSetEnv(line.value)
    ELSE ParseValue(line.key, line.value)

\* [active, cfg, failed] after a line: a Host line opens a block, a known
\* directive in a block for the alias is taken, and an error ends the reading.
ReadLine(st, line, alias) ==
    LET new == NewSetting(st.cfg[line.key], line)
    IN IF line.key = "host" THEN [st EXCEPT !.active = HostBlockMatches(line.value, alias)]
       ELSE IF ~st.active \/ line.key \notin DOMAIN st.cfg THEN st
       ELSE IF new = Bad THEN [st EXCEPT !.failed = TRUE]
       ELSE [st EXCEPT !.cfg[line.key] = new]

-----------------------------------------------------------------------------
(* What a configuration means, without reading it in order.               *)

\* The glob stretches over the host: each * over any part, ? and letters over
\* one character.
Stretches(glob, host) ==
    \E cut \in [0..Len(glob) -> 0..Len(host)] :
        /\ cut[0] = 0 /\ cut[Len(glob)] = Len(host)
        /\ \A i \in DOMAIN glob :
             IF glob[i] = "*" THEN cut[i] >= cut[i - 1]
             ELSE cut[i] = cut[i - 1] + 1 /\ glob[i] \in {"?", host[cut[i]]}

\* Patterns that stand for the alias: one does, and none that is negated.
ForAlias(patterns, alias) ==
    LET hits == {p \in DOMAIN patterns : Stretches(patterns[p].glob, alias)}
    IN (\E p \in hits : ~patterns[p].neg) /\ (\A p \in hits : ~patterns[p].neg)

\* Line i of a file is in a block for the alias.
Governed(file, i, alias) ==
    \E j \in 1..i - 1 :
        /\ file[j].key = "host" /\ \A m \in j + 1..i - 1 : file[m].key # "host"
        /\ ForAlias(file[j].value, alias)

\* The setting of key k in a file: the first governed line that gives it a value.
Meaning(file, alias, k) ==
    LET lines == {i \in DOMAIN file : file[i].key = k /\ Governed(file, i, alias)
                                        /\ ParseValue(k, file[i].value) # Unset}
    IN IF lines = {} THEN Unset
       ELSE ParseValue(k, file[CHOOSE i \in lines : \A j \in lines : i <= j].value)

=============================================================================
