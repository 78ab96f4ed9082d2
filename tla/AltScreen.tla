----------------------------- MODULE AltScreen -----------------------------
(***************************************************************************)
(* The alternate screen of the client's terminal: quic_to_terminal and its *)
(* AltScreenTracker (hush/src/session.rs), which follow the switches in    *)
(* the remote output, and the cleanup of RawModeGuard (hush/src/os.rs),    *)
(* which leaves the alternate screen the remote side left active.          *)
(*                                                                         *)
(* A byte is named for what the tracker tells apart; the digits of a       *)
(* number are one byte, and BEL stands for the C0 controls.                *)
(***************************************************************************)
EXTENDS Integers, Sequences

VARIABLES
    output, got,        \* the remote output, and how much of it was read
    pending, screen,    \* read but not at the terminal yet, and at the terminal
    state, param, seqMode, alt,         \* AltScreenTracker
    remoteAlt,          \* REMOTE_ALT_SCREEN
    cleaned             \* the screen the cleanup left, "no" before it ran

altVars == <<output, got, pending, screen, state, param, seqMode, alt, remoteAlt, cleaned>>

AltMode == [n \in {47, 1047, 1049} |-> IF n = 1049 THEN "save" ELSE "plain"]
NumberOf == [n25 |-> 25, n47 |-> 47, n1047 |-> 1047, n1049 |-> 1049]
CsiFinals == {"[", "h", "l"}          \* of the bytes used, those in 0x40..0x7e

\* `outputs`: what the remote side may print.
AltInit(outputs) ==
    /\ output \in outputs /\ got = 0 /\ pending = <<>> /\ screen = <<>>
    /\ state = "ground" /\ param = 0 /\ seqMode = "none" /\ alt = "off"
    /\ remoteAlt = "off" /\ cleaned = "no"

-----------------------------------------------------------------------------
(* AltScreenTracker::push, one byte at a time over a tracker record.      *)

EndParam(t) ==
    [t EXCEPT !.mode = IF t.param \in DOMAIN AltMode THEN AltMode[t.param] ELSE @,
              !.param = 0]

\* Mutant of EnterPrivate: the mode an aborted sequence named is not cleared.
EnterPrivateStale(t) == [t EXCEPT !.state = "private", !.param = 0]
EnterPrivate(t) == [t EXCEPT !.state = "private", !.param = 0, !.mode = "none"]

\* h or l ends a private mode sequence and switches if it named the screen.
Switch(t, byte) ==
    LET e == EndParam(t)
    IN [e EXCEPT !.state = "ground",
                 !.alt = IF e.mode = "none" THEN @ ELSE IF byte = "h" THEN e.mode ELSE "off"]

\* The final byte of any other sequence, or one that makes it of no interest.
LeaveCsi(t, byte) == [t EXCEPT !.state = IF byte \in CsiFinals THEN "ground" ELSE "ignore"]

\* More digits of a parameter: as many as the longest number has.
AddDigits(t, byte) == [t EXCEPT !.param = @ * 10000 + NumberOf[byte]]

\* A byte among the parameters of a private mode sequence.
TrackPrivate(t, byte) ==
    IF byte \in DOMAIN NumberOf THEN AddDigits(t, byte)
    ELSE IF byte = ";" THEN EndParam(t)
    ELSE IF byte \in {"h", "l"} THEN Switch(t, byte)
    ELSE LeaveCsi(t, byte)

Track(t, byte) ==
    LET To(s) == [t EXCEPT !.state = s]
    IN IF byte = "ESC" THEN To("escape")
       ELSE IF byte = "CAN" \/ t.state = "ground" THEN To("ground")
       ELSE IF t.state = "escape" THEN To(IF byte = "[" THEN "entry" ELSE "ground")
       ELSE IF byte = "BEL" THEN t
       ELSE IF t.state = "entry" /\ byte = "?" THEN EnterPrivate(t)
       ELSE IF t.state = "private" THEN TrackPrivate(t, byte)
       ELSE LeaveCsi(t, byte)

\* The tracker after it has gone through `bytes`.
Tracked(t, bytes) ==
    LET After[i \in 0..Len(bytes)] == IF i = 0 THEN t ELSE Track(After[i - 1], bytes[i])
    IN After[Len(bytes)]

Tracker == [state |-> state, param |-> param, mode |-> seqMode, alt |-> alt]

-----------------------------------------------------------------------------
(* quic_to_terminal reads and tracks up to byte n, then writes.  A write  *)
(* goes through a thread of the runtime: it may land in parts, and after  *)
(* the future was dropped and the cleanup ran.                            *)

ReadAndTrack(n) ==
    /\ cleaned = "no" /\ pending = <<>> /\ n \in got + 1..Len(output)
    /\ got' = n /\ pending' = SubSeq(output, got + 1, n)
    /\ LET t == Tracked(Tracker, pending')
       IN /\ state' = t.state /\ param' = t.param /\ seqMode' = t.mode /\ alt' = t.alt
          /\ remoteAlt' = IF t.alt # alt THEN t.alt ELSE remoteAlt
    /\ UNCHANGED <<output, screen, cleaned>>

Write(k) ==
    /\ k \in 1..Len(pending)
    /\ screen' = screen \o SubSeq(pending, 1, k)
    /\ pending' = SubSeq(pending, k + 1, Len(pending))
    /\ UNCHANGED <<output, got, state, param, seqMode, alt, remoteAlt, cleaned>>

\* RawModeGuard drops: at the end of the session, or when it is abandoned at
\* any await of the copy.
CleanupTerminalFeatures ==
    /\ cleaned = "no"
    /\ cleaned' = remoteAlt
    /\ UNCHANGED <<output, got, pending, screen, state, param, seqMode, alt, remoteAlt>>

AltNext ==
    \/ \E n \in DOMAIN output : ReadAndTrack(n)
    \/ \E k \in DOMAIN pending : Write(k)
    \/ CleanupTerminalFeatures

AltSpec(outputs) == AltInit(outputs) /\ [][AltNext]_altVars

-----------------------------------------------------------------------------
(* Properties.                                                            *)

\* From a to b there is nothing but control characters, which a terminal executes
\* without leaving the sequence they are in.
Controls(s, a, b) == \A j \in a..b : s[j] = "BEL"

\* A private mode sequence starts at i, has its ? at q, and goes on up to n.
PrivateTo(s, i, q, n) ==
    /\ i + 1 < q /\ q <= n /\ s[i] = "ESC" /\ s[i + 1] = "[" /\ s[q] = "?"
    /\ Controls(s, i + 2, q - 1)
    /\ \A j \in q + 1..n : s[j] \in DOMAIN NumberOf \cup {";", "BEL"}

\* A number that stands between separators, the last of which is at e, and that
\* is the number of an alternate screen.
IsNamed(s, j, e) ==
    /\ s[j] \in DOMAIN NumberOf /\ NumberOf[s[j]] \in DOMAIN AltMode
    /\ \E p \in 1..j - 1 : s[p] \in {"?", ";"} /\ Controls(s, p + 1, j - 1)
    /\ \E n \in j + 1..e : (n = e \/ s[n] = ";") /\ Controls(s, j + 1, n - 1)

\* The alternate screens that the sequence which ends at e names.
Named(s, e) ==
    {j \in 1..e - 1 : IsNamed(s, j, e) /\ \E i, q \in 1..j - 1 : PrivateTo(s, i, q, e - 1)}

Greatest(S) == CHOOSE m \in S : \A n \in S : n <= m

\* The screen a terminal shows after s: what the last switch of s chose.
ScreenAfter(s) ==
    LET switches == {e \in 1..Len(s) : s[e] \in {"h", "l"} /\ Named(s, e) # {}}
        e == Greatest(switches)
    IN IF switches = {} \/ s[e] = "l" THEN "off"
       ELSE AltMode[NumberOf[s[Greatest(Named(s, e))]]]

\* However the reads cut the output, the screen on record is the one the
\* terminal shows once what was read is written, so that a cleanup at any point
\* leaves the screen that is active, unless the switch away from it was read
\* and still has to be written: then nothing is missed that had been written.
AltKnown ==
    /\ remoteAlt = ScreenAfter(screen \o pending)
    /\ cleaned # "no" /\ pending = <<>> => cleaned = ScreenAfter(screen)

=============================================================================
