---------------------------- MODULE EscapeFilter ----------------------------
(***************************************************************************)
(* The disconnect escape <Enter>~. in the terminal's input: stdio_to_quic  *)
(* and EscapeFilter (hush/src/session.rs).  The reads of the pump cut what *)
(* was typed anywhere; the loop of push handles one key per step and       *)
(* forwards, holds or carries over its bytes.                              *)
(*                                                                         *)
(* A byte is named for what the code tells apart.  A kitty parameter list  *)
(* is one byte here (a cut inside it is carried over like one before its   *)
(* last digit); Kitty gives the numbers in it.                             *)
(***************************************************************************)
EXTENDS Integers, Sequences

CONSTANTS MaxPartial,   \* MAX_PARTIAL_CSI_LEN
          Absent        \* a field that is not there

ASSUME FilterAssumption == MaxPartial \in Nat \ {0} /\ Absent \notin Nat

VARIABLES typed,        \* everything the terminal sent
          read,         \* how much of it the pump has read
          rest,         \* the input push still has to look at
          pushing,      \* push is in its loop
          out,          \* bytes forwarded to the server
          held, lineStart,      \* EscapeFilter::held, at_line_start
          harmed,       \* history: a read cut an ESC from its [
          ended         \* "no", "eof" or "escape"

filterVars == <<typed, read, rest, pushing, out, held, lineStart, harmed, ended>>

\* Parameters of a kitty key event `key[:shifted];modifiers:event;text`.
Kitty ==
    [ pEnter   |-> [key |-> 13,    shifted |-> Absent, mods |-> 1, event |-> 1, text |-> Absent],
      pTilde   |-> [key |-> 96,    shifted |-> Absent, mods |-> 2, event |-> 1, text |-> Absent],
      pTildeUp |-> [key |-> 96,    shifted |-> 126,    mods |-> 2, event |-> 3, text |-> Absent],
      pText    |-> [key |-> 52,    shifted |-> Absent, mods |-> 9, event |-> 1, text |-> 126],
      pDot     |-> [key |-> 46,    shifted |-> Absent, mods |-> 65, event |-> 1, text |-> Absent],
      pCtrlDot |-> [key |-> 46,    shifted |-> Absent, mods |-> 5, event |-> 1, text |-> Absent],
      pShift   |-> [key |-> 57441, shifted |-> Absent, mods |-> 2, event |-> 1, text |-> Absent] ]

ParamBytes == DOMAIN Kitty \cup {".", "?"}
FinalBytes == {"[", "~", "u", "I", "x"}

-----------------------------------------------------------------------------
(* Classification.                                                        *)

\* Modifier bits without Caps Lock (64) and Num Lock (128).
Mods(k) ==
    LET m == IF k.mods = 0 THEN 0 ELSE k.mods - 1
    IN (m % 64) + 256 * (m \div 256)

\* classify_kitty_key: releases and modifier keys are no key presses; without
\* text, a shifted key is what the event says, or ~ for the key `.
ClassifyKitty(k) ==
    LET ch == IF k.text # Absent THEN k.text
              ELSE IF Mods(k) = 0 THEN k.key
              ELSE IF Mods(k) # 1 THEN Absent
              ELSE IF k.shifted = Absent /\ k.key = 96 THEN 126 ELSE k.shifted
    IN IF k.event = 3 \/ k.key \in 57358..57360 \/ k.key \in 57441..57454 THEN "ignore"
       ELSE IF k.key \in {13, 57414} THEN "enter"
       ELSE IF ch = 126 THEN "tilde" ELSE IF ch = 46 THEN "dot" ELSE "other"

\* classify_csi: focus and private reports are no keys.
ClassifyCsi(params, final) ==
    IF IF params = <<>> THEN final = "I" ELSE params[1] = "?" THEN "ignore"
    ELSE IF final = "u" /\ Len(params) = 1 /\ params[1] \in DOMAIN Kitty
         THEN ClassifyKitty(Kitty[params[1]])
    ELSE "other"

Incomplete == [len |-> 0, key |-> "none"]

\* A byte that is a key by itself.
ClassifyByte(b) ==
    CASE b = "CR" -> "enter" [] b = "~" -> "tilde" [] b = "." -> "dot" [] OTHER -> "other"

\* next_escape_key: the first key of a non-empty input and its length.
\* Incomplete for a CSI sequence that may still be completed.
NextEscapeKey(s) ==
    LET csi == Len(s) >= 2 /\ s[1] = "ESC" /\ s[2] = "["
        ends == {i \in 3..Len(s) : s[i] \notin ParamBytes}
        i == CHOOSE m \in ends : \A n \in ends : m <= n
    IN IF ~csi THEN [len |-> 1, key |-> ClassifyByte(s[1])]
       ELSE IF ends = {} THEN IF Len(s) > MaxPartial THEN [len |-> Len(s), key |-> "other"]
                                                     ELSE Incomplete
       ELSE IF s[i] \in FinalBytes
            THEN [len |-> i, key |-> ClassifyCsi(SubSeq(s, 3, i - 1), s[i])]
            ELSE [len |-> i - 1, key |-> "other"]

-----------------------------------------------------------------------------

\* `inputs`: what the terminal may send, as sequences of bytes.
FilterInit(inputs) ==
    /\ typed \in inputs /\ read = 0 /\ rest = <<>> /\ pushing = FALSE
    /\ out = <<>> /\ held = <<>> /\ lineStart = TRUE
    /\ harmed = FALSE /\ ended = "no"

\* A read that ends at n takes the ESC and the [ of a sequence apart: the code
\* lets a lone ESC through rather than hold it.
CutsEsc(n) == n < Len(typed) /\ typed[n] = "ESC" /\ typed[n + 1] = "["

\* stdin.read returns the bytes up to n; push joins what it had carried over.
Read(n) ==
    /\ ended = "no" /\ ~pushing /\ n \in read + 1..Len(typed)
    /\ rest' = rest \o SubSeq(typed, read + 1, n)
    /\ read' = n /\ pushing' = TRUE
    /\ harmed' = (harmed \/ CutsEsc(n))
    /\ UNCHANGED <<typed, out, held, lineStart, ended>>

\* EscapeFilter::handle for a key of `bytes`.  Mutant: a key that is held for
\* is not looked at for itself, so that an Enter after ~ starts no line.
HandleHeldOnly(key, bytes) ==
    \/ /\ held # <<>> /\ key = "dot" /\ ended' = "escape"
       /\ UNCHANGED <<out, held, lineStart>>
    \/ /\ held # <<>> /\ key # "dot"
       /\ out' = out \o held \o bytes /\ held' = <<>> /\ lineStart' = FALSE
       /\ UNCHANGED ended
    \/ /\ held = <<>> /\ UNCHANGED ended
       /\ IF key = "tilde" /\ lineStart
            THEN held' = bytes /\ UNCHANGED <<out, lineStart>>
            ELSE out' = out \o bytes /\ lineStart' = (key = "enter") /\ UNCHANGED held

Handle(key, bytes) ==
    \/ /\ held # <<>> /\ key = "dot"
       /\ ended' = "escape"
       /\ UNCHANGED <<out, held, lineStart>>
    \/ /\ held # <<>> /\ key = "ignore"
       /\ held' = held \o bytes
       /\ UNCHANGED <<out, lineStart, ended>>
    \/ /\ ~(held # <<>> /\ key \in {"dot", "ignore"})
       /\ LET atStart == lineStart /\ held = <<>>
          IN IF key = "tilde" /\ atStart
               THEN held' = bytes /\ UNCHANGED <<out, lineStart>>
               ELSE /\ out' = out \o held \o bytes /\ held' = <<>>
                    /\ lineStart' = IF key = "ignore" THEN lineStart ELSE key = "enter"
       /\ UNCHANGED ended

\* One turn of push's loop: a key, or the end of the input, or a sequence that
\* is still incomplete and is carried over to the next read.
Push ==
    /\ pushing /\ ended = "no"
    /\ LET k == IF rest = <<>> THEN Incomplete ELSE NextEscapeKey(rest)
       IN \/ /\ k # Incomplete
             /\ Handle(k.key, SubSeq(rest, 1, k.len))
             /\ rest' = SubSeq(rest, k.len + 1, Len(rest))
             /\ UNCHANGED pushing
          \/ /\ k = Incomplete
             /\ pushing' = FALSE
             /\ UNCHANGED <<rest, out, held, lineStart, ended>>
    /\ UNCHANGED <<typed, read, harmed>>

\* End of the input: finish flushes what was held and carried over.  Mutant:
\* only what was held.
FinishHeld == out \o held
Finish == out \o held \o rest

StdinEof ==
    /\ ended = "no" /\ ~pushing /\ read = Len(typed)
    /\ out' = Finish /\ held' = <<>> /\ rest' = <<>>
    /\ ended' = "eof"
    /\ UNCHANGED <<typed, read, pushing, lineStart, harmed>>

FilterNext ==
    \/ \E n \in DOMAIN typed : Read(n)
    \/ Push \/ StdinEof

FilterSpec(inputs) == FilterInit(inputs) /\ [][FilterNext]_filterVars

-----------------------------------------------------------------------------
(* Properties.                                                            *)

\* No byte is lost, invented or reordered by holding and carrying over: what
\* was forwarded, what is held and what is carried over make up what was read,
\* and at the end of the input everything has been forwarded.
InputKept ==
    /\ ended = "no" => out \o held \o rest = SubSeq(typed, 1, read)
    /\ ended = "eof" => out = typed

\* What the user meant by a kitty event.
Meant ==
    [ pEnter |-> "enter", pTilde |-> "tilde", pTildeUp |-> "ignore", pText |-> "tilde",
      pDot |-> "dot", pCtrlDot |-> "other", pShift |-> "ignore" ]

\* The key that starts at byte i of an input.
KeyAt(s, i) ==
    IF i + 3 <= Len(s) /\ s[i] = "ESC" /\ s[i + 1] = "[" /\ s[i + 2] \in DOMAIN Kitty
         /\ s[i + 3] = "u"
    THEN [len |-> 4, key |-> Meant[s[i + 2]]]
    ELSE NextEscapeKey(SubSeq(s, i, Len(s)))

\* Where a key may start: at the first byte, and behind every key.
Starts(s) ==
    LET Start[i \in 1..Len(s) + 1] ==
            i = 1 \/ \E j \in 1..i - 1 :
                KeyAt(s, j) # Incomplete /\ j + KeyAt(s, j).len = i /\ Start[j]
    IN {i \in 1..Len(s) + 1 : Start[i]}

\* The keys of an input that is read at once, by the byte they start at.
Keys(s) ==
    [i \in {n \in Starts(s) : n <= Len(s) /\ KeyAt(s, n) # Incomplete} |-> KeyAt(s, i).key]

\* Byte i comes behind an Enter, or behind nothing, and ignored keys.
StartsLine(keys, i) ==
    \E p \in DOMAIN keys \cup {0} :
        /\ p < i /\ (p # 0 => keys[p] = "enter")
        /\ \A m \in DOMAIN keys : p < m /\ m < i => keys[m] = "ignore"

\* <Enter>~. as a user means it: a ~ that starts a line and a dot, with no
\* other key press between them.
Escapes(keys) ==
    \E i, j \in DOMAIN keys :
        /\ i < j /\ keys[i] = "tilde" /\ keys[j] = "dot" /\ StartsLine(keys, i)
        /\ \A m \in DOMAIN keys : i < m /\ m < j => keys[m] = "ignore"

\* An unfinished sequence that outgrows MaxPartial is let through too.
Overlong ==
    \E i \in 1..Len(typed) - MaxPartial :
        /\ typed[i] = "ESC" /\ typed[i + 1] = "["
        /\ \A j \in i + 2..i + MaxPartial : typed[j] \in ParamBytes

\* Wherever the reads cut the input, the session disconnects exactly when the
\* input, read at once, holds the escape, typed in plain bytes or as kitty key
\* events, with releases and reports in between.
EscapeIffTyped ==
    (~harmed /\ ~Overlong /\ (pushing => ended = "escape"))
        => ((ended = "escape") <=> Escapes(Keys(SubSeq(typed, 1, read))))

=============================================================================
