---------------------------- MODULE LoginProofs ----------------------------
(***************************************************************************)
(* From a command line to a served connection, for configuration files,    *)
(* globs, agents and authorized_keys of any length: the loop that matches  *)
(* a glob decides whether it stretches over the host name, the settings    *)
(* are those of the first block that gives them, the key presented is the  *)
(* one configured, and who is served is listed.                            *)
(***************************************************************************)
EXTENDS Login, FiniteSetTheorems, SequenceTheorems, WellFoundedInduction, TLAPS

\* A non-empty set of natural numbers has a least element.
LEMMA LeastOf ==
    ASSUME NEW S, S \subseteq Nat, S # {}
    PROVE  \E m \in S : \A n \in S : m <= n
  <1> DEFINE R == OpToRel(<, Nat)
  <1>1. IsWellFoundedOn(R, Nat)
    BY NatLessThanWellFounded
  <1>2. \A m, n \in Nat : n < m => <<n, m>> \in R
    BY DEF OpToRel
  <1> HIDE DEF R
  <1>3. PICK m \in S : \A n \in S : <<n, m>> \notin R
    BY <1>1, WFMin
  <1>4. \A n \in S : m \in Nat /\ n \in Nat /\ ~(n < m)
    BY <1>2, <1>3
  <1> QED
    BY <1>4

\* Induction over the numbers to N.
LEMMA UpTo ==
    ASSUME NEW N \in Nat, NEW S, 0 \in S, \A n \in 0..N : n < N /\ n \in S => n + 1 \in S
    PROVE  \A n \in 0..N : n \in S
  <1> DEFINE bad == {n \in 0..N : n \notin S}
  <1>1. SUFFICES ASSUME bad # {} PROVE FALSE
    OBVIOUS
  <1>2. bad \in SUBSET Nat
    OBVIOUS
  <1>3. PICK i \in bad : \A n \in bad : i <= n
    <2> HIDE DEF bad
    <2> QED BY <1>1, <1>2, LeastOf, Zenon
  <1>4. i # 0 /\ i - 1 \in 0..N /\ i - 1 \notin bad
    BY <1>3
  <1> QED
    BY <1>3, <1>4

\* The turns of host_pattern_matches follow one another.
LEMMA TurnsFollow ==
    ASSUME NEW glob, NEW host, MostTurns(glob, host) \in Nat
    PROVE  LET T == MatchTurns(glob, host)
           IN /\ T[0] = [p |-> 1, h |-> 1, star |-> 0, after |-> 1]
              /\ \A n \in 1..MostTurns(glob, host) : T[n] = MatchTurn(glob, host, T[n - 1])
  <1> DEFINE N == MostTurns(glob, host)
             x == [p |-> 1, h |-> 1, star |-> 0, after |-> 1]
             Turn(s) == MatchTurn(glob, host, s)
             Run(f, m) == f = [n \in 0..m |-> IF n = 0 THEN x ELSE Turn(f[n - 1])]
             S == {m \in 0..N : \E f : Run(f, m)}
  <1> HIDE DEF x, Turn
  <1>1. 0 \in S
    <2> DEFINE f == [n \in 0..0 |-> x]
    <2>1. Run(f, 0)
      OBVIOUS
    <2>2. 0 \in 0..N
      OBVIOUS
    <2> HIDE DEF N, Run, f
    <2> QED
      BY <2>1, <2>2
  <1>2. ASSUME NEW m \in 0..N, m < N, m \in S PROVE m + 1 \in S
    <2>1. PICK f : Run(f, m)
      BY <1>2
    <2> DEFINE g == [n \in 0..m + 1 |-> IF n <= m THEN f[n] ELSE Turn(f[m])]
    <2>2. \A n \in 0..m + 1 : g[n] = IF n = 0 THEN x ELSE Turn(g[n - 1])
      <3> SUFFICES ASSUME NEW n \in 0..m + 1 PROVE g[n] = IF n = 0 THEN x ELSE Turn(g[n - 1])
        OBVIOUS
      <3>1. CASE n = 0
        BY <2>1, <3>1
      <3>2. CASE n \in 1..m
        <4>1. g[n] = f[n] /\ g[n - 1] = f[n - 1]
          BY <3>2
        <4>2. f[n] = Turn(f[n - 1])
          BY <2>1, <3>2
        <4> QED
          BY <3>2, <4>1, <4>2
      <3>3. CASE n = m + 1
        <4>1. g[n] = Turn(f[m]) /\ g[n - 1] = f[m]
          BY <3>3
        <4> QED
          BY <3>3, <4>1
      <3> QED
        BY <3>1, <3>2, <3>3
    <2>3. Run(g, m + 1)
      <3> HIDE DEF g
      <3>1. g = [n \in 0..m + 1 |-> g[n]]
        BY DEF g
      <3> QED
        BY <2>2, <3>1
    <2>4. m + 1 \in 0..N
      BY <1>2
    <2> HIDE DEF N, Run, g
    <2> QED
      BY <2>3, <2>4
  <1>3. N \in S
    <2> HIDE DEF S
    <2> QED
      BY <1>1, <1>2, UpTo
  <1>4. Run(MatchTurns(glob, host), N)
    <2> HIDE DEF N
    <2> QED BY <1>3, Zenon DEF MatchTurns, N, x, Turn
  <1> QED
    BY <1>4 DEF x, Turn

-----------------------------------------------------------------------------

\* What is left of the glob from p on stretches over what is left of the host
\* from h on.
Fits(glob, host, p, h) ==
    \E cut \in [p - 1..Len(glob) -> 0..Len(host)] :
        /\ cut[p - 1] = h - 1 /\ cut[Len(glob)] = Len(host)
        /\ \A i \in p..Len(glob) :
             IF glob[i] = "*" THEN cut[i] >= cut[i - 1]
             ELSE cut[i] = cut[i - 1] + 1 /\ glob[i] \in {"?", host[cut[i]]}

\* One step of a fit: a * may cover any part of the host, anything else one
\* character.
Covers(glob, host, p, h, k) ==
    IF glob[p] = "*" THEN k >= h ELSE k = h + 1 /\ glob[p] \in {"?", host[h]}

\* Where the whole glob is used up, so is the host.
LEMMA FitsEnd ==
    ASSUME NEW glob, NEW host, Len(glob) \in Nat, Len(host) \in Nat, NEW h \in 1..Len(host) + 1
    PROVE  Fits(glob, host, Len(glob) + 1, h) <=> h = Len(host) + 1
  <1> DEFINE P == Len(glob)
             H == Len(host)
  <1>1. (P + 1) - 1 = P
    OBVIOUS
  <1>2. ASSUME Fits(glob, host, P + 1, h) PROVE h = H + 1
    <2>1. PICK cut : cut[(P + 1) - 1] = h - 1 /\ cut[P] = H
      BY <1>2 DEF Fits
    <2> QED
      BY <1>1, <2>1
  <1>3. ASSUME h = H + 1 PROVE Fits(glob, host, P + 1, h)
    <2> DEFINE cut == [i \in P..P |-> H]
    <2>1. cut \in [(P + 1) - 1..P -> 0..H] /\ cut[(P + 1) - 1] = h - 1 /\ cut[P] = H
      BY <1>3
    <2>2. \A i \in P + 1..P : FALSE
      OBVIOUS
    <2> QED
      BY <2>1, <2>2 DEF Fits
  <1> QED
    BY <1>2, <1>3

\* A fit is a step and a fit of what is left.
LEMMA FitsStep ==
    ASSUME NEW glob, NEW host, Len(glob) \in Nat, Len(host) \in Nat,
           NEW p \in 1..Len(glob), NEW h \in 1..Len(host) + 1
    PROVE  Fits(glob, host, p, h) <=>
             \E k \in 1..Len(host) + 1 : Covers(glob, host, p, h, k) /\ Fits(glob, host, p + 1, k)
  <1> DEFINE P == Len(glob)
             H == Len(host)
             Ok(cut, i) == IF glob[i] = "*" THEN cut[i] >= cut[i - 1]
                           ELSE cut[i] = cut[i - 1] + 1 /\ glob[i] \in {"?", host[cut[i]]}
  <1>1. ASSUME Fits(glob, host, p, h)
        PROVE  \E k \in 1..H + 1 : Covers(glob, host, p, h, k) /\ Fits(glob, host, p + 1, k)
    <2>1. PICK cut \in [p - 1..P -> 0..H] :
             cut[p - 1] = h - 1 /\ cut[P] = H /\ \A i \in p..P : Ok(cut, i)
      BY <1>1 DEF Fits
    <2> DEFINE k == cut[p] + 1
               rest == [i \in p..P |-> cut[i]]
    <2>2. k \in 1..H + 1 /\ Covers(glob, host, p, h, k)
      BY <2>1 DEF Covers
    <2>3. rest \in [(p + 1) - 1..P -> 0..H] /\ rest[(p + 1) - 1] = k - 1 /\ rest[P] = H
      BY <2>1
    <2>4. \A i \in p + 1..P : rest[i] = cut[i] /\ rest[i - 1] = cut[i - 1]
      OBVIOUS
    <2>5. \A i \in p + 1..P : Ok(rest, i)
      BY <2>1, <2>4
    <2>6. Fits(glob, host, p + 1, k)
      <3> HIDE DEF rest, k
      <3> QED
        BY <2>3, <2>5 DEF Fits
    <2> QED
      BY <2>2, <2>6
  <1>2. ASSUME NEW k \in 1..H + 1, Covers(glob, host, p, h, k), Fits(glob, host, p + 1, k)
        PROVE  Fits(glob, host, p, h)
    <2>1. PICK rest \in [p..P -> 0..H] :
             rest[p] = k - 1 /\ rest[P] = H /\ \A i \in p + 1..P : Ok(rest, i)
      <3>1. (p + 1) - 1 = p
        OBVIOUS
      <3> QED
        BY <1>2, <3>1 DEF Fits
    <2> DEFINE cut == [i \in p - 1..P |-> IF i = p - 1 THEN h - 1 ELSE rest[i]]
    <2>2. cut \in [p - 1..P -> 0..H] /\ cut[p - 1] = h - 1 /\ cut[P] = H /\ cut[p] = k - 1
      BY <2>1
    <2>3. \A i \in p + 1..P : cut[i] = rest[i] /\ cut[i - 1] = rest[i - 1]
      OBVIOUS
    <2> HIDE DEF cut
    <2>4. \A i \in p + 1..P : Ok(cut, i)
      BY <2>1, <2>3
    <2>5. Ok(cut, p)
      BY <1>2, <2>2 DEF Covers
    <2>6. \A i \in p..P : Ok(cut, i)
      BY <2>4, <2>5
    <2> QED
      BY <2>2, <2>6 DEF Fits
  <1> QED
    BY <1>1, <1>2

\* Where the whole host is used up, only * may be left of the glob.
LEMMA FitsStars ==
    ASSUME NEW glob, NEW host, Len(glob) \in Nat, Len(host) \in Nat, NEW p \in 1..Len(glob) + 1
    PROVE  Fits(glob, host, p, Len(host) + 1) <=> \A i \in p..Len(glob) : glob[i] = "*"
  <1> DEFINE P == Len(glob)
             H == Len(host)
  <1>1. ASSUME Fits(glob, host, p, H + 1), NEW o \in p..P, glob[o] # "*" PROVE FALSE
    <2>1. PICK cut \in [p - 1..P -> 0..H] :
             /\ cut[p - 1] = (H + 1) - 1 /\ cut[P] = H
             /\ \A i \in p..P :
                  IF glob[i] = "*" THEN cut[i] >= cut[i - 1]
                  ELSE cut[i] = cut[i - 1] + 1 /\ glob[i] \in {"?", host[cut[i]]}
      BY <1>1 DEF Fits
    <2> DEFINE S == {i \in p..P : glob[i] # "*" \/ cut[i] # H}
    <2>2. S \subseteq Nat /\ S # {}
      BY <1>1
    <2>3. PICK m \in S : \A n \in S : m <= n
      <3> HIDE DEF S
      <3> QED
        BY <2>2, LeastOf
    <2>4. cut[m - 1] = H
      <3>1. CASE m = p
        BY <2>1, <3>1
      <3>2. CASE m # p
        <4>1. m - 1 \in p..P /\ m - 1 \notin S
          BY <2>3, <3>2
        <4> QED
          BY <4>1
      <3> QED
        BY <3>1, <3>2
    <2>5. cut[m] \in 0..H
      BY <2>1, <2>3
    <2> QED
      BY <2>1, <2>3, <2>4, <2>5
  <1>2. ASSUME \A i \in p..P : glob[i] = "*" PROVE Fits(glob, host, p, H + 1)
    <2> DEFINE cut == [i \in p - 1..P |-> H]
    <2>1. cut \in [p - 1..P -> 0..H] /\ cut[p - 1] = (H + 1) - 1 /\ cut[P] = H
      OBVIOUS
    <2>2. \A i \in p..P : cut[i] = H /\ cut[i - 1] = H
      OBVIOUS
    <2> HIDE DEF cut
    <2>3. \A i \in p..P :
             IF glob[i] = "*" THEN cut[i] >= cut[i - 1]
             ELSE cut[i] = cut[i - 1] + 1 /\ glob[i] \in {"?", host[cut[i]]}
      BY <1>2, <2>2
    <2> QED
      BY <2>1, <2>3 DEF Fits
  <1> QED
    BY <1>1, <1>2

-----------------------------------------------------------------------------
(* The loop of host_pattern_matches.                                      *)

\* Where the loop stands.
LoopTypeOK(glob, host, s) ==
    /\ s = [p |-> s.p, h |-> s.h, star |-> s.star, after |-> s.after]
    /\ s.p \in 1..Len(glob) + 1 /\ s.h \in 1..Len(host) + 1
    /\ s.star \in 0..Len(glob) /\ s.after \in 1..Len(host) + 1 /\ s.after <= s.h
    /\ s.star # 0 => s.star < s.p

\* The glob stretches over the host exactly if what is left of it does, before
\* the first *, and if it does for a choice of what the last * covers, from the
\* one that is being tried on.
LoopFits(glob, host, s) ==
    IF s.star = 0 THEN Stretches(glob, host) <=> Fits(glob, host, s.p, s.h)
    ELSE /\ Stretches(glob, host) <=>
              \E k \in s.after..Len(host) + 1 : Fits(glob, host, s.star + 1, k)
         /\ \A k \in s.after..Len(host) + 1 : Fits(glob, host, s.star + 1, k) =>
              /\ k + (s.h - s.after) <= Len(host) + 1
              /\ Fits(glob, host, s.p, k + (s.h - s.after))
         /\ Fits(glob, host, s.p, s.h) => Fits(glob, host, s.star + 1, s.after)

\* The name of a host.
Plain(host) == \A i \in 1..Len(host) : host[i] # "*"

\* The loop has ended.
Halted(glob, host, s) ==
    \/ s.h > Len(host)
    \/ /\ s.star = 0
       /\ ~(s.p <= Len(glob) /\ (glob[s.p] \in {"?", host[s.h]} \/ glob[s.p] = "*"))

\* How far the loop has come.
Rank(host, s) == (s.star + s.after) * (Len(host) + 2) + (s.h - s.after)

\* A turn of the loop that is not its end keeps what it stands for, and comes
\* further.
LEMMA LoopTurn ==
    ASSUME NEW glob, NEW host, Len(glob) \in Nat, Len(host) \in Nat,
           Plain(host), NEW s, LoopTypeOK(glob, host, s), LoopFits(glob, host, s), ~Halted(glob, host, s)
    PROVE  LET t == MatchTurn(glob, host, s)
           IN /\ LoopTypeOK(glob, host, t) /\ LoopFits(glob, host, t)
              /\ Rank(host, t) > Rank(host, s)
  <1> DEFINE t == MatchTurn(glob, host, s)
             P == Len(glob)
             H == Len(host)
             F(p, h) == Fits(glob, host, p, h)
             Whole == Stretches(glob, host)
             open == s.p <= P
  <1>0. /\ P \in Nat /\ H \in Nat
        /\ s.p \in 1..P + 1 /\ s.h \in 1..H + 1 /\ s.star \in 0..P /\ s.after \in 1..H + 1
        /\ s.after <= s.h /\ (s.star # 0 => s.star < s.p)
    BY DEF LoopTypeOK
  <1>1. CASE open /\ glob[s.p] \in {"?", host[s.h]}
    <2>1. t = [p |-> s.p + 1, h |-> s.h + 1, star |-> s.star, after |-> s.after]
      BY <1>1 DEF MatchTurn, Halted, LoopTypeOK
    <2>2. s.p \in 1..P /\ s.h \in 1..H /\ glob[s.p] # "*"
      BY <1>1 DEF Halted, LoopTypeOK, Plain
    <2>3. LoopTypeOK(glob, host, t)
      <3> HIDE DEF t
      <3>1. t.p = s.p + 1 /\ t.h = s.h + 1 /\ t.star = s.star /\ t.after = s.after
        BY <2>1
      <3>2. t = [p |-> t.p, h |-> t.h, star |-> t.star, after |-> t.after]
        BY <2>1
      <3> QED
        <4> HIDE DEF P, H
        <4>1. t.p \in 1..P + 1 /\ t.h \in 1..H + 1 /\ t.star \in 0..P /\ t.after \in 1..H + 1
          BY <1>0, <2>2, <3>1
        <4>2. t.after <= t.h /\ (t.star # 0 => t.star < t.p)
          BY <1>0, <3>1
        <4> QED
          BY <3>2, <4>1, <4>2 DEF LoopTypeOK, P, H
    <2>4. \A h \in 1..H + 1 : F(s.p, h) => h <= H /\ F(s.p + 1, h + 1)
      BY <2>2, FitsStep DEF Covers
    <2>5. F(s.p + 1, s.h + 1) => F(s.p, s.h)
      <3>1. Covers(glob, host, s.p, s.h, s.h + 1)
        BY <1>1, <2>2 DEF Covers
      <3>2. s.h + 1 \in 1..H + 1 /\ s.h \in 1..H + 1
        BY <2>2
      <3> QED
        BY <2>2, <3>1, <3>2, FitsStep
    <2>6. LoopFits(glob, host, t)
      <3>1. CASE s.star = 0
        BY <2>1, <2>2, <2>4, <2>5, <3>1 DEF LoopFits
      <3>2. CASE s.star # 0
        <4> DEFINE d == s.h - s.after
        <4>1. d \in Nat /\ t.h - t.after = d + 1 /\ t.star = s.star /\ t.after = s.after
              /\ t.p = s.p + 1 /\ t.h = s.h + 1 /\ s.after \in 1..H + 1
          BY <2>1, <2>2 DEF LoopTypeOK
        <4>2. ASSUME NEW k \in s.after..H + 1, F(s.star + 1, k)
              PROVE  k + (d + 1) <= H + 1 /\ F(s.p + 1, k + (d + 1))
          <5>1. k + d <= H + 1 /\ F(s.p, k + d)
            BY <3>2, <4>2 DEF LoopFits
          <5>2. k + d \in 1..H + 1 /\ k + (d + 1) = (k + d) + 1
            BY <4>1, <5>1
          <5> HIDE DEF d, F
          <5>3. k + d <= H /\ F(s.p + 1, (k + d) + 1)
            BY <5>1, <5>2, <2>4
          <5> QED
            BY <5>2, <5>3
        <4>3. F(s.p + 1, s.h + 1) => F(s.star + 1, s.after)
          BY <2>5, <3>2 DEF LoopFits
        <4>4. Whole <=> \E k \in s.after..H + 1 : F(s.star + 1, k)
          BY <3>2 DEF LoopFits
        <4> HIDE DEF d, t
        <4> QED
          BY <3>2, <4>1, <4>2, <4>3, <4>4 DEF LoopFits
      <3> QED
        BY <3>1, <3>2
    <2>7. Rank(host, t) > Rank(host, s)
      <3> DEFINE r == (s.star + s.after) * (H + 2)
      <3> HIDE DEF t, P, H
      <3>1. s.star + s.after \in Nat /\ H + 2 \in Nat /\ s.h \in Nat /\ s.after \in Nat
        BY <1>0
      <3>2. t.star = s.star /\ t.after = s.after /\ t.h = s.h + 1
        BY <2>1
      <3>3. Rank(host, t) = r + ((s.h + 1) - s.after) /\ Rank(host, s) = r + (s.h - s.after)
        BY <3>2, Zenon DEF Rank, H
      <3>4. r \in Int
        BY <3>1
      <3> HIDE DEF r
      <3> QED
        BY <3>1, <3>3, <3>4
    <2> QED
      BY <2>3, <2>6, <2>7
  <1>2. CASE ~(open /\ glob[s.p] \in {"?", host[s.h]}) /\ open /\ glob[s.p] = "*"
    <2>1. t = [p |-> s.p + 1, h |-> s.h, star |-> s.p, after |-> s.h]
      BY <1>2 DEF MatchTurn, Halted, LoopTypeOK
    <2>2. s.p \in 1..P /\ s.h \in 1..H
      BY <1>2 DEF Halted, LoopTypeOK
    <2>3. LoopTypeOK(glob, host, t)
      <3> HIDE DEF t
      <3>1. t.p = s.p + 1 /\ t.h = s.h /\ t.star = s.p /\ t.after = s.h
        BY <2>1
      <3>2. t = [p |-> t.p, h |-> t.h, star |-> t.star, after |-> t.after]
        BY <2>1
      <3> HIDE DEF P, H
      <3>3. t.p \in 1..P + 1 /\ t.h \in 1..H + 1 /\ t.star \in 0..P /\ t.after \in 1..H + 1
        BY <1>0, <2>2, <3>1
      <3>4. t.after <= t.h /\ t.star < t.p
        BY <1>0, <3>1
      <3> QED
        BY <3>2, <3>3, <3>4 DEF LoopTypeOK, P, H
    <2>4. \A h \in 1..H + 1 : F(s.p, h) <=> \E k \in h..H + 1 : F(s.p + 1, k)
      <3>1. \A h \in 1..H + 1 : F(s.p, h) <=> \E k \in 1..H + 1 : k >= h /\ F(s.p + 1, k)
        BY <1>2, <2>2, FitsStep DEF Covers
      <3> HIDE DEF F
      <3> QED
        BY <3>1
    <2>5. Whole <=> \E k \in s.h..H + 1 : F(s.p + 1, k)
      <3>1. CASE s.star = 0
        <4>1. Whole <=> F(s.p, s.h)
          BY <3>1 DEF LoopFits
        <4> HIDE DEF F, Whole
        <4> QED
          BY <2>2, <2>4, <4>1
      <3>2. CASE s.star # 0
        <4>1. /\ Whole <=> \E k \in s.after..H + 1 : F(s.star + 1, k)
              /\ \A k \in s.after..H + 1 : F(s.star + 1, k) =>
                   k + (s.h - s.after) <= H + 1 /\ F(s.p, k + (s.h - s.after))
              /\ F(s.p, s.h) => F(s.star + 1, s.after)
          BY <3>2 DEF LoopFits
        <4>2. s.after \in 1..s.h /\ s.h \in 1..H
          BY <2>2 DEF LoopTypeOK
        <4> HIDE DEF F, Whole
        <4>3. ASSUME NEW k \in s.after..H + 1, F(s.star + 1, k) PROVE \E n \in s.h..H + 1 : F(s.p + 1, n)
          <5> DEFINE n == k + (s.h - s.after)
          <5>1. n \in s.h..H + 1 /\ n \in 1..H + 1 /\ F(s.p, n)
            BY <4>1, <4>2, <4>3
          <5>2. PICK m \in n..H + 1 : F(s.p + 1, m)
            <6> HIDE DEF n
            <6> QED
              BY <2>4, <5>1
          <5> QED
            BY <4>2, <5>1, <5>2
        <4>4. ASSUME NEW k \in s.h..H + 1, F(s.p + 1, k) PROVE F(s.star + 1, s.after)
          BY <2>2, <2>4, <4>1, <4>4
        <4> QED
          BY <4>1, <4>2, <4>3, <4>4
      <3> QED
        BY <3>1, <3>2
    <2>6. LoopFits(glob, host, t)
      <3>1. /\ t.star = s.p /\ t.star # 0 /\ t.after = s.h /\ t.p = s.p + 1 /\ t.h = s.h
            /\ s.h - s.h = 0
        BY <2>1, <2>2
      <3>2. \A k \in s.h..H + 1 : k + 0 = k /\ k <= H + 1
        BY <2>2
      <3> HIDE DEF t
      <3> QED
        BY <2>5, <3>1, <3>2 DEF LoopFits
    <2>7. Rank(host, t) > Rank(host, s)
      <3> DEFINE a == s.star + s.after
                 b == s.p + s.h
                 w == H + 2
      <3> HIDE DEF t, P, H
      <3>1. /\ a \in Nat /\ b \in Nat /\ w \in Nat /\ b >= a + 1
            /\ s.h - s.after \in Nat /\ s.h - s.after < w
        <4>1. a \in Nat /\ b \in Nat /\ w \in Nat
          BY <1>0
        <4>2. b >= a + 1
          BY <1>0
        <4>3. s.h - s.after \in Nat /\ s.h - s.after < w
          BY <1>0
        <4> QED
          BY <4>1, <4>2, <4>3
      <3>2. Rank(host, t) = b * w + (s.h - s.h) /\ Rank(host, s) = a * w + (s.h - s.after)
        <4>1. t.star = s.p /\ t.after = s.h /\ t.h = s.h
          BY <2>1
        <4> QED
          BY <4>1, Zenon DEF Rank, H
      <3> HIDE DEF a, b, w
      <3>3. b * w >= a * w + w /\ a * w \in Nat /\ b * w \in Nat
        BY <3>1
      <3>4. s.h - s.h = 0
        BY <1>0
      <3> QED
        BY <3>1, <3>2, <3>3, <3>4
    <2> QED
      BY <2>3, <2>6, <2>7
  <1>3. CASE ~(open /\ glob[s.p] \in {"?", host[s.h]}) /\ ~(open /\ glob[s.p] = "*")
    <2>1. s.star # 0 /\ s.h \in 1..H
      BY <1>3 DEF Halted, LoopTypeOK
    <2>2. t = [p |-> s.star + 1, h |-> s.after + 1, star |-> s.star, after |-> s.after + 1]
      BY <1>3, <2>1 DEF MatchTurn, Halted, LoopTypeOK
    <2>3. LoopTypeOK(glob, host, t)
      <3> HIDE DEF t
      <3>1. t.p = s.star + 1 /\ t.h = s.after + 1 /\ t.star = s.star /\ t.after = s.after + 1
        BY <2>2
      <3>2. t = [p |-> t.p, h |-> t.h, star |-> t.star, after |-> t.after]
        BY <2>2
      <3> QED
        <4> HIDE DEF P, H
        <4>1. t.p \in 1..P + 1 /\ t.h \in 1..H + 1 /\ t.star \in 0..P /\ t.after \in 1..H + 1
          <5>1. t.p \in 1..P + 1 /\ t.star \in 0..P
            BY <1>0, <3>1
          <5>2. t.h \in 1..H + 1 /\ t.after \in 1..H + 1
            BY <1>0, <2>1, <3>1
          <5> QED
            BY <5>1, <5>2
        <4>2. t.after <= t.h /\ t.star < t.p
          BY <1>0, <3>1
        <4> QED
          BY <3>2, <4>1, <4>2 DEF LoopTypeOK, P, H
    <2>4. ~F(s.p, s.h)
      <3>1. CASE s.p = P + 1
        BY <2>1, <3>1, FitsEnd
      <3>2. CASE s.p \in 1..P
        BY <1>3, <2>1, <3>2, FitsStep DEF Covers
      <3> QED
        BY <3>1, <3>2 DEF LoopTypeOK
    <2>5. /\ Whole <=> \E k \in s.after..H + 1 : F(s.star + 1, k)
          /\ F(s.star + 1, s.after) => F(s.p, s.after + (s.h - s.after))
      BY <2>1 DEF LoopFits, LoopTypeOK
    <2>6. s.after \in 1..H /\ s.after + (s.h - s.after) = s.h
      BY <2>1 DEF LoopTypeOK
    <2>7. Whole <=> \E k \in s.after + 1..H + 1 : F(s.star + 1, k)
      <3> HIDE DEF F, Whole
      <3>1. ~F(s.star + 1, s.after)
        BY <2>4, <2>5, <2>6
      <3> QED
        BY <2>5, <2>6, <3>1
    <2>8. LoopFits(glob, host, t)
      <3>1. /\ t.star = s.star /\ t.after = s.after + 1 /\ t.p = s.star + 1 /\ t.h = s.after + 1
            /\ t.h - t.after = 0
        BY <2>2, <2>6
      <3>2. \A k \in s.after + 1..H + 1 : k + 0 = k /\ k <= H + 1
        BY <2>6
      <3> HIDE DEF t
      <3> QED
        BY <2>1, <2>7, <3>1, <3>2 DEF LoopFits
    <2>9. Rank(host, t) > Rank(host, s)
      <3> DEFINE a == s.star + s.after
                 w == H + 2
      <3> HIDE DEF t, P, H
      <3>1. /\ a \in Nat /\ w \in Nat /\ s.star + (s.after + 1) = a + 1
            /\ s.h - s.after \in Nat /\ s.h - s.after < w
            /\ (s.after + 1) - (s.after + 1) = 0
        <4>1. a \in Nat /\ w \in Nat
          BY <1>0
        <4>2. s.star + (s.after + 1) = a + 1
          BY <1>0
        <4>3. s.h - s.after \in Nat /\ s.h - s.after < w
          BY <1>0
        <4>4. (s.after + 1) - (s.after + 1) = 0
          BY <1>0
        <4> QED
          BY <4>1, <4>2, <4>3, <4>4
      <3>2. Rank(host, t) = (a + 1) * w + 0 /\ Rank(host, s) = a * w + (s.h - s.after)
        <4>1. t.star = s.star /\ t.after = s.after + 1 /\ t.h = s.after + 1
          BY <2>2
        <4> QED
          BY <3>1, <4>1, Zenon DEF Rank, H
      <3> HIDE DEF a, w
      <3>3. (a + 1) * w = a * w + w /\ a * w \in Nat
        BY <3>1
      <3> QED
        BY <3>1, <3>2, <3>3
    <2> QED
      BY <2>3, <2>8, <2>9
  <1> QED
    BY <1>1, <1>2, <1>3

\* Where the loop has ended, it has ended with the answer.
LEMMA LoopEnd ==
    ASSUME NEW glob, NEW host, Len(glob) \in Nat, Len(host) \in Nat,
           NEW s, LoopTypeOK(glob, host, s), LoopFits(glob, host, s), Halted(glob, host, s)
    PROVE  (s.h > Len(host) /\ \A i \in s.p..Len(glob) : glob[i] = "*") <=> Stretches(glob, host)
  <1> DEFINE P == Len(glob)
             H == Len(host)
             F(p, h) == Fits(glob, host, p, h)
             Whole == Stretches(glob, host)
             stars == \A i \in s.p..P : glob[i] = "*"
  <1>0. s.p \in 1..P + 1 /\ s.h \in 1..H + 1 /\ s.after \in 1..H + 1 /\ s.after <= s.h
    BY DEF LoopTypeOK
  <1>1. CASE s.h > H
    <2>1. s.h = H + 1
      BY <1>0, <1>1
    <2>2. stars <=> F(s.p, s.h)
      BY <1>0, <2>1, FitsStars
    <2>3. CASE s.star = 0
      BY <1>1, <2>2, <2>3 DEF LoopFits
    <2>4. CASE s.star # 0
      <3>1. /\ Whole <=> \E k \in s.after..H + 1 : F(s.star + 1, k)
            /\ \A k \in s.after..H + 1 : F(s.star + 1, k) =>
                 k + (s.h - s.after) <= H + 1 /\ F(s.p, k + (s.h - s.after))
            /\ F(s.p, s.h) => F(s.star + 1, s.after)
        BY <2>4 DEF LoopFits
      <3>2. s.after \in s.after..H + 1
        BY <1>0
      <3>3. ASSUME NEW k \in s.after..H + 1, F(s.star + 1, k) PROVE F(s.p, s.h)
        <4> HIDE DEF F
        <4>1. k + (s.h - s.after) <= H + 1 /\ F(s.p, k + (s.h - s.after))
          BY <3>1, <3>3
        <4>2. k + (s.h - s.after) = s.h
          BY <1>0, <2>1, <4>1
        <4> QED
          BY <4>1, <4>2
      <3> HIDE DEF F, Whole, stars
      <3>4. Whole <=> F(s.p, s.h)
        BY <3>1, <3>2, <3>3
      <3> QED
        BY <1>1, <2>2, <3>4 DEF Whole, stars
    <2> QED
      BY <2>3, <2>4
  <1>2. CASE ~(s.h > H)
    <2>1. s.star = 0 /\ ~(s.p <= P /\ (glob[s.p] \in {"?", host[s.h]} \/ glob[s.p] = "*"))
      BY <1>2 DEF Halted
    <2>2. s.h \in 1..H
      BY <1>0, <1>2
    <2>3. ~F(s.p, s.h)
      <3>1. CASE s.p = P + 1
        BY <2>2, <3>1, FitsEnd
      <3>2. CASE s.p \in 1..P
        BY <2>1, <2>2, <3>2, FitsStep DEF Covers
      <3> QED
        BY <1>0, <3>1, <3>2
    <2> QED
      BY <1>2, <2>1, <2>3 DEF LoopFits
  <1> QED
    BY <1>1, <1>2

\* The loop of host_pattern_matches, with what it remembers of the last *,
\* decides whether the glob stretches over the host.
THEOREM GlobMatches ==
    ASSUME NEW glob, NEW host, Len(glob) \in Nat, Len(host) \in Nat, Plain(host)
    PROVE  HostPatternMatches(glob, host) <=> Stretches(glob, host)
  <1> DEFINE P == Len(glob)
             H == Len(host)
             N == MostTurns(glob, host)
             T == MatchTurns(glob, host)
             Good(s) == LoopTypeOK(glob, host, s) /\ LoopFits(glob, host, s)
             S == {n \in 0..N : Good(T[n]) /\ (Halted(glob, host, T[n]) \/ Rank(host, T[n]) >= n + (H + 2))}
  <1>1. N \in Nat
    BY DEF MostTurns
  <1>2. /\ T[0] = [p |-> 1, h |-> 1, star |-> 0, after |-> 1]
        /\ \A n \in 1..N : T[n] = MatchTurn(glob, host, T[n - 1])
    BY <1>1, TurnsFollow
  <1> HIDE DEF T, N
  <1>3. 0 \in S
    <2>1. T[0].p = 1 /\ T[0].h = 1 /\ T[0].star = 0 /\ T[0].after = 1
      BY <1>2
    <2>2. LoopTypeOK(glob, host, T[0])
      BY <1>2, <2>1 DEF LoopTypeOK
    <2>3. Stretches(glob, host) <=> Fits(glob, host, 1, 1)
      <3>1. 1 - 1 = 0 /\ DOMAIN glob = 1..P
        OBVIOUS
      <3> QED
        BY <3>1 DEF Stretches, Fits
    <2>4. LoopFits(glob, host, T[0])
      BY <2>1, <2>3 DEF LoopFits
    <2>5. Rank(host, T[0]) >= 0 + (H + 2)
      BY <2>1 DEF Rank
    <2> HIDE DEF Good
    <2> QED
      BY <1>1, <2>2, <2>4, <2>5 DEF Good
  <1>4. ASSUME NEW n \in 0..N, n < N, n \in S PROVE n + 1 \in S
    <2> DEFINE s == T[n]
               t == T[n + 1]
    <2>1. n + 1 \in 1..N /\ n + 1 \in 0..N /\ (n + 1) - 1 = n
      BY <1>1, <1>4
    <2>2. t = MatchTurn(glob, host, s)
      BY <1>2, <2>1
    <2>3. Good(s) /\ (Halted(glob, host, s) \/ Rank(host, s) >= n + (H + 2))
      BY <1>4
    <2> HIDE DEF s, t
    <2>4. CASE Halted(glob, host, s)
      <3>1. t = s
        BY <2>2, <2>4 DEF MatchTurn, Halted
      <3> QED
        BY <2>1, <2>3, <2>4, <3>1 DEF t
    <2>5. CASE ~Halted(glob, host, s)
      <3>1. Good(t) /\ Rank(host, t) > Rank(host, s)
        BY <2>2, <2>3, <2>5, LoopTurn
      <3>2. Rank(host, t) \in Int /\ Rank(host, s) \in Int
        <4>1. \A x : LoopTypeOK(glob, host, x) => Rank(host, x) \in Int
          BY DEF LoopTypeOK, Rank
        <4> QED
          BY <2>3, <3>1, <4>1
      <3>3. Rank(host, t) >= (n + 1) + (H + 2)
        BY <2>3, <2>5, <3>1, <3>2
      <3> HIDE DEF Good
      <3> QED
        BY <2>1, <3>1, <3>3 DEF t
    <2> QED
      BY <2>4, <2>5
  <1>5. N \in S
    <2> HIDE DEF S
    <2>1. \A n \in 0..N : n < N /\ n \in S => n + 1 \in S
      BY <1>4
    <2>2. \A n \in 0..N : n \in S
      BY <1>1, <1>3, <2>1, UpTo, Zenon
    <2> QED
      BY <1>1, <2>2
  <1> DEFINE e == T[N]
  <1>6. Good(e) /\ (Halted(glob, host, e) \/ Rank(host, e) >= N + (H + 2))
    BY <1>5
  <1> HIDE DEF e
  <1>7. Halted(glob, host, e)
    <2> DEFINE a == e.star + e.after
               w == H + 2
               d == e.h - e.after
    <2> SUFFICES ASSUME Rank(host, e) >= N + w PROVE FALSE
      BY <1>6
    <2>1. LoopTypeOK(glob, host, e)
      BY <1>6
    <2>2. a \in Nat /\ a <= P + H + 1 /\ w \in Nat /\ d \in Nat /\ d < w /\ P + H + 1 \in Nat
      BY <2>1 DEF LoopTypeOK
    <2>3. Rank(host, e) = a * w + d
      BY DEF Rank
    <2>4. N = (P + H + 1) * w
      BY DEF MostTurns, N
    <2> DEFINE b == P + H + 1
    <2> HIDE DEF a, w, d, b
    <2>5. a * w <= b * w /\ a * w \in Nat /\ b * w \in Nat
      BY <2>2 DEF b
    <2> QED
      BY <2>2, <2>3, <2>4, <2>5 DEF b
  <1>8. HostPatternMatches(glob, host) <=> (e.h > H /\ \A i \in e.p..P : glob[i] = "*")
    BY DEF HostPatternMatches, e, T, N
  <1> QED
    BY <1>6, <1>7, <1>8, LoopEnd

-----------------------------------------------------------------------------
\* A block is active for the hosts its patterns mean.
LEMMA BlockMatches ==
    ASSUME NEW patterns, NEW host, IsSeq(host), host # <<>>, \A i \in DOMAIN host : host[i] # "*",
           \A p \in DOMAIN patterns : IsSeq(patterns[p].glob) /\ patterns[p].neg \in BOOLEAN
    PROVE  HostBlockMatches(patterns, host) <=> ForAlias(patterns, host)
  <1>1. Len(host) \in Nat /\ Len(host) > 0 /\ Plain(host)
    BY DEF IsSeq, Plain
  <1>2. \A p \in DOMAIN patterns : Len(patterns[p].glob) \in Nat
    BY DEF IsSeq
  <1>3. ~Stretches(<<>>, host)
    BY <1>1 DEF Stretches
  <1>4. \A p \in DOMAIN patterns :
           (patterns[p].glob # <<>> /\ HostPatternMatches(patterns[p].glob, host))
             <=> Stretches(patterns[p].glob, host)
    BY <1>1, <1>2, <1>3, GlobMatches
  <1> DEFINE hits == {p \in DOMAIN patterns : Stretches(patterns[p].glob, host)}
  <1>5. hits = {i \in DOMAIN patterns : patterns[i].glob # <<>> /\ HostPatternMatches(patterns[i].glob, host)}
    BY <1>4
  <1>6. ForAlias(patterns, host) <=> (\E p \in hits : ~patterns[p].neg) /\ (\A p \in hits : ~patterns[p].neg)
    BY DEF ForAlias
  <1>7. HostBlockMatches(patterns, host) <=> hits # {} /\ \A p \in hits : ~patterns[p].neg
    BY <1>5 DEF HostBlockMatches
  <1> HIDE DEF hits
  <1> QED
    BY <1>6, <1>7

-----------------------------------------------------------------------------
(* Identities.                                                            *)

\* The first of the keys that is in a set, if one is.
LEMMA FirstOf ==
    ASSUME NEW keys, IsSeq(keys), NEW set, NEW socket, set \subseteq Supported
    PROVE  LET f == FirstIn(keys, set, socket)
           IN /\ f = Failed <=> \A i \in DOMAIN keys : keys[i] \notin set
              /\ f # Failed => \E i \in DOMAIN keys : keys[i] \in set /\ f = [key |-> keys[i], via |-> socket]
  <1> DEFINE at == {i \in DOMAIN keys : keys[i] \in set}
             first == CHOOSE i \in at : \A j \in at : i <= j
  <1>1. CASE at = {}
    <2>1. FirstIn(keys, set, socket) = Failed
      BY <1>1 DEF FirstIn
    <2> QED
      BY <1>1, <2>1
  <1>2. CASE at # {}
    <2>1. at \subseteq Nat
      <3>1. DOMAIN keys \subseteq Nat
        BY DEF IsSeq
      <3> QED
        BY <3>1
    <2>2. \E m \in at : \A n \in at : m <= n
      <3> HIDE DEF at
      <3> QED
        BY <1>2, <2>1, LeastOf
    <2>3. first \in at
      <3> HIDE DEF at
      <3> QED
        BY <2>2
    <2>4. FirstIn(keys, set, socket) = [key |-> keys[first], via |-> socket]
      BY <1>2, Zenon DEF FirstIn
    <2>5. keys[first] \in set /\ first \in DOMAIN keys
      BY <2>3
    <2> HIDE DEF first
    <2>6. [key |-> keys[first], via |-> socket] # Failed
      BY <2>5, KeyAssumption DEF Failed
    <2> QED
      BY <2>4, <2>5, <2>6
  <1> QED
    BY <1>1, <1>2

\* The keys an agent holds.
Holds(env, socket) ==
    LET held == IF socket \in DOMAIN env.agents THEN env.agents[socket] ELSE <<>>
    IN {held[i] : i \in DOMAIN held}

\* What an agent gives: one of its keys, and of those that were asked for.
LEMMA FromAgent ==
    ASSUME NEW env, NEW socket, NEW set, set \subseteq Supported,
           \A s \in DOMAIN env.agents : IsSeq(env.agents[s])
    PROVE  LET f == FirstIn(ListAgentIdentities(env, socket), set, socket)
           IN /\ f = Failed <=> Holds(env, socket) \cap set = {}
              /\ f # Failed => /\ f.key \in Holds(env, socket) \cap set /\ f.via = socket
                               /\ socket \in DOMAIN env.agents
  <1> DEFINE keys == ListAgentIdentities(env, socket)
             f == FirstIn(keys, set, socket)
  <1>1. IsSeq(keys) /\ (keys = <<>> \/ socket \in DOMAIN env.agents)
    <2>1. CASE socket \in DOMAIN env.agents
      BY <2>1 DEF ListAgentIdentities
    <2>2. CASE socket \notin DOMAIN env.agents
      BY <2>2 DEF ListAgentIdentities, IsSeq
    <2> QED
      BY <2>1, <2>2
  <1>2. Holds(env, socket) = {keys[i] : i \in DOMAIN keys}
    BY DEF Holds, ListAgentIdentities
  <1>3. f # Failed => \E i \in DOMAIN keys : keys[i] \in set /\ f = [key |-> keys[i], via |-> socket]
    BY <1>1, FirstOf
  <1>4. f = Failed <=> \A i \in DOMAIN keys : keys[i] \notin set
    BY <1>1, FirstOf
  <1> HIDE DEF keys, f
  <1>5. f # Failed => socket \in DOMAIN env.agents
    BY <1>1, <1>3
  <1>6. f = Failed <=> Holds(env, socket) \cap set = {}
    BY <1>2, <1>4
  <1>7. f # Failed => f.key \in Holds(env, socket) \cap set /\ f.via = socket
    BY <1>2, <1>3
  <1> QED
    BY <1>5, <1>6, <1>7 DEF f, keys

\* An identity that may be presented, with the file and the agent asked for.
Proper(e, file, setting, id) ==
    /\ id.key \in Supported
    /\ file # NoKey /\ id.via = "file" => id.key = e.private[file].key
    /\ file # NoKey /\ id.via # "file" => id.key = e.pub[file]
    /\ id.via # "file" =>
         /\ setting # "none" /\ id.key \in Holds(e, id.via)
         /\ setting # "default" => id.via = setting
    /\ file = NoKey /\ id.via # "file" /\ PreferredPublicKey(e) \in Holds(e, id.via) \cap Supported
         => id.key = PreferredPublicKey(e)

\* load_identity_with_options returns a proper identity or fails.
LEMMA LoadsProper ==
    ASSUME NEW e, NEW file, NEW setting, NEW prompt, "file" \notin DOMAIN e.agents,
           \A s \in DOMAIN e.agents : IsSeq(e.agents[s]),
           NEW id \in LoadIdentity(e, file, setting, prompt), id # Failed
    PROVE  Proper(e, file, setting, id)
  <1> DEFINE socket == ResolveSocket(e, setting)
             preferred == PreferredPublicKey(e)
             keys == ListAgentIdentities(e, socket)
             match == FirstIn(keys, {preferred} \cap Supported, socket)
             any == FirstIn(keys, Supported, socket)
             named == FirstIn(keys, {e.pub[file]} \cap Supported, socket)
             agent == IF socket = "no socket" THEN Failed
                      ELSE IF file # NoKey THEN named
                      ELSE IF preferred # NoKey /\ match # Failed THEN match ELSE any
             other == IF file # NoKey THEN file ELSE DefaultFile(e)
  <1>1. LoadIdentity(e, file, setting, prompt) =
          IF agent # Failed THEN {agent} ELSE LoadFromFile(e, other, prompt)
    BY Zenon DEF LoadIdentity, LoadFromAgentMatching, LoadFromAgent
  <1>2. socket # "no socket" =>
          setting # "none" /\ (setting # "default" => socket = setting)
    BY DEF ResolveSocket
  <1>3. \A set \in SUBSET Supported :
          LET f == FirstIn(keys, set, socket)
          IN /\ f = Failed <=> Holds(e, socket) \cap set = {}
             /\ f # Failed => /\ f.key \in Holds(e, socket) \cap set /\ f.via = socket
                              /\ socket \in DOMAIN e.agents
    BY FromAgent, Zenon
  <1> HIDE DEF socket, preferred, keys
  <1>4. CASE agent # Failed
    <2>1. id = agent /\ socket # "no socket"
      BY <1>1, <1>4
    <2>2. CASE file # NoKey
      <3>1. id = named /\ named # Failed
        BY <1>4, <2>1, <2>2
      <3>2. /\ id.key \in Holds(e, socket) \cap ({e.pub[file]} \cap Supported)
            /\ id.via = socket /\ socket \in DOMAIN e.agents
        BY <1>3, <3>1
      <3> QED
        BY <1>2, <2>1, <2>2, <3>2 DEF Proper
    <2>3. CASE file = NoKey /\ preferred # NoKey /\ match # Failed
      <3>1. id = match
        BY <1>4, <2>1, <2>3
      <3>2. /\ id.key \in Holds(e, socket) \cap ({preferred} \cap Supported)
            /\ id.via = socket /\ socket \in DOMAIN e.agents
        BY <1>3, <2>3, <3>1
      <3> QED
        BY <1>2, <2>1, <2>3, <3>2 DEF Proper, preferred
    <2>4. CASE file = NoKey /\ ~(preferred # NoKey /\ match # Failed)
      <3>1. id = any /\ any # Failed
        BY <1>4, <2>1, <2>4
      <3>2. id.key \in Holds(e, socket) \cap Supported /\ id.via = socket /\ socket \in DOMAIN e.agents
        BY <1>3, <3>1
      <3>3. preferred \notin Holds(e, socket) \cap Supported
        <4>1. match = Failed <=> Holds(e, socket) \cap ({preferred} \cap Supported) = {}
          BY <1>3
        <4> QED
          BY <2>4, <4>1, KeyAssumption
      <3> QED
        BY <1>2, <2>1, <2>4, <3>2, <3>3 DEF Proper, preferred
    <2> QED
      BY <2>2, <2>3, <2>4
  <1>5. CASE agent = Failed
    <2>1. id \in LoadFromFile(e, other, prompt)
      BY <1>1, <1>5
    <2> HIDE DEF other
    <2>2. id = [key |-> e.private[other].key, via |-> "file"] /\ e.private[other].key \in Supported
      BY <2>1 DEF LoadFromFile
    <2> QED
      BY <2>2 DEF Proper, other
  <1> QED
    BY <1>4, <1>5

\* Of the files, at most one key is presented: the one that was configured.
THEOREM IdentitySafe ==
    ASSUME NEW worlds, \A w \in worlds : IsWorld(w)
    PROVE  LoginSpec(worlds) => []PresentsConfiguredKey
  <1> DEFINE Inv == world \in worlds /\ PresentsConfiguredKey
  <1>0. PresentsConfiguredKey <=>
          (stage \in {"handshake", "pending", "served", "refused"}
             => Proper(world.env, resolved.file, resolved.agent, identity))
    BY Zenon DEF PresentsConfiguredKey, Proper, Holds
  <1>1. LoginInit(worlds) => Inv
    BY DEF LoginInit, PresentsConfiguredKey
  <1>2. Inv /\ [LoginNext]_loginVars => Inv'
    <2> SUFFICES ASSUME Inv, [LoginNext]_loginVars PROVE Inv'
      OBVIOUS
    <2>0. PresentsConfiguredKey' <=>
          (stage' \in {"handshake", "pending", "served", "refused"}
             => Proper(world'.env, resolved'.file, resolved'.agent, identity'))
      BY <1>0 DEF PresentsConfiguredKey, Proper, Holds
    <2>1. CASE UNCHANGED loginVars
      BY <2>1, <1>0, <2>0 DEF loginVars
    <2>2. CASE ReadConfigLine
      BY <2>2, <2>0 DEF ReadConfigLine
    <2>3. CASE ResolveSettings
      BY <2>3, <2>0 DEF ResolveSettings
    <2>4. CASE LoadKey
      <3>1. /\ identity' \in LoadIdentity(world.env, resolved.file, resolved.agent, world.cli.prompt)
            /\ identity' = Failed => stage' = "failed"
            /\ UNCHANGED <<world, resolved>>
        BY <2>4 DEF LoadKey
      <3>2. /\ "file" \notin DOMAIN world.env.agents
            /\ \A s \in DOMAIN world.env.agents : IsSeq(world.env.agents[s])
        BY DEF IsWorld
      <3>3. CASE identity' = Failed
        BY <2>0, <3>1, <3>3
      <3>4. CASE identity' # Failed
        <4>1. Proper(world.env, resolved.file, resolved.agent, identity')
          BY <3>1, <3>2, <3>4, LoadsProper
        <4> QED
          BY <2>0, <3>1, <4>1
      <3> QED
        BY <3>3, <3>4
    <2>5. CASE Handshake \/ Authenticate
      BY <2>5, <1>0, <2>0 DEF Handshake, Authenticate
    <2> QED
      BY <2>1, <2>2, <2>3, <2>4, <2>5 DEF LoginNext
  <1> QED
    BY <1>1, <1>2, PTL DEF LoginSpec

-----------------------------------------------------------------------------
(* The configuration.                                                     *)

ConfigKeys == Single \cup Forwards \cup {"setenv"}

\* The lines with key k, of the first n, that govern the alias.
LinesTo(w, k, n) == {i \in 1..n : w.file[i].key = k /\ Governed(w.file, i, w.alias)}

\* The value of a setting that the lines L make: the first that gives one.
SingleOf(w, k, L, v) ==
    LET giving == {i \in L : ParseValue(k, w.file[i].value) # Unset}
    IN \/ giving = {} /\ v = Unset
       \/ \E i \in giving : v = ParseValue(k, w.file[i].value) /\ \A j \in giving : i <= j

\* The forwards the lines L make: one each, in their order.
ForwardsOf(w, L, v) ==
    /\ v \in Seq({ParseForward(w.file[i].value) : i \in L})
    /\ Len(v) = Cardinality(L)
    /\ \A i \in L : v[Cardinality({j \in L : j <= i})] = ParseForward(w.file[i].value)

\* The variables the lines L set: those of the first.
SetEnvOf(w, L, v) ==
    \/ L = {} /\ v = {}
    \/ v # {} /\ \E i \in L : v = ParseSetEnv(w.file[i].value) /\ \A j \in L : i <= j

SettingOf(w, k, L, v) ==
    /\ k \in Single => SingleOf(w, k, L, v)
    /\ k \in Forwards => ForwardsOf(w, L, v)
    /\ k = "setenv" => SetEnvOf(w, L, v)

\* A further line, and the setting it makes.
LEMMA NextSingle ==
    ASSUME NEW w, NEW n \in Nat, NEW L \in SUBSET (1..n), NEW k \in Single, NEW v, SingleOf(w, k, L, v),
           w.file[n + 1].key = k
    PROVE  SingleOf(w, k, L \cup {n + 1}, NewSetting(v, w.file[n + 1]))
  <1> DEFINE Giving(M) == {i \in M : ParseValue(k, w.file[i].value) # Unset}
             x == ParseValue(k, w.file[n + 1].value)
             u == NewSetting(v, w.file[n + 1])
  <1>1. SshHostConfig[k] = Unset
    BY DEF SshHostConfig
  <1>2. u = IF v # Unset THEN v ELSE x
    BY <1>1 DEF NewSetting, Single, Forwards
  <1>3. \A j \in L : j \in Nat /\ j <= n
    OBVIOUS
  <1> HIDE DEF u
  <1>4. CASE Giving(L) = {} /\ v = Unset
    <2>1. CASE x = Unset
      <3>1. Giving(L \cup {n + 1}) = {}
        BY <1>4, <2>1
      <3> QED
        BY <1>2, <1>4, <2>1, <3>1 DEF SingleOf, u
    <2>2. CASE x # Unset
      <3>1. Giving(L \cup {n + 1}) = {n + 1}
        BY <1>4, <2>2
      <3> QED
        BY <1>2, <1>4, <3>1 DEF SingleOf, u
    <2> QED
      BY <2>1, <2>2
  <1>5. ASSUME NEW i \in Giving(L), v = ParseValue(k, w.file[i].value), \A j \in Giving(L) : i <= j
        PROVE  SingleOf(w, k, L \cup {n + 1}, u)
    <2>1. v # Unset /\ u = v
      BY <1>2, <1>5
    <2>2. i \in Giving(L \cup {n + 1})
      BY <1>5
    <2>3. \A j \in Giving(L \cup {n + 1}) : i <= j
      BY <1>3, <1>5
    <2> QED
      BY <1>5, <2>1, <2>2, <2>3 DEF SingleOf, u
  <1> QED
    BY <1>4, <1>5 DEF SingleOf, u

\* One more forward goes to the end of the list.
LEMMA NextForward ==
    ASSUME NEW w, NEW n \in Nat, NEW L \in SUBSET (1..n), NEW v, ForwardsOf(w, L, v),
           w.file[n + 1].key \in Forwards, NewSetting(v, w.file[n + 1]) # Bad
    PROVE  ForwardsOf(w, L \cup {n + 1}, NewSetting(v, w.file[n + 1]))
  <1> DEFINE x == ParseForward(w.file[n + 1].value)
             M == L \cup {n + 1}
             X == {ParseForward(w.file[i].value) : i \in M}
             u == NewSetting(v, w.file[n + 1])
             Upto(S, i) == {j \in S : j <= i}
  <1>1. u = Append(v, x)
    BY DEF NewSetting
  <1>2. n + 1 \notin L /\ IsFiniteSet(L) /\ \A j \in L : j \in Nat /\ j <= n
    <2>1. IsFiniteSet(1..n)
      BY FS_Interval
    <2>2. IsFiniteSet(L)
      BY <2>1, FS_Subset
    <2>3. \A j \in L : j \in Nat /\ j <= n
      OBVIOUS
    <2> QED
      BY <2>2, <2>3
  <1>3. IsFiniteSet(M) /\ Cardinality(M) = Cardinality(L) + 1 /\ Cardinality(L) \in Nat
    BY <1>2, FS_AddElement, FS_CardinalityType
  <1>4. v \in Seq(X) /\ x \in X /\ Len(v) = Cardinality(L)
    <2> DEFINE Y == {ParseForward(w.file[i].value) : i \in L}
    <2>1. Y \subseteq X
      OBVIOUS
    <2>2. v \in Seq(Y) /\ Len(v) = Cardinality(L)
      BY DEF ForwardsOf
    <2>3. n + 1 \in M
      OBVIOUS
    <2>4. x \in X
      BY <2>3
    <2> HIDE DEF X, Y, x
    <2>5. v \in Seq(X)
      BY <2>1, <2>2
    <2> QED
      BY <2>2, <2>4, <2>5
  <1> HIDE DEF X, x, u
  <1>5. /\ u \in Seq(X) /\ Len(u) = Len(v) + 1 /\ u[Len(v) + 1] = x
        /\ \A i \in 1..Len(v) : u[i] = v[i]
    BY <1>1, <1>4
  <1>6. ASSUME NEW i \in L PROVE u[Cardinality(Upto(M, i))] = ParseForward(w.file[i].value)
    <2>1. Upto(M, i) = Upto(L, i)
      BY <1>2
    <2>2. v[Cardinality(Upto(L, i))] = ParseForward(w.file[i].value)
      BY DEF ForwardsOf
    <2>3. Upto(L, i) \subseteq L /\ i \in Upto(L, i)
      BY <1>2
    <2> HIDE DEF Upto
    <2>4. IsFiniteSet(Upto(L, i)) /\ Cardinality(Upto(L, i)) <= Cardinality(L) /\ Cardinality(Upto(L, i)) \in Nat
      BY <1>2, <2>3, FS_Subset, FS_CardinalityType
    <2>5. Cardinality(Upto(L, i)) # 0
      BY <2>3, <2>4, FS_EmptySet
    <2>6. Cardinality(Upto(L, i)) \in 1..Len(v)
      BY <1>3, <1>4, <2>4, <2>5
    <2> QED
      BY <1>5, <2>1, <2>2, <2>6
  <1>7. u[Cardinality(Upto(M, n + 1))] = ParseForward(w.file[n + 1].value)
    <2>1. \A j \in M : j <= n + 1
      BY <1>2
    <2>2. Upto(M, n + 1) = M
      <3> HIDE DEF M
      <3> QED
        BY <2>1
    <2> QED
      BY <1>3, <1>4, <1>5, <2>2 DEF x
  <1>8. \A i \in M : u[Cardinality(Upto(M, i))] = ParseForward(w.file[i].value)
    BY <1>6, <1>7
  <1> QED
    BY <1>3, <1>4, <1>5, <1>8 DEF ForwardsOf, u, X

\* One more SetEnv counts if it is the first.
LEMMA NextSetEnv ==
    ASSUME NEW w, NEW n \in Nat, NEW L \in SUBSET (1..n), NEW v, SetEnvOf(w, L, v),
           w.file[n + 1].key = "setenv", IsSeq(w.file[n + 1].value),
           NewSetting(v, w.file[n + 1]) # Bad
    PROVE  SetEnvOf(w, L \cup {n + 1}, NewSetting(v, w.file[n + 1]))
  <1> DEFINE args == w.file[n + 1].value
             x == ParseSetEnv(args)
             u == NewSetting(v, w.file[n + 1])
  <1>1. SshHostConfig["setenv"] = {}
    BY DEF SshHostConfig, Single, Forwards
  <1>2. u = IF v # {} THEN v ELSE x
    BY <1>1 DEF NewSetting, Single, Forwards
  <1>3. \A j \in L : j \in Nat /\ j <= n
    OBVIOUS
  <1> HIDE DEF u
  <1>4. CASE L = {} /\ v = {}
    <2>1. u = x /\ x # Bad
      BY <1>2, <1>4 DEF u
    <2>2. args # <<>>
      BY <2>1 DEF ParseSetEnv
    <2>3. 1 \in DOMAIN args
      BY <2>2 DEF IsSeq
    <2>4. args[1] \in x
      BY <2>1, <2>3 DEF ParseSetEnv
    <2>5. x # {}
      BY <2>4
    <2>6. L \cup {n + 1} = {n + 1} /\ n + 1 <= n + 1
      BY <1>4
    <2> QED
      BY <2>1, <2>5, <2>6 DEF SetEnvOf, u
  <1>5. ASSUME v # {}, NEW i \in L, v = ParseSetEnv(w.file[i].value), \A j \in L : i <= j
        PROVE  SetEnvOf(w, L \cup {n + 1}, u)
    <2>1. u = v
      BY <1>2, <1>5
    <2>2. \A j \in L \cup {n + 1} : i <= j
      BY <1>3, <1>5
    <2> QED
      BY <1>5, <2>1, <2>2 DEF SetEnvOf
  <1> QED
    BY <1>4, <1>5 DEF SetEnvOf, u

\* What has been read, after n lines: which block is open, and every setting.
ReadTo(w, n, st) ==
    /\ st.active <=> Governed(w.file, n + 1, w.alias)
    /\ \A k \in ConfigKeys : SettingOf(w, k, LinesTo(w, k, n), st.cfg[k])

ParseTypeOK(st) ==
    /\ st = [active |-> st.active, cfg |-> st.cfg, failed |-> st.failed]
    /\ st.active \in BOOLEAN /\ st.failed \in BOOLEAN
    /\ st.cfg = [k \in ConfigKeys |-> st.cfg[k]]

\* A Host line opens a block, and any other leaves the one that is open.
LEMMA NextBlock ==
    ASSUME NEW file, NEW alias, NEW n \in Nat
    PROVE  Governed(file, (n + 1) + 1, alias) <=>
             IF file[n + 1].key = "host" THEN ForAlias(file[n + 1].value, alias)
             ELSE Governed(file, n + 1, alias)
  <1> DEFINE Block(j) == file[j].key = "host" /\ ForAlias(file[j].value, alias)
             Still(j, i) == \A m \in j + 1..i : file[m].key # "host"
  <1>1. \A i \in Nat : Governed(file, i + 1, alias) <=> \E j \in 1..i : Block(j) /\ Still(j, i)
    <2>1. \A i \in Nat : (i + 1) - 1 = i
      OBVIOUS
    <2> QED
      BY <2>1 DEF Governed
  <1>2. \A j \in 1..n : Still(j, n + 1) <=> Still(j, n) /\ file[n + 1].key # "host"
    OBVIOUS
  <1>3. Still(n + 1, n + 1)
    OBVIOUS
  <1>4. Governed(file, (n + 1) + 1, alias) <=> \E j \in 1..n + 1 : Block(j) /\ Still(j, n + 1)
    <2>1. n + 1 \in Nat
      OBVIOUS
    <2> HIDE DEF Block, Still
    <2> QED
      BY <1>1, <2>1
  <1>5. Governed(file, n + 1, alias) <=> \E j \in 1..n : Block(j) /\ Still(j, n)
    BY <1>1
  <1>6. 1..n + 1 = (1..n) \cup {n + 1}
    OBVIOUS
  <1> HIDE DEF Still
  <1> QED
    BY <1>2, <1>3, <1>4, <1>5, <1>6

\* One more line adds itself or nothing to the lines of a key.
LEMMA NextLines ==
    ASSUME NEW w, NEW k, NEW n \in Nat
    PROVE  LinesTo(w, k, n + 1) =
             IF w.file[n + 1].key = k /\ Governed(w.file, n + 1, w.alias)
             THEN LinesTo(w, k, n) \cup {n + 1} ELSE LinesTo(w, k, n)
  <1>1. 1..n + 1 = (1..n) \cup {n + 1}
    OBVIOUS
  <1> QED
    BY <1>1 DEF LinesTo

\* Reading a line.
LEMMA ReadNext ==
    ASSUME NEW w, IsWorld(w), NEW n \in 0..Len(w.file) - 1, NEW st, ParseTypeOK(st), ~st.failed,
           ReadTo(w, n, st)
    PROVE  LET new == ReadLine(st, w.file[n + 1], w.alias)
           IN /\ ParseTypeOK(new)
              /\ new.failed => Governed(w.file, n + 1, w.alias)
              /\ ~new.failed => ReadTo(w, n + 1, new)
  <1> DEFINE l == w.file[n + 1]
             new == ReadLine(st, l, w.alias)
             G == Governed(w.file, n + 1, w.alias)
  <1>0. n \in Nat /\ n + 1 \in DOMAIN w.file
    BY DEF IsWorld, IsSeq
  <1>1. CASE l.key = "host"
    <2>1. new = [st EXCEPT !.active = HostBlockMatches(l.value, w.alias)]
      BY <1>1 DEF ReadLine
    <2>2. HostBlockMatches(l.value, w.alias) <=> ForAlias(l.value, w.alias)
      <3>1. \A p \in DOMAIN l.value : IsSeq(l.value[p].glob) /\ l.value[p].neg \in BOOLEAN
        BY <1>0, <1>1 DEF IsWorld
      <3>2. IsSeq(w.alias) /\ w.alias # <<>> /\ \A i \in DOMAIN w.alias : w.alias[i] # "*"
        BY DEF IsWorld
      <3> QED
        BY <3>1, <3>2, BlockMatches
    <2>3. HostBlockMatches(l.value, w.alias) \in BOOLEAN
      BY DEF HostBlockMatches
    <2> HIDE DEF new
    <2>4. ParseTypeOK(new) /\ new.failed = st.failed /\ new.cfg = st.cfg
          /\ new.active = HostBlockMatches(l.value, w.alias)
      BY <2>1, <2>3 DEF ParseTypeOK
    <2>5. new.active <=> Governed(w.file, (n + 1) + 1, w.alias)
      BY <1>0, <1>1, <2>2, <2>4, NextBlock
    <2>6. \A k \in ConfigKeys : k # "host"
      BY DEF ConfigKeys, Single, Forwards
    <2>7. \A k \in ConfigKeys : LinesTo(w, k, n + 1) = LinesTo(w, k, n)
      BY <1>0, <1>1, <2>6, NextLines
    <2>8. ReadTo(w, n + 1, new)
      BY <2>4, <2>5, <2>7 DEF ReadTo
    <2> QED
      BY <2>4, <2>8 DEF new
  <1>2. CASE l.key # "host" /\ ~(st.active /\ l.key \in ConfigKeys)
    <2>1. DOMAIN st.cfg = ConfigKeys
      BY DEF ParseTypeOK
    <2>2. new = st
      BY <1>2, <2>1 DEF ReadLine
    <2>3. st.active <=> Governed(w.file, (n + 1) + 1, w.alias)
      BY <1>0, <1>2, NextBlock DEF ReadTo
    <2>4. \A k \in ConfigKeys : LinesTo(w, k, n + 1) = LinesTo(w, k, n)
      <3>1. \A k \in ConfigKeys : ~(l.key = k /\ G)
        BY <1>2 DEF ReadTo
      <3> QED
        BY <1>0, <3>1, NextLines
    <2>5. ReadTo(w, n + 1, st)
      BY <2>3, <2>4 DEF ReadTo
    <2> QED
      BY <2>2, <2>5
  <1>3. CASE l.key # "host" /\ st.active /\ l.key \in ConfigKeys
    <2> DEFINE k == l.key
               u == NewSetting(st.cfg[k], l)
    <2>1. DOMAIN st.cfg = ConfigKeys
      BY DEF ParseTypeOK
    <2>2. G
      BY <1>3 DEF ReadTo
    <2>3. CASE u = Bad
      <3>1. new = [st EXCEPT !.failed = TRUE]
        BY <1>3, <2>1, <2>3, Zenon DEF ReadLine
      <3> HIDE DEF new
      <3>2. ParseTypeOK(new) /\ new.failed
        BY <3>1 DEF ParseTypeOK
      <3> QED
        BY <2>2, <3>2 DEF new
    <2>4. CASE u # Bad
      <3>1. new = [st EXCEPT !.cfg[k] = u]
        BY <1>3, <2>1, <2>4, Zenon DEF ReadLine
      <3> HIDE DEF new, u
      <3>2. /\ ParseTypeOK(new) /\ new.failed = st.failed /\ new.active = st.active
            /\ new.cfg = [st.cfg EXCEPT ![k] = u]
        BY <3>1 DEF ParseTypeOK
      <3>3. \A m \in ConfigKeys : new.cfg[m] = IF m = k THEN u ELSE st.cfg[m]
        BY <1>3, <2>1, <3>2
      <3>4. st.active <=> Governed(w.file, (n + 1) + 1, w.alias)
        BY <1>0, <1>3, <2>2, NextBlock
      <3>5. ASSUME NEW m \in ConfigKeys, m # k PROVE SettingOf(w, m, LinesTo(w, m, n + 1), new.cfg[m])
        BY <1>0, <3>3, <3>5, NextLines DEF ReadTo
      <3>6. SettingOf(w, k, LinesTo(w, k, n + 1), new.cfg[k])
        <4> DEFINE L == LinesTo(w, k, n)
        <4>1. LinesTo(w, k, n + 1) = L \cup {n + 1} /\ L \in SUBSET (1..n)
          BY <1>0, <2>2, NextLines DEF LinesTo
        <4>2. SettingOf(w, k, L, st.cfg[k])
          BY <1>3 DEF ReadTo
        <4>3. new.cfg[k] = NewSetting(st.cfg[k], l)
          BY <1>3, <3>3 DEF u
        <4> HIDE DEF L
        <4>4. CASE k \in Single
          <5>1. SingleOf(w, k, L \cup {n + 1}, NewSetting(st.cfg[k], l))
            BY <1>0, <4>1, <4>2, <4>4, NextSingle DEF SettingOf
          <5>2. k \notin Forwards /\ k # "setenv"
            BY <4>4 DEF Single, Forwards
          <5> QED
            BY <4>1, <4>3, <5>1, <5>2 DEF SettingOf
        <4>5. CASE k \in Forwards
          <5>1. ForwardsOf(w, L \cup {n + 1}, NewSetting(st.cfg[k], l))
            BY <1>0, <2>4, <4>1, <4>2, <4>5, NextForward DEF SettingOf, u
          <5>2. k \notin Single /\ k # "setenv"
            BY <4>5 DEF Single, Forwards
          <5> QED
            BY <4>1, <4>3, <5>1, <5>2 DEF SettingOf
        <4>6. CASE k = "setenv"
          <5>1. IsSeq(l.value)
            BY <1>0, <4>6 DEF IsWorld
          <5>2. SetEnvOf(w, L \cup {n + 1}, NewSetting(st.cfg[k], l))
            BY <1>0, <2>4, <4>1, <4>2, <4>6, <5>1, NextSetEnv DEF SettingOf, u
          <5>3. k \notin Single /\ k \notin Forwards
            BY <4>6 DEF Single, Forwards
          <5> QED
            BY <4>1, <4>3, <5>2, <5>3 DEF SettingOf
        <4> QED
          BY <1>3, <4>4, <4>5, <4>6 DEF ConfigKeys
      <3>7. ReadTo(w, n + 1, new)
        BY <3>2, <3>4, <3>5, <3>6 DEF ReadTo
      <3> QED
        BY <3>2, <3>7 DEF new
    <2> QED
      BY <2>3, <2>4
  <1> QED
    BY <1>1, <1>2, <1>3

\* The configuration is read line by line, and an error ends the login.
ConfigInv ==
    /\ line \in 0..Len(world.file) /\ ParseTypeOK(parse)
    /\ stage \in {"config", "identity", "handshake", "pending", "served", "refused", "failed"}
    /\ parse.failed => stage = "failed" /\ Governed(world.file, line, world.alias)
    /\ ~parse.failed => ReadTo(world, line, parse)
    /\ stage \notin {"config", "failed"} => line = Len(world.file)

\* The invariant of the login, with the settings and the server behind it.
LoginInv(worlds) ==
    /\ world \in worlds /\ ConfigInv
    /\ stage \notin {"config", "failed"} =>
         resolved.user = FirstSet(<<world.cli.user, parse.cfg["user"], world.env.user>>)
    /\ stage \in {"pending", "served", "refused"} => Validate(world.server)
    /\ stage = "served" => CheckAuthorization(world.server, resolved.user, identity.key)

\* The configuration is read, used, and not touched again.
THEOREM LoginInvariance ==
    ASSUME NEW worlds, \A w \in worlds : IsWorld(w)
    PROVE  LoginSpec(worlds) => []LoginInv(worlds)
  <1>1. LoginInit(worlds) => LoginInv(worlds)
    <2> SUFFICES ASSUME LoginInit(worlds) PROVE LoginInv(worlds)
      OBVIOUS
    <2>1. /\ parse.active = FALSE /\ parse.cfg = SshHostConfig /\ parse.failed = FALSE /\ line = 0
          /\ stage = "config" /\ world \in worlds /\ IsWorld(world)
      BY DEF LoginInit
    <2>2. ParseTypeOK(parse)
      BY DEF LoginInit, ParseTypeOK, SshHostConfig, ConfigKeys
    <2>3. ~Governed(world.file, 0 + 1, world.alias)
      BY DEF Governed
    <2>4. \A k : LinesTo(world, k, 0) = {}
      BY DEF LinesTo
    <2>5. ASSUME NEW k \in ConfigKeys PROVE SettingOf(world, k, {}, SshHostConfig[k])
      <3>1. CASE k \in Single
        <4>1. SshHostConfig[k] = Unset /\ k \notin Forwards /\ k # "setenv"
          BY <3>1 DEF SshHostConfig, Single, Forwards
        <4> QED
          BY <4>1 DEF SettingOf, SingleOf
      <3>2. CASE k \in Forwards
        <4>1. SshHostConfig[k] = <<>> /\ k \notin Single /\ k # "setenv"
          BY <3>2 DEF SshHostConfig, Single, Forwards
        <4>2. <<>> \in Seq({ParseForward(world.file[i].value) : i \in {}}) /\ Len(<<>>) = Cardinality({})
          BY FS_EmptySet
        <4> QED
          BY <4>1, <4>2 DEF SettingOf, ForwardsOf
      <3>3. CASE k = "setenv"
        <4>1. SshHostConfig[k] = {} /\ k \notin Single /\ k \notin Forwards
          BY <3>3 DEF SshHostConfig, Single, Forwards
        <4> QED
          BY <4>1 DEF SettingOf, SetEnvOf
      <3> QED
        BY <3>1, <3>2, <3>3 DEF ConfigKeys
    <2>6. ReadTo(world, 0, parse)
      BY <2>1, <2>3, <2>4, <2>5 DEF ReadTo
    <2>7. 0 \in 0..Len(world.file)
      BY <2>1 DEF IsWorld, IsSeq
    <2> QED
      BY <2>1, <2>2, <2>6, <2>7 DEF LoginInv, ConfigInv
  <1>2. LoginInv(worlds) /\ [LoginNext]_loginVars => LoginInv(worlds)'
    <2> SUFFICES ASSUME LoginInv(worlds), [LoginNext]_loginVars PROVE LoginInv(worlds)'
      OBVIOUS
    <2>0. IsWorld(world) /\ ConfigInv
      BY DEF LoginInv
    <2>1. CASE UNCHANGED loginVars
      BY <2>1 DEF loginVars, LoginInv, ConfigInv
    <2>2. CASE ReadConfigLine
      <3>1. /\ stage = "config" /\ line < Len(world.file) /\ line' = line + 1
            /\ parse' = ReadLine(parse, world.file[line + 1], world.alias)
            /\ stage' = IF parse'.failed THEN "failed" ELSE stage
            /\ UNCHANGED <<world, resolved, identity>>
        BY <2>2 DEF ReadConfigLine
      <3>2. line \in 0..Len(world.file) - 1 /\ line' \in 0..Len(world.file)
        BY <2>0, <3>1 DEF ConfigInv, IsWorld, IsSeq
      <3>3. ~parse.failed /\ ParseTypeOK(parse) /\ ReadTo(world, line, parse)
        BY <2>0, <3>1 DEF ConfigInv
      <3>4. /\ ParseTypeOK(parse')
            /\ parse'.failed => Governed(world.file, line + 1, world.alias)
            /\ ~parse'.failed => ReadTo(world, line + 1, parse')
        BY <2>0, <3>1, <3>2, <3>3, ReadNext
      <3>5. ConfigInv'
        BY <3>1, <3>2, <3>4 DEF ConfigInv
      <3>6. parse'.failed \in BOOLEAN
        BY <3>4 DEF ParseTypeOK
      <3> QED
        BY <3>1, <3>5, <3>6 DEF LoginInv
    <2>3. CASE ResolveSettings
      <3>1. /\ stage = "config" /\ line = Len(world.file) /\ stage' = "identity"
            /\ resolved'.user = FirstSet(<<world.cli.user, parse.cfg["user"], world.env.user>>)
            /\ UNCHANGED <<world, line, parse, identity>>
        BY <2>3 DEF ResolveSettings
      <3>2. ConfigInv'
        BY <2>0, <3>1 DEF ConfigInv
      <3> QED
        BY <3>1, <3>2 DEF LoginInv
    <2>4. CASE LoadKey
      <3>1. /\ stage = "identity" /\ stage' \in {"failed", "handshake"}
            /\ UNCHANGED <<world, line, parse, resolved>>
        BY <2>4 DEF LoadKey
      <3>2. ConfigInv'
        BY <2>0, <3>1 DEF ConfigInv
      <3> QED
        BY <3>1, <3>2 DEF LoginInv
    <2>5. CASE Handshake
      <3>1. /\ stage = "handshake" /\ stage' \in {"failed", "pending"}
            /\ stage' = "pending" => Validate(world.server)
            /\ UNCHANGED <<world, line, parse, resolved, identity>>
        BY <2>5 DEF Handshake
      <3>2. ConfigInv'
        BY <2>0, <3>1 DEF ConfigInv
      <3> QED
        BY <3>1, <3>2 DEF LoginInv
    <2>6. CASE Authenticate
      <3>1. /\ stage = "pending" /\ stage' \in {"served", "refused"}
            /\ stage' = "served" => CheckAuthorization(world.server, resolved.user, identity.key)
            /\ UNCHANGED <<world, line, parse, resolved, identity>>
        BY <2>6 DEF Authenticate
      <3>2. ConfigInv'
        BY <2>0, <3>1 DEF ConfigInv
      <3> QED
        BY <3>1, <3>2 DEF LoginInv
    <2> QED
      BY <2>1, <2>2, <2>3, <2>4, <2>5, <2>6 DEF LoginNext
  <1> QED
    BY <1>1, <1>2, PTL DEF LoginSpec

\* The value that the first line of a set of lines gives is what they mean.
LEMMA MeansFirst ==
    ASSUME NEW w, IsWorld(w), NEW k \in Single, NEW v, SingleOf(w, k, LinesTo(w, k, Len(w.file)), v)
    PROVE  v = Meaning(w.file, w.alias, k)
  <1> DEFINE lines == {i \in DOMAIN w.file : w.file[i].key = k /\ Governed(w.file, i, w.alias)
                                               /\ ParseValue(k, w.file[i].value) # Unset}
             giving == {i \in LinesTo(w, k, Len(w.file)) : ParseValue(k, w.file[i].value) # Unset}
  <1>1. DOMAIN w.file = 1..Len(w.file)
    BY DEF IsWorld, IsSeq
  <1>2. giving = lines
    BY <1>1 DEF LinesTo
  <1>3. Meaning(w.file, w.alias, k) =
          IF lines = {} THEN Unset
          ELSE ParseValue(k, w.file[CHOOSE i \in lines : \A j \in lines : i <= j].value)
    BY Zenon DEF Meaning
  <1>4. lines \subseteq Int
    BY <1>1
  <1>5. \/ lines = {} /\ v = Unset
        \/ \E i \in lines : v = ParseValue(k, w.file[i].value) /\ \A j \in lines : i <= j
    BY <1>2 DEF SingleOf
  <1> HIDE DEF lines
  <1>6. ASSUME NEW i \in lines, \A j \in lines : i <= j
        PROVE  i = CHOOSE m \in lines : \A j \in lines : m <= j
    <2> DEFINE first == CHOOSE m \in lines : \A j \in lines : m <= j
    <2>1. first \in lines /\ \A j \in lines : first <= j
      BY <1>6, Zenon
    <2> HIDE DEF first
    <2>2. first \in Int /\ i \in Int /\ first <= i /\ i <= first
      BY <1>4, <1>6, <2>1
    <2>3. i = first
      BY <2>2
    <2> QED
      BY <2>3 DEF first
  <1> QED
    BY <1>3, <1>5, <1>6

\* The settings in use are those of the first matching block that gives them,
\* and only a line of a matching block is an error, for files of any length,
\* with globs of any length.
THEOREM ConfigSafe ==
    ASSUME NEW worlds, \A w \in worlds : IsWorld(w)
    PROVE  LoginSpec(worlds) => []ConfigFirst
  <1>1. LoginInv(worlds) => ConfigFirst
    <2> SUFFICES ASSUME LoginInv(worlds) PROVE ConfigFirst
      OBVIOUS
    <2>0. IsWorld(world) /\ ConfigInv
      BY DEF LoginInv
    <2>1. parse.failed => Governed(world.file, line, world.alias)
      BY <2>0 DEF ConfigInv
    <2>2. ASSUME stage \notin {"config", "failed"}
          PROVE /\ \A k \in ConfigKeys : SettingOf(world, k, LinesTo(world, k, Len(world.file)), parse.cfg[k])
                /\ \A k : LinesTo(world, k, Len(world.file)) = LinesFor(k)
      <3>1. DOMAIN world.file = 1..Len(world.file)
        BY <2>0 DEF IsWorld, IsSeq
      <3>2. ReadTo(world, Len(world.file), parse)
        BY <2>0, <2>2 DEF ConfigInv
      <3> QED
        BY <3>1, <3>2 DEF ReadTo, LinesTo, LinesFor
    <2>3. ASSUME stage \notin {"config", "failed"}, NEW k \in Single
          PROVE  parse.cfg[k] = Meaning(world.file, world.alias, k)
      BY <2>0, <2>2, <2>3, MeansFirst DEF SettingOf, ConfigKeys
    <2>4. ASSUME stage \notin {"config", "failed"}, NEW k \in Forwards
          PROVE  ForwardsOf(world, LinesFor(k), parse.cfg[k])
      BY <2>2, <2>4 DEF SettingOf, ConfigKeys
    <2>5. ASSUME stage \notin {"config", "failed"}, NEW i \in LinesFor("setenv"),
                 \A j \in LinesFor("setenv") : i <= j
          PROVE  parse.cfg["setenv"] = ParseSetEnv(world.file[i].value)
      <3>1. SetEnvOf(world, LinesFor("setenv"), parse.cfg["setenv"])
        BY <2>2, <2>5 DEF SettingOf, ConfigKeys
      <3>2. LinesFor("setenv") \subseteq Int
        <4>1. DOMAIN world.file = 1..Len(world.file)
          BY <2>0 DEF IsWorld, IsSeq
        <4> QED
          BY <4>1 DEF LinesFor
      <3> QED
        BY <2>5, <3>1, <3>2 DEF SetEnvOf
    <2> QED
      BY <2>1, <2>3, <2>4, <2>5 DEF ConfigFirst, ForwardsOf
  <1> QED
    BY <1>1, LoginInvariance, PTL

AreKeyLines(lines) ==
    IsSeq(lines) /\ \A i \in DOMAIN lines : lines[i] = [kind |-> lines[i].kind, key |-> lines[i].key]

\* A key stands bare among lines, before any with options for it.
ListedBare(lines, key) ==
    \E i \in DOMAIN lines :
        /\ lines[i] = [kind |-> "bare", key |-> key]
        /\ \A j \in 1..i : lines[j] # [kind |-> "options", key |-> key]

\* So does a key that is_authorized takes.
LEMMA ListedKey ==
    ASSUME NEW server, NEW user, NEW key,
           \A f \in DOMAIN server.files : AreKeyLines(server.files[f].lines),
           IsAuthorized(server, user, key) = "yes"
    PROVE  ListedBare(KeysOf(server, user).lines, key)
  <1> DEFINE lines == KeysOf(server, user).lines
             at == Deciding(lines, key)
             first == CHOOSE i \in at : \A j \in at : i <= j
  <1>1. AreKeyLines(lines)
    <2> DEFINE keys == RuntimeConfig(server).keys
               path == IF keys = "unset" THEN user ELSE keys
    <2>1. KeysOf(server, user) = IF path \in DOMAIN server.files THEN server.files[path]
                                 ELSE [state |-> "missing", lines |-> <<>>]
      BY Zenon DEF KeysOf
    <2> HIDE DEF path
    <2>2. CASE path \in DOMAIN server.files
      <3>1. lines = server.files[path].lines
        BY <2>1, <2>2
      <3> HIDE DEF lines
      <3> QED
        BY <2>2, <3>1
    <2>3. CASE path \notin DOMAIN server.files
      <3>1. lines = <<>>
        BY <2>1, <2>3
      <3> HIDE DEF lines
      <3> QED
        BY <3>1 DEF IsSeq, AreKeyLines
    <2> QED
      BY <2>2, <2>3
  <1>2. at # {} /\ lines[first].kind = "bare"
    BY DEF IsAuthorized
  <1> HIDE DEF lines
  <1>3. at \subseteq Nat
    BY <1>1 DEF Deciding, IsSeq, AreKeyLines
  <1>4. first \in at /\ \A j \in at : first <= j
    <2> HIDE DEF at
    <2>1. \E m \in at : \A n \in at : m <= n
      BY <1>2, <1>3, LeastOf
    <2> QED
      BY <2>1
  <1> HIDE DEF first
  <1>5. first \in DOMAIN lines /\ lines[first].key = key /\ first \in Nat
    BY <1>3, <1>4 DEF Deciding
  <1>6. lines[first] = [kind |-> "bare", key |-> key]
    BY <1>1, <1>2, <1>5 DEF AreKeyLines
  <1>7. ASSUME NEW j \in 1..first, lines[j] = [kind |-> "options", key |-> key] PROVE FALSE
    <2>1. j \in DOMAIN lines
      BY <1>1, <1>5, <1>7 DEF IsSeq, AreKeyLines
    <2>2. j \in at
      BY <1>7, <2>1 DEF Deciding
    <2>3. j = first
      BY <1>4, <1>5, <2>2
    <2> QED
      BY <1>6, <1>7, <2>3
  <1> QED
    BY <1>5, <1>6, <1>7 DEF lines, ListedBare

\* A served connection is that of the user asked for, with a key that is listed
\* for that user, on a server that knows which users it serves.
THEOREM AuthorizationSafe ==
    ASSUME NEW worlds, \A w \in worlds : IsWorld(w)
    PROVE  LoginSpec(worlds) => []AuthorizedMeansListed
  <1>1. LoginInv(worlds) => AuthorizedMeansListed
    <2> SUFFICES ASSUME LoginInv(worlds), stage = "served" PROVE AuthorizedMeansListed
      BY DEF AuthorizedMeansListed
    <2> DEFINE s == world.server
               u == resolved.user
               c == RuntimeConfig(s)
    <2>0. IsWorld(world) /\ ConfigInv /\ "user" \in Single
      BY DEF LoginInv, Single
    <2>1. parse.cfg["user"] = Meaning(world.file, world.alias, "user")
      <3>1. ReadTo(world, Len(world.file), parse)
        BY <2>0 DEF ConfigInv
      <3> QED
        BY <2>0, <3>1, MeansFirst DEF ReadTo, SettingOf, ConfigKeys
    <2>2. u = FirstSet(<<world.cli.user, Meaning(world.file, world.alias, "user"), world.env.user>>)
      BY <2>1 DEF LoginInv
    <2>3. CheckAuthorization(s, u, identity.key) /\ Validate(s)
      BY DEF LoginInv
    <2>4. ListedBare(KeysOf(s, u).lines, identity.key)
      <3>1. \A f \in DOMAIN s.files : AreKeyLines(s.files[f].lines)
        BY <2>0, Zenon DEF IsWorld, AreKeyLines
      <3>2. IsAuthorized(s, u, identity.key) = "yes"
        BY <2>3 DEF CheckAuthorization
      <3> QED
        BY <3>1, <3>2, ListedKey
    <2>5. u = s.user \/ s.root
      BY <2>3 DEF CheckAuthorization, CanLoginAs
    <2>6. c.allowUsers # {} \/ (s.root /\ c.keys # "unset") => u \in c.allowUsers
      BY <2>3 DEF CheckAuthorization, Validate
    <2> QED
      BY <2>2, <2>4, <2>5, <2>6 DEF AuthorizedMeansListed, ListedBare
  <1> QED
    BY <1>1, LoginInvariance, PTL

=============================================================================
