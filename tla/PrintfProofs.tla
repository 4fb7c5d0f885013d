---------------------------- MODULE PrintfProofs ---------------------------
(* Proofs about Printf, for every format, width of the types and length of *)
(* the buffer.                                                             *)
EXTENDS Printf, TLAPS, SequenceTheorems, WellFoundedInduction

----------------------------------------------------------------------------
(* Induction, for a set.                                                   *)
LEMMA Smaller ==
    ASSUME NEW S, \A n \in Nat : (\A k \in 0 .. n - 1 : k \in S) => n \in S
    PROVE  \A n \in Nat : n \in S
  <1> DEFINE R == OpToRel(<, Nat)
             T == Nat \ S
  <1>1. SUFFICES ASSUME T # {} PROVE FALSE
    OBVIOUS
  <1>2. PICK m \in T : \A k \in T : ~ (<<k, m>> \in R)
    <2> HIDE DEF R
    <2>1. IsWellFoundedOn(R, Nat)
      BY NatLessThanWellFounded DEF R
    <2>2. QED
      BY <1>1, <2>1, WFMin
  <1>3. \A k \in T : ~ (k < m)
    BY <1>2 DEF OpToRel
  <1>4. QED
    BY <1>3

LEMMA Onwards ==
    ASSUME NEW S, 0 \in S, \A n \in Nat : n \in S => n + 1 \in S
    PROVE  \A n \in Nat : n \in S
  <1>1. ASSUME NEW n \in Nat, \A k \in 0 .. n - 1 : k \in S PROVE n \in S
    <2>1. CASE n = 0
      BY <2>1
    <2>2. CASE n # 0
      <3>1. n - 1 \in 0 .. n - 1 /\ n - 1 \in Nat /\ (n - 1) + 1 = n
        BY <2>2
      <3>2. QED
        BY <1>1, <3>1
    <2>3. QED
      BY <2>1, <2>2
  <1>2. QED
    BY <1>1, Smaller

Regroups(s, t, u) == (s \o t) \o u = s \o (t \o u)

LEMMA Regrouping ==
    ASSUME NEW S, NEW s, NEW t, NEW u, s \in Seq(S), t \in Seq(S), u \in Seq(S)
    PROVE  Regroups(s, t, u)
  BY DEF Regroups

(* What FlattenSeq chooses: the texts up to the first, the second, ...     *)
Joined(seqs, f, n) == f = [i \in 1 .. n |-> IF i = 1 THEN seqs[i] ELSE f[i - 1] \o seqs[i]]

LEMMA JoinedExists ==
    ASSUME NEW seqs
    PROVE  \A n \in Nat : \E f : Joined(seqs, f, n)
  <1> DEFINE S == {n \in Nat : \E f : Joined(seqs, f, n)}
  <1>1. 0 \in S
    <2>1. Joined(seqs, [i \in 1 .. 0 |-> 0], 0)
      BY DEF Joined
    <2>2. QED
      BY <2>1
  <1>2. ASSUME NEW n \in Nat, n \in S PROVE n + 1 \in S
    <2>1. PICK f : Joined(seqs, f, n)
      BY <1>2
    <2> DEFINE last == IF n = 0 THEN seqs[1] ELSE f[n] \o seqs[n + 1]
               g == [i \in 1 .. n + 1 |-> IF i = n + 1 THEN last ELSE f[i]]
    <2>2. \A i \in 1 .. n + 1 :
              g[i] = IF i = 1 THEN seqs[i] ELSE g[i - 1] \o seqs[i]
      <3> SUFFICES ASSUME NEW i \in 1 .. n + 1
                   PROVE  g[i] = IF i = 1 THEN seqs[i] ELSE g[i - 1] \o seqs[i]
        OBVIOUS
      <3>1. CASE i = n + 1 /\ n = 0
        BY <3>1
      <3>2. CASE i = n + 1 /\ n # 0
        <4>1. i # 1 /\ i - 1 = n /\ n \in 1 .. n + 1 /\ n # n + 1
          BY <3>2
        <4>2. g[n] = f[n]
          BY <4>1
        <4>3. g[n + 1] = f[n] \o seqs[n + 1]
          BY <3>2
        <4>4. QED
          BY <3>2, <4>1, <4>2, <4>3
      <3>3. CASE i # n + 1
        <4>1. i \in 1 .. n /\ g[i] = f[i]
          BY <3>3
        <4>2. f[i] = IF i = 1 THEN seqs[i] ELSE f[i - 1] \o seqs[i]
          BY <2>1, <4>1 DEF Joined
        <4>3. CASE i = 1
          BY <4>1, <4>2, <4>3
        <4>4. CASE i # 1
          <5>1. i - 1 \in 1 .. n + 1 /\ i - 1 # n + 1
            BY <4>1, <4>4
          <5>2. g[i - 1] = f[i - 1]
            BY <5>1
          <5>3. QED
            BY <4>1, <4>2, <4>4, <5>2
        <4>5. QED
          BY <4>3, <4>4
      <3>4. QED
        BY <3>1, <3>2, <3>3
    <2>3. Joined(seqs, g, n + 1)
      <3>1. g = [i \in 1 .. n + 1 |-> g[i]]
        OBVIOUS
      <3> HIDE DEF g
      <3>2. QED
        BY <2>2, <3>1 DEF Joined
    <2>4. QED
      BY <2>3
  <1>3. QED
    <2> HIDE DEF S
    <2>1. \A n \in Nat : n \in S
      BY <1>1, <1>2, Onwards
    <2>2. QED
      BY <2>1 DEF S

LEMMA Flattened ==
    ASSUME NEW seqs, Len(seqs) \in Nat, Len(seqs) # 0
    PROVE  \E f : Joined(seqs, f, Len(seqs)) /\ FlattenSeq(seqs) = f[Len(seqs)]
  <1> DEFINE n == Len(seqs)
             f == CHOOSE f : f = [i \in 1 .. n |-> IF i = 1 THEN seqs[i] ELSE f[i - 1] \o seqs[i]]
  <1>1. \E h : Joined(seqs, h, n)
    BY JoinedExists
  <1>2. Joined(seqs, f, n)
    BY <1>1 DEF Joined
  <1>3. FlattenSeq(seqs) = f[n]
    BY DEF FlattenSeq
  <1>4. QED
    BY <1>2, <1>3

LEMMA FlattenNothing == FlattenSeq(<<>>) = <<>>
  BY DEF FlattenSeq

LEMMA JoinedTexts ==
    ASSUME NEW S, NEW n \in Nat, NEW seqs, NEW f, Joined(seqs, f, n),
           \A i \in 1 .. n : seqs[i] \in Seq(S)
    PROVE  \A i \in 1 .. n : f[i] \in Seq(S)
  <1> DEFINE T == {k \in Nat : k \in 1 .. n => f[k] \in Seq(S)}
  <1>1. 0 \in T
    OBVIOUS
  <1>2. ASSUME NEW k \in Nat, k \in T PROVE k + 1 \in T
    <2> SUFFICES ASSUME k + 1 \in 1 .. n PROVE f[k + 1] \in Seq(S)
      OBVIOUS
    <2>1. f[k + 1] = IF k + 1 = 1 THEN seqs[k + 1] ELSE f[(k + 1) - 1] \o seqs[k + 1]
      BY DEF Joined
    <2>2. CASE k = 0
      BY <2>1, <2>2
    <2>3. CASE k # 0
      <3>1. k \in 1 .. n /\ (k + 1) - 1 = k /\ k + 1 # 1
        BY <2>3
      <3>2. f[k] \in Seq(S) /\ seqs[k + 1] \in Seq(S)
        BY <1>2, <3>1
      <3>3. QED
        BY <2>1, <3>1, <3>2
    <2>4. QED
      BY <2>2, <2>3
  <1>3. \A k \in Nat : k \in T
    <2> HIDE DEF T
    <2>1. QED
      BY <1>1, <1>2, Onwards
  <1>4. QED
    BY <1>3

LEMMA FlattenText ==
    ASSUME NEW S, NEW seqs \in Seq(Seq(S))
    PROVE  FlattenSeq(seqs) \in Seq(S)
  <1>1. Len(seqs) \in Nat /\ \A i \in 1 .. Len(seqs) : seqs[i] \in Seq(S)
    OBVIOUS
  <1>2. CASE Len(seqs) = 0
    <2>1. seqs = <<>> /\ <<>> \in Seq(S)
      BY <1>2
    <2>2. QED
      BY <2>1, FlattenNothing
  <1>3. CASE Len(seqs) # 0
    <2>1. PICK f : Joined(seqs, f, Len(seqs)) /\ FlattenSeq(seqs) = f[Len(seqs)]
      BY <1>1, <1>3, Flattened
    <2>2. \A i \in 1 .. Len(seqs) : f[i] \in Seq(S)
      BY <1>1, <2>1, JoinedTexts
    <2>3. QED
      BY <1>1, <1>3, <2>1, <2>2
  <1>4. QED
    BY <1>2, <1>3

(* One more at the end.                                                    *)
LEMMA FlattenAppend ==
    ASSUME NEW S, NEW seqs \in Seq(Seq(S)), NEW last \in Seq(S)
    PROVE  FlattenSeq(Append(seqs, last)) = FlattenSeq(seqs) \o last
  <1> DEFINE n == Len(seqs)
             all == Append(seqs, last)
  <1>1. /\ n \in Nat /\ all \in Seq(Seq(S)) /\ Len(all) = n + 1 /\ all[n + 1] = last
        /\ \A i \in 1 .. n : all[i] = seqs[i]
    OBVIOUS
  <1> HIDE DEF all
  <1>2. PICK f : Joined(all, f, n + 1) /\ FlattenSeq(all) = f[n + 1]
    <2>1. Len(all) \in Nat /\ Len(all) # 0
      BY <1>1
    <2>2. QED
      BY <1>1, <2>1, Flattened
  <1>3. \A i \in 1 .. n + 1 : f[i] = IF i = 1 THEN all[i] ELSE f[i - 1] \o all[i]
    BY <1>2 DEF Joined
  <1>4. CASE n = 0
    <2>1. seqs = <<>> /\ 1 \in 1 .. n + 1
      BY <1>4
    <2>2. f[1] = last
      BY <1>1, <1>3, <1>4, <2>1
    <2>3. QED
      BY <1>2, <1>4, <2>1, <2>2, FlattenNothing DEF all
  <1>5. CASE n # 0
    <2>1. PICK g : Joined(seqs, g, n) /\ FlattenSeq(seqs) = g[n]
      BY <1>1, <1>5, Flattened
    <2>2. \A i \in 1 .. n : g[i] = IF i = 1 THEN seqs[i] ELSE g[i - 1] \o seqs[i]
      BY <2>1 DEF Joined
    <2> DEFINE T == {k \in Nat : k \in 1 .. n => f[k] = g[k]}
    <2>3. 0 \in T
      OBVIOUS
    <2>4. ASSUME NEW k \in Nat, k \in T PROVE k + 1 \in T
      <3> SUFFICES ASSUME k + 1 \in 1 .. n PROVE f[k + 1] = g[k + 1]
        OBVIOUS
      <3>1. k + 1 \in 1 .. n + 1 /\ (k + 1) - 1 = k /\ (k = 0 \/ k \in 1 .. n)
        OBVIOUS
      <3>2. f[k + 1] = IF k + 1 = 1 THEN all[k + 1] ELSE f[k] \o all[k + 1]
        BY <1>3, <3>1
      <3>3. g[k + 1] = IF k + 1 = 1 THEN seqs[k + 1] ELSE g[k] \o seqs[k + 1]
        BY <2>2, <3>1
      <3>4. CASE k = 0
        BY <1>1, <3>2, <3>3, <3>4
      <3>5. CASE k \in 1 .. n
        BY <1>1, <2>4, <3>2, <3>3, <3>5
      <3>6. QED
        BY <3>1, <3>4, <3>5
    <2>5. f[n] = g[n]
      <3> HIDE DEF T
      <3>1. n \in T
        BY <1>1, <2>3, <2>4, Onwards
      <3>2. QED
        BY <1>1, <1>5, <3>1 DEF T
    <2>6. f[n + 1] = f[n] \o last
      <3>1. n + 1 \in 1 .. n + 1 /\ n + 1 # 1 /\ (n + 1) - 1 = n
        BY <1>1, <1>5
      <3>2. QED
        BY <1>1, <1>3, <3>1
    <2>7. QED
      BY <1>2, <2>1, <2>5, <2>6 DEF all
  <1>6. QED
    BY <1>4, <1>5

(* One more at the beginning.                                              *)
LEMMA FlattenFirst ==
    ASSUME NEW S, NEW seqs \in Seq(Seq(S)), NEW first \in Seq(S)
    PROVE  FlattenSeq(<<first>> \o seqs) = first \o FlattenSeq(seqs)
  <1> DEFINE n == Len(seqs)
             all == <<first>> \o seqs
  <1>1. /\ n \in Nat /\ all \in Seq(Seq(S)) /\ Len(all) = n + 1 /\ all[1] = first
        /\ \A i \in 1 .. n : all[i + 1] = seqs[i]
    <2>1. <<first>> \in Seq(Seq(S)) /\ Len(<<first>>) = 1 /\ <<first>>[1] = first
      OBVIOUS
    <2>2. QED
      BY <2>1, ConcatProperties
  <1> HIDE DEF all
  <1>2. PICK f : Joined(all, f, n + 1) /\ FlattenSeq(all) = f[n + 1]
    <2>1. Len(all) \in Nat /\ Len(all) # 0
      BY <1>1
    <2>2. QED
      BY <1>1, <2>1, Flattened
  <1>3. \A i \in 1 .. n + 1 : f[i] = IF i = 1 THEN all[i] ELSE f[i - 1] \o all[i]
    BY <1>2 DEF Joined
  <1>4. f[1] = first
    <2>1. 1 \in 1 .. n + 1
      BY <1>1
    <2>2. QED
      BY <1>1, <1>3, <2>1
  <1>5. CASE n = 0
    <2>1. seqs = <<>>
      BY <1>5
    <2>2. QED
      BY <1>2, <1>4, <1>5, <2>1, FlattenNothing DEF all
  <1>6. CASE n # 0
    <2>1. PICK g : Joined(seqs, g, n) /\ FlattenSeq(seqs) = g[n]
      BY <1>1, <1>6, Flattened
    <2>2. \A i \in 1 .. n : g[i] = IF i = 1 THEN seqs[i] ELSE g[i - 1] \o seqs[i]
      BY <2>1 DEF Joined
    <2>3. \A i \in 1 .. n : g[i] \in Seq(S) /\ seqs[i] \in Seq(S)
      <3>1. \A i \in 1 .. n : seqs[i] \in Seq(S)
        OBVIOUS
      <3>2. QED
        BY <1>1, <2>1, <3>1, JoinedTexts
    <2> DEFINE T == {k \in Nat : k \in 1 .. n => f[k + 1] = first \o g[k]}
    <2>4. 0 \in T
      OBVIOUS
    <2>5. ASSUME NEW k \in Nat, k \in T PROVE k + 1 \in T
      <3> SUFFICES ASSUME k + 1 \in 1 .. n PROVE f[(k + 1) + 1] = first \o g[k + 1]
        OBVIOUS
      <3>1. /\ (k + 1) + 1 \in 1 .. n + 1 /\ (k + 1) - 1 = k /\ (k = 0 \/ k \in 1 .. n)
            /\ ((k + 1) + 1) - 1 = k + 1 /\ (k + 1) + 1 # 1
        OBVIOUS
      <3>2. f[(k + 1) + 1] = f[k + 1] \o seqs[k + 1]
        BY <1>1, <1>3, <3>1
      <3>3. g[k + 1] = IF k + 1 = 1 THEN seqs[k + 1] ELSE g[k] \o seqs[k + 1]
        BY <2>2, <3>1
      <3>4. CASE k = 0
        <4>1. k + 1 = 1
          BY <3>4
        <4>2. f[k + 1] = first /\ g[k + 1] = seqs[k + 1]
          BY <1>4, <3>3, <4>1
        <4>3. QED
          BY <3>2, <4>2
      <3>5. CASE k \in 1 .. n
        <4>1. f[k + 1] = first \o g[k] /\ g[k + 1] = g[k] \o seqs[k + 1]
          <5>1. k + 1 # 1
            BY <3>5
          <5>2. QED
            BY <2>5, <3>3, <3>5, <5>1
        <4>2. g[k] \in Seq(S) /\ seqs[k + 1] \in Seq(S)
          BY <2>3, <3>5
        <4>3. (first \o g[k]) \o seqs[k + 1] = first \o (g[k] \o seqs[k + 1])
          <5> DEFINE x == g[k]
                     y == seqs[k + 1]
          <5>1. x \in Seq(S) /\ y \in Seq(S) /\ first \in Seq(S)
            BY <4>2
          <5> HIDE DEF x, y
          <5>2. (first \o x) \o y = first \o (x \o y)
            <6>1. Regroups(first, x, y)
              BY ONLY <5>1, Regrouping
            <6>2. QED
              BY ONLY <6>1 DEF Regroups
          <5>3. QED
            BY <5>2 DEF x, y
        <4>4. QED
          BY <3>2, <4>1, <4>3
      <3>6. QED
        BY <3>1, <3>4, <3>5
    <2>6. f[n + 1] = first \o g[n]
      <3> HIDE DEF T
      <3>1. n \in T
        BY <1>1, <2>4, <2>5, Onwards
      <3>2. QED
        BY <1>1, <1>6, <3>1 DEF T
    <2>7. QED
      BY <1>2, <2>1, <2>6 DEF all
  <1>7. QED
    BY <1>5, <1>6
----------------------------------------------------------------------------
(* Texts.                                                                  *)
LEMMA Concatenated ==
    ASSUME NEW T, NEW p, NEW q, p \in Seq(T), q \in Seq(T)
    PROVE  /\ p \o q \in Seq(T) /\ Len(p \o q) = Len(p) + Len(q)
           /\ \A k \in 1 .. Len(p) : (p \o q)[k] = p[k]
           /\ \A k \in 1 .. Len(q) : (p \o q)[Len(p) + k] = q[k]
  OBVIOUS

LEMMA SameText ==
    ASSUME NEW T, NEW p, NEW q, p \in Seq(T), q \in Seq(T), Len(p) = Len(q),
           \A k \in 1 .. Len(p) : p[k] = q[k]
    PROVE  p = q
  OBVIOUS

LEMMA FirstPart ==
    ASSUME NEW T, NEW p, NEW q, p \in Seq(T), q \in Seq(T)
    PROVE  SubSeq(p \o q, 1, Len(p)) = p
  <1> DEFINE s == SubSeq(p \o q, 1, Len(p))
  <1>1. /\ p \o q \in Seq(T) /\ Len(p \o q) = Len(p) + Len(q) /\ Len(p) \in Nat /\ Len(q) \in Nat
        /\ \A k \in 1 .. Len(p) : (p \o q)[k] = p[k]
    BY Concatenated
  <1>2. s \in Seq(T) /\ Len(s) = Len(p) /\ \A k \in 1 .. Len(p) : s[k] = (p \o q)[k]
    BY <1>1
  <1> HIDE DEF s
  <1>3. s = p
    BY ONLY <1>1, <1>2, SameText, p \in Seq(T)
  <1>4. QED
    BY <1>3 DEF s

LEMMA AfterPart ==
    ASSUME NEW T, NEW p, NEW q, p \in Seq(T), q \in Seq(T)
    PROVE  After(p \o q, p) = q
  <1> DEFINE s == SubSeq(p \o q, Len(p) + 1, Len(p \o q))
  <1>1. /\ p \o q \in Seq(T) /\ Len(p \o q) = Len(p) + Len(q) /\ Len(p) \in Nat /\ Len(q) \in Nat
        /\ \A k \in 1 .. Len(q) : (p \o q)[Len(p) + k] = q[k]
    BY Concatenated
  <1>2. /\ s \in Seq(T) /\ Len(s) = Len(q)
        /\ \A k \in 1 .. Len(q) : s[k] = (p \o q)[Len(p) + k]
    BY <1>1
  <1> HIDE DEF s
  <1>3. s = q
    BY ONLY <1>1, <1>2, SameText, q \in Seq(T)
  <1>4. QED
    BY <1>3 DEF s, After

LEMMA LeadingAll ==
    ASSUME NEW S, NEW s, \A k \in 1 .. Len(s) : s[k] \in S
    PROVE  Leading(s, S) = s
  BY DEF Leading

LEMMA LeadingStops ==
    ASSUME NEW T, NEW S, NEW p, NEW q, p \in Seq(T), q \in Seq(T),
           q # <<>>, q[1] \notin S, \A k \in 1 .. Len(p) : p[k] \in S
    PROVE  Leading(p \o q, S) = p
  <1> DEFINE s == p \o q
             others == {k \in 1 .. Len(s) : s[k] \notin S}
             m == Len(p) + 1
  <1>1. /\ s \in Seq(T) /\ Len(s) = Len(p) + Len(q) /\ Len(p) \in Nat /\ Len(q) \in Nat
        /\ Len(q) >= 1
        /\ \A k \in 1 .. Len(p) : s[k] = p[k]
        /\ \A k \in 1 .. Len(q) : s[Len(p) + k] = q[k]
    BY Concatenated
  <1>2. m \in others
    BY <1>1
  <1>3. \A k \in others : m <= k
    BY <1>1
  <1>4. Min(others) = m
    <2>1. \A x \in others : (\A y \in others : x <= y) => x = m
      BY <1>1, <1>2, <1>3
    <2> HIDE DEF others, m
    <2>2. QED
      BY <1>2, <1>3, <2>1 DEF Min
  <1>5. Leading(s, S) = SubSeq(s, 1, m - 1)
    BY <1>2, <1>4 DEF Leading
  <1>6. SubSeq(s, 1, m - 1) = p
    BY <1>1, FirstPart
  <1>7. QED
    BY <1>5, <1>6

LEMMA PrintedWhole ==
    ASSUME NEW s, s \in Seq(Chars \ {NUL})
    PROVE  Printed(s) = s
  <1>1. \A k \in 1 .. Len(s) : s[k] \in Range(s) \ {NUL}
    BY DEF Range
  <1>2. QED
    BY <1>1, LeadingAll DEF Printed

LEMMA CopiesOf ==
    ASSUME NEW T, NEW c \in T, NEW n \in Int
    PROVE  /\ Copies(c, n) \in Seq(T) /\ Len(Copies(c, n)) = Larger(n, 0)
           /\ \A k \in 1 .. Len(Copies(c, n)) : Copies(c, n)[k] = c
  <1>1. CASE n >= 0
    <2>1. Copies(c, n) \in Seq(T) /\ Len(Copies(c, n)) = n
      BY <1>1 DEF Copies
    <2>2. QED
      BY <1>1, <2>1 DEF Copies, Larger
  <1>2. CASE n < 0
    <2>1. 1 .. n = 1 .. 0
      BY <1>2
    <2>2. Copies(c, n) = [k \in 1 .. 0 |-> c]
      BY <2>1 DEF Copies
    <2>3. Copies(c, n) \in Seq(T) /\ Len(Copies(c, n)) = 0
      BY <2>2
    <2>4. QED
      BY <1>2, <2>3 DEF Larger
  <1>3. QED
    BY <1>1, <1>2
----------------------------------------------------------------------------
(* Digits.                                                                 *)
HexDigits == Range(Small) \cup Range(Capital)

LEMMA Distinct ==
    ASSUME NEW s, NEW t,
           s = <<"0", "1", "2", "3", "4", "5", "6", "7", "8", "9", "a", "b", "c", "d", "e", "f">>,
           t = <<"0", "1", "2", "3", "4", "5", "6", "7", "8", "9", "A", "B", "C", "D", "E", "F">>
    PROVE  /\ \A j, k \in 1 .. 16 : s[j] = s[k] => j = k
           /\ \A j, k \in 1 .. 16 : t[j] = t[k] => j = k
           /\ \A j, k \in 1 .. 16 : s[j] = t[k] => j = k
  <1>1. \A j, k \in 1 .. 16 : s[j] = s[k] => j = k
    OBVIOUS
  <1>2. \A j, k \in 1 .. 16 : t[j] = t[k] => j = k
    OBVIOUS
  <1>3. \A j, k \in 1 .. 16 : s[j] = t[k] => j = k
    OBVIOUS
  <1>4. QED
    BY <1>1, <1>2, <1>3

LEMMA SixteenDigits ==
    /\ Len(Decimal) = 10 /\ Len(Small) = 16 /\ Len(Capital) = 16
    /\ DOMAIN Decimal = 1 .. 10 /\ DOMAIN Small = 1 .. 16 /\ DOMAIN Capital = 1 .. 16
    /\ \A k \in 1 .. 10 : Decimal[k] = Small[k]
    /\ \A k \in 1 .. 16 : Small[k] # NUL /\ Capital[k] # NUL
  <1>1. Len(Decimal) = 10 /\ DOMAIN Decimal = 1 .. 10
    BY DEF Decimal
  <1>2. Len(Small) = 16 /\ DOMAIN Small = 1 .. 16
    BY DEF Small
  <1>3. Len(Capital) = 16 /\ DOMAIN Capital = 1 .. 16
    BY DEF Capital
  <1>4. \A k \in 1 .. 10 : Decimal[k] = Small[k]
    BY DEF Small, Decimal
  <1>5. \A k \in 1 .. 16 : Small[k] # NUL
    BY DEF Small, NUL
  <1>6. \A k \in 1 .. 16 : Capital[k] # NUL
    BY DEF Capital, NUL
  <1>7. QED
    BY <1>1, <1>2, <1>3, <1>4, <1>5, <1>6

LEMMA DigitsAreHex ==
    /\ Digits \subseteq HexDigits
    /\ \A k \in 1 .. 16 : Small[k] \in HexDigits /\ Capital[k] \in HexDigits
    /\ \A k \in 1 .. 10 : Decimal[k] \in Digits
    /\ \A c \in Digits : \E k \in 1 .. 10 : c = Decimal[k]
    /\ \A c \in HexDigits : \E k \in 1 .. 16 : c \in {Small[k], Capital[k]}
  <1>1. \A k \in 1 .. 16 : Small[k] \in HexDigits /\ Capital[k] \in HexDigits
    BY SixteenDigits DEF HexDigits, Range
  <1>2. \A c \in HexDigits : \E k \in 1 .. 16 : c \in {Small[k], Capital[k]}
    BY SixteenDigits DEF HexDigits, Range
  <1>3. \A k \in 1 .. 10 : Decimal[k] \in Digits
    BY SixteenDigits DEF Digits, Range
  <1>4. \A c \in Digits : \E k \in 1 .. 10 : c = Decimal[k]
    BY SixteenDigits DEF Digits, Range
  <1>5. \A k \in 1 .. 10 : k \in 1 .. 16
    OBVIOUS
  <1>6. Digits \subseteq HexDigits
    BY <1>1, <1>4, <1>5, SixteenDigits
  <1>7. QED
    BY <1>1, <1>2, <1>3, <1>4, <1>6

LEMMA DigitIs ==
    \A k \in 1 .. 16 : DigitValue(Small[k]) = k - 1 /\ DigitValue(Capital[k]) = k - 1
  <1>1. /\ \A j, k \in 1 .. 16 : Small[j] = Small[k] => j = k
        /\ \A j, k \in 1 .. 16 : Capital[j] = Capital[k] => j = k
        /\ \A j, k \in 1 .. 16 : Small[j] = Capital[k] => j = k
    <2>1. Small = <<"0", "1", "2", "3", "4", "5", "6", "7", "8", "9", "a", "b", "c", "d", "e", "f">>
      BY DEF Small
    <2>2. Capital = <<"0", "1", "2", "3", "4", "5", "6", "7", "8", "9", "A", "B", "C", "D", "E", "F">>
      BY DEF Capital
    <2>3. QED
      BY ONLY <2>1, <2>2, Distinct
  <1>2. \A j, k \in 1 .. 16 : Small[k] \in {Small[j], Capital[j]} => j = k
    BY <1>1
  <1>3. \A j, k \in 1 .. 16 : Capital[k] \in {Small[j], Capital[j]} => j = k
    BY <1>1
  <1>4. QED
    BY <1>2, <1>3 DEF DigitValue

LEMMA DigitIsSmall == \A c \in HexDigits : DigitValue(c) \in 0 .. 15
  BY DigitsAreHex, DigitIs

LEMMA DigitIsDecimal == \A k \in 1 .. 10 : DigitValue(Decimal[k]) = k - 1
  BY SixteenDigits, DigitIs

LEMMA DigitsAreChars ==
    HexDigits \subseteq Chars \ {NUL} /\ Flags \subseteq Chars \ {NUL} /\ "%" \notin HexDigits
  <1>1. HexDigits \subseteq Chars
    BY CharsAssumption DEF HexDigits, Marks
  <1>2. Flags \subseteq Chars \ {NUL}
    <2>1. Space # NUL
      BY DEF Space, NUL
    <2>2. Flags \subseteq Chars
      BY CharsAssumption DEF Marks
    <2>3. NUL \notin Flags
      BY <2>1 DEF Flags, NUL
    <2>4. QED
      BY <2>2, <2>3
  <1>3. NUL \notin HexDigits
    BY DigitsAreHex, SixteenDigits
  <1>4. "%" \notin HexDigits
    <2>1. \A k \in 1 .. 16 : Small[k] # "%"
      BY DEF Small
    <2>2. \A k \in 1 .. 16 : Capital[k] # "%"
      BY DEF Capital
    <2>3. QED
      BY <2>1, <2>2, DigitsAreHex
  <1>5. QED
    BY <1>1, <1>2, <1>3, <1>4
----------------------------------------------------------------------------
(* What a numeral reads as.                                                *)
ReadsAs(digits, base, f) ==
    f = [n \in 0 .. Len(digits) |-> IF n = 0 THEN 0 ELSE base * f[n - 1] + DigitValue(digits[n])]

LEMMA ReadingTo ==
    ASSUME NEW digits \in Seq(HexDigits), NEW base \in Nat
    PROVE  \A m \in Nat : m \in 0 .. Len(digits) =>
               \E f \in [0 .. m -> Nat] :
                   /\ f[0] = 0
                   /\ \A n \in 1 .. m : f[n] = base * f[n - 1] + DigitValue(digits[n])
  <1> DEFINE Good(m, f) == /\ f[0] = 0
                           /\ \A n \in 1 .. m : f[n] = base * f[n - 1] + DigitValue(digits[n])
             S == {m \in Nat : m \in 0 .. Len(digits) => \E f \in [0 .. m -> Nat] : Good(m, f)}
  <1>1. 0 \in S
    <2> DEFINE f == [n \in 0 .. 0 |-> 0]
    <2>1. f \in [0 .. 0 -> Nat] /\ Good(0, f)
      OBVIOUS
    <2>2. QED
      BY <2>1
  <1>2. ASSUME NEW m \in Nat, m \in S PROVE m + 1 \in S
    <2> SUFFICES ASSUME m + 1 \in 0 .. Len(digits)
                 PROVE  \E f \in [0 .. m + 1 -> Nat] : Good(m + 1, f)
      OBVIOUS
    <2>1. PICK f \in [0 .. m -> Nat] : Good(m, f)
      <3>1. m \in 0 .. Len(digits)
        OBVIOUS
      <3>2. QED
        BY <1>2, <3>1
    <2> DEFINE last == base * f[m] + DigitValue(digits[m + 1])
               g == [n \in 0 .. m + 1 |-> IF n = m + 1 THEN last ELSE f[n]]
    <2>2. last \in Nat
      <3>1. digits[m + 1] \in HexDigits
        OBVIOUS
      <3>2. DigitValue(digits[m + 1]) \in Nat
        <4>1. \A v \in 0 .. 15 : v \in Nat
          OBVIOUS
        <4>2. QED
          BY <3>1, <4>1, DigitIsSmall
      <3>3. f[m] \in Nat
        OBVIOUS
      <3>4. base * f[m] \in Nat
        BY <3>3
      <3>5. QED
        BY <3>2, <3>4
    <2> HIDE DEF last
    <2>3. g \in [0 .. m + 1 -> Nat] /\ g[m + 1] = last /\ \A n \in 0 .. m : g[n] = f[n]
      BY <2>2
    <2> HIDE DEF g
    <2>4. \A n \in 1 .. m + 1 : g[n] = base * g[n - 1] + DigitValue(digits[n])
      <3> SUFFICES ASSUME NEW n \in 1 .. m + 1
                   PROVE  g[n] = base * g[n - 1] + DigitValue(digits[n])
        OBVIOUS
      <3>1. CASE n = m + 1
        <4>1. n - 1 = m /\ m \in 0 .. m
          BY <3>1
        <4>2. QED
          BY <2>3, <3>1, <4>1 DEF last
      <3>2. CASE n # m + 1
        <4>1. n \in 1 .. m /\ n \in 0 .. m /\ n - 1 \in 0 .. m
          BY <3>2
        <4>2. QED
          BY <2>1, <2>3, <4>1
      <3>3. QED
        BY <3>1, <3>2
    <2>5. Good(m + 1, g)
      BY <2>1, <2>3, <2>4
    <2>6. QED
      BY <2>3, <2>5
  <1>3. QED
    <2> HIDE DEF S
    <2>1. \A m \in Nat : m \in S
      BY <1>1, <1>2, Onwards
    <2>2. QED
      BY <2>1 DEF S

LEMMA ReadingIs ==
    ASSUME NEW digits \in Seq(HexDigits), NEW base \in Nat
    PROVE  \E f :
               /\ f[0] = 0 /\ \A n \in 0 .. Len(digits) : f[n] \in Nat
               /\ \A n \in 1 .. Len(digits) : f[n] = base * f[n - 1] + DigitValue(digits[n])
               /\ Reading(digits, base) = f[Len(digits)]
  <1> DEFINE m == Len(digits)
             v == CHOOSE f : ReadsAs(digits, base, f)
  <1>1. m \in Nat /\ m \in 0 .. m
    OBVIOUS
  <1>2. PICK f \in [0 .. m -> Nat] :
            /\ f[0] = 0
            /\ \A n \in 1 .. m : f[n] = base * f[n - 1] + DigitValue(digits[n])
    BY <1>1, ReadingTo
  <1>3. ReadsAs(digits, base, f)
    <2>1. f = [n \in 0 .. m |-> f[n]]
      OBVIOUS
    <2>2. \A n \in 0 .. m :
              f[n] = IF n = 0 THEN 0 ELSE base * f[n - 1] + DigitValue(digits[n])
      BY <1>2
    <2>3. QED
      BY <2>1, <2>2 DEF ReadsAs
  <1>4. ReadsAs(digits, base, v)
    BY <1>3
  <1>5. Reading(digits, base) = v[m]
    BY DEF Reading, ReadsAs
  <1> HIDE DEF v
  <1>6. /\ v[0] = 0
        /\ \A n \in 1 .. m : v[n] = base * v[n - 1] + DigitValue(digits[n])
    BY <1>1, <1>4 DEF ReadsAs
  <1>7. \A n \in 0 .. m : v[n] = f[n]
    <2> DEFINE S == {n \in Nat : n \in 0 .. m => v[n] = f[n]}
    <2>1. 0 \in S
      BY <1>2, <1>6
    <2>2. ASSUME NEW n \in Nat, n \in S PROVE n + 1 \in S
      <3> SUFFICES ASSUME n + 1 \in 0 .. m PROVE v[n + 1] = f[n + 1]
        OBVIOUS
      <3>1. n + 1 \in 1 .. m /\ (n + 1) - 1 = n /\ n \in 0 .. m
        BY <1>1
      <3>2. QED
        BY <1>2, <1>6, <2>2, <3>1
    <2>3. QED
      <3> HIDE DEF S
      <3>1. \A n \in Nat : n \in S
        BY <2>1, <2>2, Onwards
      <3>2. QED
        BY <3>1 DEF S
  <1>8. QED
    BY <1>1, <1>2, <1>5, <1>7

LEMMA ReadingNumber ==
    ASSUME NEW digits \in Seq(HexDigits), NEW base \in Nat
    PROVE  Reading(digits, base) \in Nat
  <1>1. Len(digits) \in 0 .. Len(digits)
    OBVIOUS
  <1>2. QED
    BY <1>1, ReadingIs

(* Two readings by the same m steps, the one from c on, the other from d.  *)
Steps(f, p, c, m, base) ==
    \A n \in 1 .. m : f[c + n] = base * f[c + n - 1] + DigitValue(p[c + n])
Alike(p, c, q, d, m) == \A n \in 1 .. m : p[c + n] = q[d + n]

LEMMA SameReading ==
    ASSUME NEW base \in Nat, NEW m \in Nat, NEW c \in Nat, NEW d \in Nat, NEW f, NEW g, NEW p, NEW q,
           f[c] = g[d], Steps(f, p, c, m, base), Steps(g, q, d, m, base), Alike(p, c, q, d, m)
    PROVE  f[c + m] = g[d + m]
  <1> DEFINE S == {n \in Nat : n \in 0 .. m => f[c + n] = g[d + n]}
  <1>1. 0 \in S
    OBVIOUS
  <1>2. ASSUME NEW n \in Nat, n \in S PROVE n + 1 \in S
    <2> SUFFICES ASSUME n + 1 \in 0 .. m PROVE f[c + (n + 1)] = g[d + (n + 1)]
      OBVIOUS
    <2>1. /\ n + 1 \in 1 .. m /\ n \in 0 .. m
          /\ c + (n + 1) - 1 = c + n /\ d + (n + 1) - 1 = d + n
      OBVIOUS
    <2>2. f[c + (n + 1)] = base * f[c + n] + DigitValue(p[c + (n + 1)])
      BY <2>1 DEF Steps
    <2>3. g[d + (n + 1)] = base * g[d + n] + DigitValue(q[d + (n + 1)])
      BY <2>1 DEF Steps
    <2>4. f[c + n] = g[d + n] /\ p[c + (n + 1)] = q[d + (n + 1)]
      BY <1>2, <2>1 DEF Alike
    <2>5. QED
      BY ONLY <2>2, <2>3, <2>4
  <1>3. QED
    <2> HIDE DEF S
    <2>1. \A n \in Nat : n \in S
      BY <1>1, <1>2, Onwards
    <2>2. QED
      BY <2>1 DEF S

LEMMA ReadingAppend ==
    ASSUME NEW digits \in Seq(HexDigits), NEW c \in HexDigits, NEW base \in Nat
    PROVE  Reading(Append(digits, c), base) = base * Reading(digits, base) + DigitValue(c)
  <1> DEFINE all == Append(digits, c)
             m == Len(digits)
  <1>1. /\ all \in Seq(HexDigits) /\ Len(all) = m + 1 /\ m \in Nat
        /\ all[m + 1] = c /\ \A n \in 1 .. m : all[n] = digits[n]
    OBVIOUS
  <1> HIDE DEF all
  <1>2. PICK f :
            /\ f[0] = 0 /\ \A n \in 0 .. m : f[n] \in Nat
            /\ \A n \in 1 .. m : f[n] = base * f[n - 1] + DigitValue(digits[n])
            /\ Reading(digits, base) = f[m]
    BY ReadingIs
  <1>3. PICK g :
            /\ g[0] = 0 /\ \A n \in 0 .. m + 1 : g[n] \in Nat
            /\ \A n \in 1 .. m + 1 : g[n] = base * g[n - 1] + DigitValue(all[n])
            /\ Reading(all, base) = g[m + 1]
    <2>1. \E g :
            /\ g[0] = 0 /\ \A n \in 0 .. Len(all) : g[n] \in Nat
            /\ \A n \in 1 .. Len(all) : g[n] = base * g[n - 1] + DigitValue(all[n])
            /\ Reading(all, base) = g[Len(all)]
      BY ONLY <1>1, base \in Nat, ReadingIs
    <2>2. QED
      BY <1>1, <2>1
  <1>4. f[0 + m] = g[0 + m]
    <2>1. Steps(g, all, 0, m, base)
      <3> SUFFICES ASSUME NEW n \in 1 .. m
                   PROVE  g[0 + n] = base * g[0 + n - 1] + DigitValue(all[0 + n])
        BY DEF Steps
      <3>1. n \in 1 .. m + 1 /\ 0 + n = n /\ 0 + n - 1 = n - 1
        BY <1>1
      <3>2. QED
        BY <1>3, <3>1
    <2>2. Alike(digits, 0, all, 0, m)
      BY <1>1 DEF Alike
    <2>3. m \in Nat /\ 0 \in Nat /\ f[0] = g[0]
      BY <1>1, <1>2, <1>3
    <2>4. Steps(f, digits, 0, m, base)
      BY <1>2 DEF Steps
    <2> HIDE DEF m
    <2>5. f[0 + m] = g[0 + m]
      BY ONLY <2>1, <2>2, <2>3, <2>4, base \in Nat, SameReading
    <2>6. QED
      BY <2>5
  <1>5. m + 1 \in 1 .. m + 1 /\ (m + 1) - 1 = m /\ 0 + m = m
    BY <1>1
  <1>6. g[m + 1] = base * g[m] + DigitValue(c)
    BY <1>1, <1>3, <1>5
  <1>7. QED
    BY <1>2, <1>3, <1>4, <1>5, <1>6 DEF all

(* Zeros at the beginning say nothing.                                     *)
LEMMA ReadingZeros ==
    ASSUME NEW digits \in Seq(HexDigits), NEW zeros \in Seq(HexDigits), NEW base \in Nat,
           \A n \in 1 .. Len(zeros) : DigitValue(zeros[n]) = 0
    PROVE  Reading(zeros \o digits, base) = Reading(digits, base)
  <1> DEFINE all == zeros \o digits
             d == Len(zeros)
             m == Len(digits)
  <1>1. /\ all \in Seq(HexDigits) /\ Len(all) = d + m /\ d \in Nat /\ m \in Nat
        /\ \A n \in 1 .. d : all[n] = zeros[n]
        /\ \A n \in 1 .. m : all[d + n] = digits[n]
    BY Concatenated
  <1> HIDE DEF all
  <1>2. PICK f :
            /\ f[0] = 0 /\ \A n \in 0 .. m : f[n] \in Nat
            /\ \A n \in 1 .. m : f[n] = base * f[n - 1] + DigitValue(digits[n])
            /\ Reading(digits, base) = f[m]
    BY ReadingIs
  <1>3. PICK g :
            /\ g[0] = 0 /\ \A n \in 0 .. d + m : g[n] \in Nat
            /\ \A n \in 1 .. d + m : g[n] = base * g[n - 1] + DigitValue(all[n])
            /\ Reading(all, base) = g[d + m]
    <2>1. \E g :
            /\ g[0] = 0 /\ \A n \in 0 .. Len(all) : g[n] \in Nat
            /\ \A n \in 1 .. Len(all) : g[n] = base * g[n - 1] + DigitValue(all[n])
            /\ Reading(all, base) = g[Len(all)]
      BY ONLY <1>1, base \in Nat, ReadingIs
    <2>2. QED
      BY <1>1, <2>1
  <1>4. g[d] = 0
    <2> DEFINE S == {n \in Nat : n \in 0 .. d => g[n] = 0}
    <2>1. 0 \in S
      BY <1>3
    <2>2. ASSUME NEW n \in Nat, n \in S PROVE n + 1 \in S
      <3> SUFFICES ASSUME n + 1 \in 0 .. d PROVE g[n + 1] = 0
        OBVIOUS
      <3>1. n + 1 \in 1 .. d + m /\ n + 1 \in 1 .. d /\ (n + 1) - 1 = n /\ n \in 0 .. d
        BY <1>1
      <3>2. g[n + 1] = base * 0 + DigitValue(zeros[n + 1])
        BY <1>1, <1>3, <2>2, <3>1
      <3>3. QED
        BY <3>1, <3>2
    <2>3. QED
      <3> HIDE DEF S
      <3>1. \A n \in Nat : n \in S
        BY <2>1, <2>2, Onwards
      <3>2. QED
        BY <1>1, <3>1 DEF S
  <1>5. f[0 + m] = g[d + m]
    <2>1. Steps(g, all, d, m, base)
      <3> SUFFICES ASSUME NEW n \in 1 .. m
                   PROVE  g[d + n] = base * g[d + n - 1] + DigitValue(all[d + n])
        BY DEF Steps
      <3>1. d + n \in 1 .. d + m
        BY <1>1
      <3>2. QED
        BY <1>3, <3>1
    <2>2. Alike(digits, 0, all, d, m)
      BY <1>1 DEF Alike
    <2>3. m \in Nat /\ d \in Nat /\ 0 \in Nat /\ f[0] = g[d]
      BY <1>1, <1>2, <1>4
    <2>4. Steps(f, digits, 0, m, base)
      BY <1>2 DEF Steps
    <2> HIDE DEF d, m
    <2>5. f[0 + m] = g[d + m]
      BY ONLY <2>1, <2>2, <2>3, <2>4, base \in Nat, SameReading
    <2>6. QED
      BY <2>5
  <1>6. QED
    BY <1>1, <1>2, <1>3, <1>5 DEF all
----------------------------------------------------------------------------
(* Numerals.                                                               *)
Bases == {8, 10, 16}

LEMMA Division ==
    ASSUME NEW base \in Bases, NEW n \in Nat
    PROVE  /\ n \div base \in Nat /\ n % base \in 0 .. base - 1
           /\ n = base * (n \div base) + (n % base)
           /\ n \div base <= n
           /\ n >= 1 => n \div base < n
           /\ n < base => n \div base = 0 /\ n % base = n
           /\ n >= base => n \div base >= 1
  <1>1. /\ n \div 8 \in Nat /\ n % 8 \in 0 .. 8 - 1
        /\ n = 8 * (n \div 8) + (n % 8)
        /\ n \div 8 <= n
        /\ n >= 1 => n \div 8 < n
        /\ n < 8 => n \div 8 = 0 /\ n % 8 = n
        /\ n >= 8 => n \div 8 >= 1
    OBVIOUS
  <1>2. /\ n \div 10 \in Nat /\ n % 10 \in 0 .. 10 - 1
        /\ n = 10 * (n \div 10) + (n % 10)
        /\ n \div 10 <= n
        /\ n >= 1 => n \div 10 < n
        /\ n < 10 => n \div 10 = 0 /\ n % 10 = n
        /\ n >= 10 => n \div 10 >= 1
    OBVIOUS
  <1>3. /\ n \div 16 \in Nat /\ n % 16 \in 0 .. 16 - 1
        /\ n = 16 * (n \div 16) + (n % 16)
        /\ n \div 16 <= n
        /\ n >= 1 => n \div 16 < n
        /\ n < 16 => n \div 16 = 0 /\ n % 16 = n
        /\ n >= 16 => n \div 16 >= 1
    OBVIOUS
  <1>4. base = 8 \/ base = 10 \/ base = 16
    BY DEF Bases
  <1>5. QED
    BY ONLY <1>1, <1>2, <1>3, <1>4

LEMMA DivisionGrows ==
    ASSUME NEW b \in Bases, NEW c \in Bases, c <= b, NEW n \in Nat, NEW k \in Nat, n <= k
    PROVE  n \div b <= k \div c
  <1>1. CASE b = 8 /\ c = 8
    BY <1>1
  <1>2. CASE b = 10 /\ c = 8
    BY <1>2
  <1>3. CASE b = 16 /\ c = 8
    BY <1>3
  <1>4. CASE b = 10 /\ c = 10
    BY <1>4
  <1>5. CASE b = 16 /\ c = 10
    BY <1>5
  <1>6. CASE b = 16 /\ c = 16
    BY <1>6
  <1>7. QED
    BY <1>1, <1>2, <1>3, <1>4, <1>5, <1>6 DEF Bases

(* f has the numerals of 0 .. v.                                           *)
Writes(f, v, base, chars) ==
    f = [n \in 0 .. v |-> IF n < base THEN <<chars[n + 1]>>
                          ELSE Append(f[n \div base], chars[(n % base) + 1])]

LEMMA WritesEach ==
    ASSUME NEW f, NEW v, NEW base, NEW chars, Writes(f, v, base, chars), NEW n \in 0 .. v
    PROVE  /\ n < base => f[n] = <<chars[n + 1]>>
           /\ ~(n < base) => f[n] = Append(f[n \div base], chars[(n % base) + 1])
  <1>1. f[n] = IF n < base THEN <<chars[n + 1]>> ELSE Append(f[n \div base], chars[(n % base) + 1])
    BY DEF Writes
  <1>2. QED
    BY <1>1

LEMMA WritesExists ==
    ASSUME NEW base \in Bases, NEW chars
    PROVE  \A v \in Nat : \E f : Writes(f, v, base, chars)
  <1> DEFINE Text(f, n) == IF n < base THEN <<chars[n + 1]>>
                           ELSE Append(f[n \div base], chars[(n % base) + 1])
             S == {v \in Nat : \E f : Writes(f, v, base, chars)}
  <1>1. 0 \in S
    <2> DEFINE f == [n \in 0 .. 0 |-> <<chars[n + 1]>>]
    <2>1. f = [n \in 0 .. 0 |-> Text(f, n)]
      BY DEF Bases
    <2> HIDE DEF f
    <2>2. Writes(f, 0, base, chars)
      BY <2>1 DEF Writes
    <2>3. QED
      BY <2>2
  <1>2. ASSUME NEW v \in Nat, v \in S PROVE v + 1 \in S
    <2>1. PICK f : Writes(f, v, base, chars)
      BY <1>2
    <2> DEFINE last == Text(f, v + 1)
               g == [n \in 0 .. v + 1 |-> IF n = v + 1 THEN last ELSE f[n]]
    <2>2. g = [n \in 0 .. v + 1 |-> g[n]] /\ g[v + 1] = last /\ \A n \in 0 .. v : g[n] = f[n]
      OBVIOUS
    <2> HIDE DEF g
    <2>3. \A n \in 0 .. v + 1 : g[n] = Text(g, n)
      <3> SUFFICES ASSUME NEW n \in 0 .. v + 1 PROVE g[n] = Text(g, n)
        OBVIOUS
      <3>1. n >= 1 => n \div base \in 0 .. v
        <4>1. n \in Nat
          OBVIOUS
        <4>2. n \div base \in Nat /\ (n >= 1 => n \div base < n)
          BY <4>1, Division
        <4>3. QED
          BY <4>2
      <3>2. ~(n < base) => n >= 1
        BY DEF Bases
      <3>3. Text(g, n) = Text(f, n)
        <4>1. ~(n < base) => g[n \div base] = f[n \div base]
          BY <2>2, <3>1, <3>2
        <4>2. QED
          BY <4>1
      <3>4. CASE n = v + 1
        BY <2>2, <3>3, <3>4
      <3>5. CASE n # v + 1
        <4>1. n \in 0 .. v
          BY <3>5
        <4>2. f[n] = Text(f, n)
          BY <2>1, <4>1 DEF Writes
        <4>3. QED
          BY <2>2, <3>3, <4>1, <4>2
      <3>6. QED
        BY <3>4, <3>5
    <2>4. Writes(g, v + 1, base, chars)
      <3> HIDE DEF Text
      <3>1. g = [n \in 0 .. v + 1 |-> Text(g, n)]
        BY <2>2, <2>3
      <3>2. QED
        BY <3>1 DEF Writes, Text
    <2>5. QED
      BY <2>4
  <1>3. QED
    <2> HIDE DEF S
    <2>1. \A v \in Nat : v \in S
      BY <1>1, <1>2, Onwards
    <2>2. QED
      BY <2>1 DEF S

LEMMA NumeralIs ==
    ASSUME NEW v \in Nat, NEW base \in Bases, NEW chars
    PROVE  \E f : Writes(f, v, base, chars) /\ Numeral(v, base, chars) = f[v]
  <1> DEFINE f == CHOOSE f : f = [n \in 0 .. v |->
                     IF n < base THEN <<chars[n + 1]>>
                     ELSE Append(f[n \div base], chars[(n % base) + 1])]
  <1>1. \E h : Writes(h, v, base, chars)
    BY WritesExists
  <1>2. Writes(f, v, base, chars)
    BY <1>1 DEF Writes
  <1>3. Numeral(v, base, chars) = f[v]
    BY DEF Numeral
  <1>4. QED
    BY <1>2, <1>3

(* chars are digits for the base.                                          *)
AreDigits(chars, base, C) ==
    /\ C \subseteq HexDigits
    /\ \A k \in 1 .. base : chars[k] \in C /\ DigitValue(chars[k]) = k - 1

LEMMA WrittenDigits ==
    ASSUME NEW base \in Bases, NEW chars, NEW C, AreDigits(chars, base, C), NEW v \in Nat,
           NEW f, Writes(f, v, base, chars)
    PROVE  \A n \in 0 .. v : f[n] \in Seq(C) /\ Len(f[n]) >= 1 /\ Reading(f[n], base) = n
  <1> DEFINE Good(n) == f[n] \in Seq(C) /\ Len(f[n]) >= 1 /\ Reading(f[n], base) = n
             S == {n \in Nat : n \in 0 .. v => Good(n)}
  <1>1. ASSUME NEW n \in Nat, \A k \in 0 .. n - 1 : k \in S PROVE n \in S
    <2> SUFFICES ASSUME n \in 0 .. v PROVE Good(n)
      OBVIOUS
    <2>1. base \in Nat /\ base >= 8
      BY DEF Bases
    <2>2. /\ n \div base \in Nat /\ n % base \in 0 .. base - 1
          /\ n = base * (n \div base) + (n % base)
          /\ n >= 1 => n \div base < n
          /\ n < base => n \div base = 0 /\ n % base = n
      BY Division
    <2> DEFINE c == chars[(n % base) + 1]
    <2>3. (n % base) + 1 \in 1 .. base
      BY <2>1, <2>2
    <2>4. c \in C /\ c \in HexDigits /\ DigitValue(c) = n % base
      BY <2>2, <2>3 DEF AreDigits
    <2>5. CASE n < base
      <3>1. f[n] = Append(<<>>, c)
        BY <2>2, <2>5, WritesEach
      <3>2. f[n] \in Seq(C) /\ Len(f[n]) >= 1
        BY <2>4, <3>1
      <3>3. Reading(<<>>, base) = 0
        <4>1. <<>> \in Seq(HexDigits) /\ Len(<<>>) = 0
          OBVIOUS
        <4>2. QED
          BY <2>1, <4>1, ReadingIs
      <3>4. Reading(f[n], base) = base * Reading(<<>>, base) + DigitValue(c)
        <4>1. <<>> \in Seq(HexDigits)
          OBVIOUS
        <4> HIDE DEF c
        <4>2. QED
          BY <2>1, <2>4, <3>1, <4>1, ReadingAppend
      <3>5. QED
        BY <2>1, <2>2, <2>4, <2>5, <3>2, <3>3, <3>4
    <2>6. CASE ~(n < base)
      <3> DEFINE high == n \div base
      <3>1. f[n] = Append(f[high], c)
        BY <2>6, WritesEach
      <3>2. Good(high)
        <4>1. high \in 0 .. n - 1 /\ high \in 0 .. v
          BY <2>1, <2>2, <2>6
        <4>2. QED
          BY <1>1, <4>1
      <3>3. f[high] \in Seq(HexDigits)
        BY <3>2 DEF AreDigits
      <3>4. Reading(f[n], base) = base * Reading(f[high], base) + DigitValue(c)
        <4> DEFINE t == f[high]
        <4>1. t \in Seq(HexDigits) /\ f[n] = Append(t, c)
          BY <3>1, <3>3
        <4> HIDE DEF c, t
        <4>2. Reading(f[n], base) = base * Reading(t, base) + DigitValue(c)
          BY <2>1, <2>4, <4>1, ReadingAppend
        <4>3. QED
          BY <4>2 DEF t
      <3>5. Reading(f[n], base) = n
        <4>1. Reading(f[n], base) = base * high + (n % base)
          BY <2>4, <3>2, <3>4
        <4>2. QED
          BY <2>2, <4>1
      <3>6. f[n] \in Seq(C) /\ Len(f[n]) >= 1
        BY <2>4, <3>1, <3>2
      <3>7. QED
        BY <3>5, <3>6
    <2>7. QED
      BY <2>5, <2>6
  <1>2. QED
    <2> HIDE DEF S
    <2>1. \A n \in Nat : n \in S
      BY <1>1, Smaller
    <2>2. QED
      BY <2>1 DEF S

LEMMA DigitSets ==
    /\ AreDigits(Decimal, 8, Digits) /\ AreDigits(Decimal, 10, Digits)
    /\ AreDigits(Small, 16, Range(Small)) /\ AreDigits(Capital, 16, Range(Capital))
  <1>1. /\ Digits \subseteq HexDigits /\ Range(Small) \subseteq HexDigits
        /\ Range(Capital) \subseteq HexDigits
    BY DigitsAreHex DEF HexDigits
  <1>2. \A k \in 1 .. 10 : Decimal[k] \in Digits /\ DigitValue(Decimal[k]) = k - 1
    BY DigitsAreHex, DigitIsDecimal
  <1>3. \A k \in 1 .. 16 : Small[k] \in Range(Small) /\ Capital[k] \in Range(Capital)
    BY SixteenDigits DEF Range
  <1>4. \A k \in 1 .. 8 : k \in 1 .. 10
    OBVIOUS
  <1>5. QED
    BY <1>1, <1>2, <1>3, <1>4, DigitIs DEF AreDigits

LEMMA NumeralDigits ==
    ASSUME NEW base \in Bases, NEW chars, NEW C, AreDigits(chars, base, C), NEW v \in Nat
    PROVE  /\ Numeral(v, base, chars) \in Seq(C) /\ Len(Numeral(v, base, chars)) >= 1
           /\ Reading(Numeral(v, base, chars), base) = v
  <1>1. PICK f : Writes(f, v, base, chars) /\ Numeral(v, base, chars) = f[v]
    BY NumeralIs
  <1>2. v \in 0 .. v
    OBVIOUS
  <1>3. QED
    BY <1>1, <1>2, WrittenDigits

(* A larger number has no fewer digits, nor has a number in a smaller base. *)
LEMMA NumeralGrows ==
    ASSUME NEW b \in Bases, NEW s, NEW C, AreDigits(s, b, C),
           NEW c \in Bases, NEW t, NEW D, AreDigits(t, c, D), c <= b,
           NEW n \in Nat, NEW k \in Nat, n <= k
    PROVE  Len(Numeral(n, b, s)) <= Len(Numeral(k, c, t))
  <1>1. PICK f : Writes(f, n, b, s) /\ Numeral(n, b, s) = f[n]
    BY NumeralIs
  <1>2. PICK g : Writes(g, k, c, t) /\ Numeral(k, c, t) = g[k]
    BY NumeralIs
  <1>3. \A j \in 0 .. n : f[j] \in Seq(C) /\ Len(f[j]) >= 1
    BY <1>1, WrittenDigits
  <1>4. \A j \in 0 .. k : g[j] \in Seq(D) /\ Len(g[j]) >= 1
    BY <1>2, WrittenDigits
  <1> DEFINE Good(j) == \A i \in 0 .. n : i <= j => Len(f[i]) <= Len(g[j])
             S == {j \in Nat : j \in 0 .. k => Good(j)}
  <1>5. ASSUME NEW j \in Nat, \A i \in 0 .. j - 1 : i \in S PROVE j \in S
    <2> SUFFICES ASSUME j \in 0 .. k, NEW i \in 0 .. n, i <= j PROVE Len(f[i]) <= Len(g[j])
      OBVIOUS
    <2>1. f[i] \in Seq(C) /\ Len(f[i]) >= 1 /\ g[j] \in Seq(D) /\ Len(g[j]) >= 1
      BY <1>3, <1>4
    <2>2. CASE i < b
      <3>1. f[i] = <<s[i + 1]>>
        BY <1>1, <2>2, WritesEach
      <3>2. Len(f[i]) = 1
        BY <3>1
      <3>3. QED
        BY <2>1, <3>2
    <2>3. CASE ~(i < b)
      <3> DEFINE high == i \div b
                 top  == j \div c
      <3>1. b \in Nat /\ c \in Nat /\ b >= 8 /\ c >= 8 /\ i \in Nat /\ i <= n /\ n \in Nat
        BY DEF Bases
      <3>2. ~(j < c) /\ j >= 1 /\ i >= 1
        BY <2>3, <3>1
      <3>3. high \in Nat /\ high < i /\ top \in Nat /\ top < j
        BY <3>1, <3>2, Division
      <3>4. high <= top
        BY <3>1, DivisionGrows
      <3> HIDE DEF high, top
      <3>5. high \in 0 .. n /\ top \in 0 .. j - 1 /\ top \in 0 .. k
        BY <3>1, <3>3
      <3>6. Len(f[high]) <= Len(g[top])
        BY <1>5, <3>4, <3>5
      <3>7. f[high] \in Seq(C) /\ g[top] \in Seq(D)
        BY <1>3, <1>4, <3>5
      <3>8. Len(f[i]) = Len(f[high]) + 1
        <4>1. f[i] = Append(f[high], s[(i % b) + 1])
          BY <1>1, <2>3, WritesEach DEF high
        <4>2. QED
          BY <3>7, <4>1
      <3>9. Len(g[j]) = Len(g[top]) + 1
        <4>1. g[j] = Append(g[top], t[(j % c) + 1])
          BY <1>2, <3>2, WritesEach DEF top
        <4>2. QED
          BY <3>7, <4>1
      <3>10. QED
        <4>1. Len(f[high]) \in Nat /\ Len(g[top]) \in Nat
          BY <3>7
        <4>2. QED
          BY <3>6, <3>8, <3>9, <4>1
    <2>4. QED
      BY <2>2, <2>3
  <1>6. Good(k)
    <2> HIDE DEF S
    <2>1. \A j \in Nat : j \in S
      BY <1>5, Smaller
    <2>2. k \in S /\ k \in 0 .. k
      BY <2>1
    <2>3. QED
      BY <2>2 DEF S
  <1>7. n \in 0 .. n
    OBVIOUS
  <1>8. QED
    BY <1>1, <1>2, <1>6, <1>7

(* Octal digits, which are not what they should be, are as many.           *)
WritesOctal(f, v) ==
    f = [n \in 0 .. v |-> IF n = 0 THEN <<>> ELSE Append(f[n \div 8], OctalDigit(n))]

LEMMA WritesOctalExists == \A v \in Nat : \E f : WritesOctal(f, v)
  <1> DEFINE Text(f, n) == IF n = 0 THEN <<>> ELSE Append(f[n \div 8], OctalDigit(n))
             S == {v \in Nat : \E f : WritesOctal(f, v)}
  <1>1. 0 \in S
    <2> DEFINE f == [n \in 0 .. 0 |-> <<>>]
    <2>1. f = [n \in 0 .. 0 |-> Text(f, n)]
      OBVIOUS
    <2> HIDE DEF f
    <2>2. WritesOctal(f, 0)
      BY <2>1 DEF WritesOctal
    <2>3. QED
      BY <2>2
  <1>2. ASSUME NEW v \in Nat, v \in S PROVE v + 1 \in S
    <2>1. PICK f : WritesOctal(f, v)
      BY <1>2
    <2> DEFINE last == Text(f, v + 1)
               g == [n \in 0 .. v + 1 |-> IF n = v + 1 THEN last ELSE f[n]]
    <2>2. g = [n \in 0 .. v + 1 |-> g[n]] /\ g[v + 1] = last /\ \A n \in 0 .. v : g[n] = f[n]
      OBVIOUS
    <2> HIDE DEF g
    <2>3. \A n \in 0 .. v + 1 : g[n] = Text(g, n)
      <3> SUFFICES ASSUME NEW n \in 0 .. v + 1 PROVE g[n] = Text(g, n)
        OBVIOUS
      <3>1. n >= 1 => n \div 8 \in 0 .. v
        <4>1. n \in Nat
          OBVIOUS
        <4>2. n \div 8 \in Nat /\ (n >= 1 => n \div 8 < n)
          BY <4>1, Division DEF Bases
        <4>3. QED
          BY <4>2
      <3>2. Text(g, n) = Text(f, n)
        <4>1. n # 0 => g[n \div 8] = f[n \div 8]
          BY <2>2, <3>1
        <4>2. QED
          BY <4>1
      <3>3. CASE n = v + 1
        BY <2>2, <3>2, <3>3
      <3>4. CASE n # v + 1
        <4>1. n \in 0 .. v
          BY <3>4
        <4>2. f[n] = Text(f, n)
          BY <2>1, <4>1 DEF WritesOctal
        <4>3. QED
          BY <2>2, <3>2, <4>1, <4>2
      <3>5. QED
        BY <3>3, <3>4
    <2>4. WritesOctal(g, v + 1)
      <3> HIDE DEF Text
      <3>1. g = [n \in 0 .. v + 1 |-> Text(g, n)]
        BY <2>2, <2>3
      <3>2. QED
        BY <3>1 DEF WritesOctal, Text
    <2>5. QED
      BY <2>4
  <1>3. QED
    <2> HIDE DEF S
    <2>1. \A v \in Nat : v \in S
      BY <1>1, <1>2, Onwards
    <2>2. QED
      BY <2>1 DEF S

LEMMA OctalDigitIsChar == \A v \in Nat : OctalDigit(v) \in Chars
  <1> SUFFICES ASSUME NEW v \in Nat PROVE OctalDigit(v) \in Chars
    OBVIOUS
  <1>1. (v % 8) + 1 \in 1 .. 10
    OBVIOUS
  <1>2. Decimal[(v % 8) + 1] \in Chars
    BY <1>1, DigitsAreHex, DigitsAreChars
  <1>3. NUL \in Chars /\ Odd \in Chars
    BY CharsAssumption DEF Marks
  <1>4. QED
    BY <1>2, <1>3 DEF OctalDigit

LEMMA OctalLength ==
    ASSUME NEW v \in Nat
    PROVE  /\ OctalDigits(v) \in Seq(Chars) /\ Len(OctalDigits(v)) >= 1
           /\ Len(OctalDigits(v)) <= Len(Numeral(v, 8, Decimal))
  <1> DEFINE f == CHOOSE f : f = [n \in 0 .. v |->
                     IF n = 0 THEN <<>> ELSE Append(f[n \div 8], OctalDigit(n))]
  <1>1. WritesOctal(f, v)
    BY WritesOctalExists DEF WritesOctal
  <1>2. OctalDigits(v) = IF v = 0 THEN <<"0">> ELSE f[v]
    BY DEF OctalDigits
  <1> HIDE DEF f
  <1>3. 8 \in Bases /\ AreDigits(Decimal, 8, Digits)
    BY DigitSets DEF Bases
  <1>4. PICK g : Writes(g, v, 8, Decimal) /\ Numeral(v, 8, Decimal) = g[v]
    BY <1>3, NumeralIs
  <1>5. \A n \in 0 .. v : g[n] \in Seq(Digits) /\ Len(g[n]) >= 1
    BY <1>3, <1>4, WrittenDigits
  <1>6. \A n \in 0 .. v : f[n] = IF n = 0 THEN <<>> ELSE Append(f[n \div 8], OctalDigit(n))
    BY <1>1 DEF WritesOctal
  <1> DEFINE Good(n) == f[n] \in Seq(Chars) /\ (n >= 1 => Len(f[n]) >= 1) /\ Len(f[n]) <= Len(g[n])
             S == {n \in Nat : n \in 0 .. v => Good(n)}
  <1>7. ASSUME NEW n \in Nat, \A k \in 0 .. n - 1 : k \in S PROVE n \in S
    <2> SUFFICES ASSUME n \in 0 .. v PROVE Good(n)
      OBVIOUS
    <2>1. g[n] \in Seq(Digits) /\ Len(g[n]) >= 1
      BY <1>5
    <2>2. CASE n = 0
      <3>1. f[n] = <<>>
        BY <1>6, <2>2
      <3>2. f[n] \in Seq(Chars) /\ Len(f[n]) = 0
        BY <3>1
      <3>3. QED
        BY <2>1, <2>2, <3>2
    <2>3. CASE n # 0
      <3> DEFINE high == n \div 8
                 c == OctalDigit(n)
      <3>1. high \in 0 .. n - 1 /\ high \in 0 .. v /\ (n < 8 => high = 0)
        <4>1. n \div 8 \in Nat /\ (n >= 1 => n \div 8 < n) /\ (n < 8 => n \div 8 = 0)
          BY ONLY n \in Nat
        <4>2. QED
          BY <2>3, <4>1
      <3>2. f[n] = Append(f[high], c)
        BY <1>6, <2>3
      <3>3. c \in Chars
        BY OctalDigitIsChar
      <3> HIDE DEF high, c
      <3>4. Good(high)
        BY <1>7, <3>1
      <3>5. f[n] \in Seq(Chars) /\ Len(f[n]) = Len(f[high]) + 1 /\ Len(f[high]) \in Nat
        BY <3>2, <3>3, <3>4
      <3>6. CASE n < 8
        <4>1. f[high] = <<>>
          BY <1>6, <3>1, <3>6
        <4>2. Len(f[high]) = 0
          BY <4>1
        <4>3. QED
          BY <2>1, <3>5, <4>2
      <3>7. CASE ~(n < 8)
        <4>1. g[n] = Append(g[high], Decimal[(n % 8) + 1])
          BY <1>4, <3>7, WritesEach DEF high
        <4>2. g[high] \in Seq(Digits)
          BY <1>5, <3>1
        <4>3. Len(g[n]) = Len(g[high]) + 1 /\ Len(g[high]) \in Nat
          BY <4>1, <4>2
        <4>4. QED
          BY <3>4, <3>5, <4>3
      <3>8. QED
        BY <3>6, <3>7
    <2>4. QED
      BY <2>2, <2>3
  <1>8. Good(v)
    <2> HIDE DEF S
    <2>1. \A n \in Nat : n \in S
      BY <1>7, Smaller
    <2>2. v \in S /\ v \in 0 .. v
      BY <2>1
    <2>3. QED
      BY <2>2 DEF S
  <1>9. v \in 0 .. v /\ Len(g[v]) >= 1
    BY <1>5
  <1>10. CASE v = 0
    <2>1. "0" \in Chars
      BY DigitsAreChars, CharsAssumption DEF Marks, Flags
    <2>2. OctalDigits(v) \in Seq(Chars) /\ Len(OctalDigits(v)) = 1
      BY <1>2, <1>10, <2>1
    <2>3. QED
      BY <1>4, <1>9, <2>2
  <1>11. CASE v # 0
    BY <1>2, <1>4, <1>8, <1>11
  <1>12. QED
    BY <1>10, <1>11
----------------------------------------------------------------------------
(* Arguments and the text of a number.                                     *)
Texts == Seq(Chars \ {NUL})

LEMMA TextsAreText == Texts \subseteq Seq(Chars)
  BY DEF Texts

LEMMA Halves ==
    /\ DOMAIN Half = Lengths \cup {NoLength}
    /\ \A length \in DOMAIN Half : Half[length] \in Nat \ {0} /\ 2 * Half[length] \in Nat \ {0}
    /\ NoLength \in DOMAIN Half /\ <<"l", "l">> \in DOMAIN Half
  <1>1. DOMAIN Half = Lengths \cup {NoLength}
    BY HalfAssumption
  <1>2. \A length \in DOMAIN Half : Half[length] \in Nat \ {0}
    BY HalfAssumption
  <1>3. NoLength \in DOMAIN Half /\ <<"l", "l">> \in DOMAIN Half
    BY <1>1 DEF Lengths
  <1>4. QED
    BY <1>1, <1>2, <1>3

LEMMA Multiple ==
    ASSUME NEW M \in Nat \ {0}, NEW k \in Int
    PROVE  (M * k) % M = 0
  OBVIOUS

LEMMA Divided ==
    ASSUME NEW M \in Nat \ {0}, NEW a \in Int
    PROVE  a % M \in 0 .. M - 1 /\ a = M * (a \div M) + (a % M) /\ a \div M \in Int
  OBVIOUS

LEMMA Remainder ==
    ASSUME NEW M \in Nat \ {0}, NEW a \in Int
    PROVE  a % M \in 0 .. M - 1 /\ ((a % M) - a) % M = 0
  <1>1. a % M \in 0 .. M - 1 /\ a = M * (a \div M) + (a % M) /\ a \div M \in Int
    BY Divided
  <1> DEFINE k == -(a \div M)
  <1>2. k \in Int /\ (a % M) - a = M * k
    BY <1>1
  <1> HIDE DEF k
  <1>3. (M * k) % M = 0
    BY ONLY M \in Nat \ {0}, <1>2, Multiple
  <1>4. QED
    BY <1>1, <1>2, <1>3

LEMMA RemainderLess ==
    ASSUME NEW M \in Nat \ {0}, NEW x \in Int, x % M = 0
    PROVE  (x - M) % M = 0
  <1> DEFINE k == (x \div M) - 1
  <1>1. x = M * (x \div M) + 0 /\ x \div M \in Int
    BY Divided
  <1>2. k \in Int /\ x - M = M * k
    BY <1>1
  <1> HIDE DEF k
  <1>3. (M * k) % M = 0
    BY ONLY M \in Nat \ {0}, <1>2, Multiple
  <1>4. QED
    BY <1>2, <1>3

LEMMA UnsignedIs ==
    ASSUME NEW a \in Int, NEW length \in DOMAIN Half
    PROVE  /\ AsUnsigned(a, length) \in 0 .. 2 * Half[length] - 1
           /\ (AsUnsigned(a, length) - a) % (2 * Half[length]) = 0
  <1> DEFINE M == 2 * Half[length]
  <1>1. M \in Nat \ {0}
    BY Halves
  <1> HIDE DEF M
  <1>2. a % M \in 0 .. M - 1 /\ ((a % M) - a) % M = 0
    BY <1>1, Remainder
  <1>3. QED
    BY <1>2 DEF M, AsUnsigned

LEMMA SignedIs ==
    ASSUME NEW a \in Int, NEW length \in DOMAIN Half
    PROVE  /\ AsSigned(a, length) \in -Half[length] .. Half[length] - 1
           /\ (AsSigned(a, length) - a) % (2 * Half[length]) = 0
  <1> DEFINE H == Half[length]
             M == 2 * H
             u == AsUnsigned(a, length)
  <1>1. H \in Nat \ {0} /\ M \in Nat \ {0}
    BY Halves
  <1>2. u \in 0 .. M - 1 /\ (u - a) % M = 0
    BY UnsignedIs
  <1>3. AsSigned(a, length) = IF u < H THEN u ELSE u - M
    BY DEF AsSigned
  <1> HIDE DEF u
  <1>4. (u - a - M) % M = 0
    <2>1. u - a \in Int
      BY <1>1, <1>2
    <2>2. QED
      BY <1>1, <1>2, <2>1, RemainderLess
  <1>5. (u - M) - a = u - a - M
    BY <1>1, <1>2
  <1>6. QED
    BY <1>1, <1>2, <1>3, <1>4, <1>5

LEMMA SignedFits ==
    ASSUME NEW length \in DOMAIN Half, NEW a \in -Half[length] .. Half[length] - 1
    PROVE  AsSigned(a, length) = a
  <1> DEFINE H == Half[length]
             M == 2 * H
  <1>1. H \in Nat \ {0} /\ M \in Nat \ {0} /\ a \in Int /\ a < H /\ a >= -H /\ M = 2 * H
    BY Halves
  <1>2. AsSigned(a, length) = IF a % M < H THEN a % M ELSE (a % M) - M
    BY DEF AsSigned, AsUnsigned
  <1> HIDE DEF H, M
  <1>3. a % M = IF a < 0 THEN a + M ELSE a
    BY <1>1
  <1>4. QED
    BY <1>1, <1>2, <1>3

LEMMA SmallestIs == Smallest \in Int /\ Smallest < 0
  BY Halves DEF Smallest

Magnitude(v) == IF v < 0 THEN -v ELSE v

LEMMA SignedDigitsAre ==
    ASSUME NEW v \in Int
    PROVE  /\ SignedDigits(v) \in Texts /\ Len(SignedDigits(v)) >= 1
           /\ Len(SignedDigits(v)) <= Len(Numeral(Magnitude(v), 8, Decimal)) + 1
           /\ v # Smallest => SignedDigits(v) = Numeral(Magnitude(v), 10, Decimal)
  <1>1. /\ 8 \in Bases /\ AreDigits(Decimal, 8, Digits)
        /\ 10 \in Bases /\ AreDigits(Decimal, 10, Digits)
    BY DigitSets DEF Bases
  <1>2. Magnitude(v) \in Nat
    BY DEF Magnitude
  <1>3. Seq(Digits) \subseteq Texts
    BY DigitsAreChars, DigitsAreHex DEF Texts
  <1>4. /\ Numeral(Magnitude(v), 10, Decimal) \in Seq(Digits)
        /\ Len(Numeral(Magnitude(v), 10, Decimal)) >= 1
    BY <1>1, <1>2, NumeralDigits
  <1>5. /\ Numeral(Magnitude(v), 8, Decimal) \in Seq(Digits)
        /\ Len(Numeral(Magnitude(v), 8, Decimal)) >= 1
    BY <1>1, <1>2, NumeralDigits
  <1>6. CASE v = Smallest
    <2> DEFINE n == (-v) \div 10
               t == Numeral(n, 10, Decimal)
    <2>1. v < 0 /\ Magnitude(v) = -v /\ -v \in Nat
      BY <1>6, SmallestIs DEF Magnitude
    <2>2. n \in Nat /\ n <= -v
      BY <2>1
    <2>3. SignedDigits(v) = Append(t, "(")
      BY <1>6 DEF SignedDigits
    <2> HIDE DEF n
    <2>4. t \in Seq(Digits) /\ Len(t) >= 1
      BY <1>1, <2>2, NumeralDigits
    <2>5. Len(t) <= Len(Numeral(-v, 8, Decimal))
      <3>1. 8 <= 10
        OBVIOUS
      <3>2. QED
        BY ONLY <1>1, <2>1, <2>2, <3>1, NumeralGrows
    <2>6. "(" \in Chars \ {NUL}
      BY CharsAssumption DEF Marks, NUL
    <2> HIDE DEF t
    <2>7. Append(t, "(") \in Texts /\ Len(Append(t, "(")) = Len(t) + 1
      <3>1. t \in Seq(Chars \ {NUL})
        BY <1>3, <2>4 DEF Texts
      <3>2. QED
        BY <2>6, <3>1 DEF Texts
    <2>8. Len(t) \in Nat /\ Len(Numeral(-v, 8, Decimal)) \in Nat
      BY <1>5, <2>1, <2>4
    <2>9. QED
      BY <1>6, <2>1, <2>3, <2>5, <2>7, <2>8
  <1>7. CASE v # Smallest
    <2>1. SignedDigits(v) = Numeral(Magnitude(v), 10, Decimal)
      BY <1>7 DEF SignedDigits, Magnitude
    <2>2. Len(Numeral(Magnitude(v), 10, Decimal)) <= Len(Numeral(Magnitude(v), 8, Decimal))
      <3>1. 8 <= 10 /\ Magnitude(v) <= Magnitude(v)
        BY <1>2
      <3>2. QED
        BY ONLY <1>1, <1>2, <3>1, NumeralGrows
    <2>3. QED
      BY <1>3, <1>4, <1>5, <1>7, <2>1, <2>2
  <1>8. QED
    BY <1>6, <1>7

(* What the specification of a number is known to be.                      *)
NumberSpec(spec) ==
    /\ spec.specifier \in Numbers /\ spec.length \in DOMAIN Half
    /\ spec.width \in Int /\ spec.precision \in Int

LEMMA ValueIs ==
    ASSUME NEW a \in Int, NEW spec, NumberSpec(spec)
    PROVE  /\ Value(a, spec) \in Int
           /\ (Value(a, spec) - a) % (2 * Half[spec.length]) = 0
           /\ IF spec.specifier \in {"d", "i"}
              THEN Value(a, spec) \in -Half[spec.length] .. Half[spec.length] - 1
              ELSE Value(a, spec) \in 0 .. 2 * Half[spec.length] - 1
  <1>1. spec.length \in DOMAIN Half
    BY DEF NumberSpec
  <1>2. Half[spec.length] \in Nat
    BY <1>1, Halves
  <1>3. CASE spec.specifier \in {"d", "i"}
    <2>1. Value(a, spec) = AsSigned(a, spec.length)
      BY <1>3 DEF Value
    <2>2. QED
      BY <1>1, <1>2, <1>3, <2>1, SignedIs
  <1>4. CASE spec.specifier \notin {"d", "i"}
    <2>1. Value(a, spec) = AsUnsigned(a, spec.length)
      BY <1>4 DEF Value
    <2>2. QED
      BY <1>1, <1>2, <1>4, <2>1, UnsignedIs
  <1>5. QED
    BY <1>3, <1>4

LEMMA SomeChars ==
    {"0", "-", "+", Space, "x", "X", "?", Dagger} \subseteq Chars \ {NUL}
  <1>1. {"0", "-", "+", Space} \subseteq Chars \ {NUL}
    BY DigitsAreChars DEF Flags
  <1>2. {"x", "X", "?", Dagger} \subseteq Chars
    BY CharsAssumption DEF Marks, Numbers
  <1>3. NUL \notin {"x", "X", "?", Dagger}
    BY DEF NUL, Dagger
  <1>4. QED
    BY <1>1, <1>2, <1>3

LEMMA ShortTexts ==
    /\ <<>> \in Texts /\ Len(<<>>) = 0
    /\ \A c \in Chars \ {NUL} : <<c>> \in Texts /\ Len(<<c>>) = 1
    /\ \A c, d \in Chars \ {NUL} : <<c, d>> \in Texts /\ Len(<<c, d>>) = 2
  BY DEF Texts

LEMMA SignIs ==
    ASSUME NEW v, NEW spec
    PROVE  Sign(v, spec) \in Texts /\ Len(Sign(v, spec)) \in 0 .. 1
  <1>1. Sign(v, spec) = <<>> \/ Sign(v, spec) = <<"-">> \/ Sign(v, spec) = <<"+">>
            \/ Sign(v, spec) = <<Space>>
    BY DEF Sign
  <1>2. "-" \in Chars \ {NUL} /\ "+" \in Chars \ {NUL} /\ Space \in Chars \ {NUL}
    BY SomeChars
  <1>3. 0 \in 0 .. 1 /\ 1 \in 0 .. 1
    OBVIOUS
  <1>4. QED
    BY <1>1, <1>2, <1>3, ShortTexts

LEMMA DecoratorIs ==
    ASSUME NEW spec
    PROVE  /\ Decorator(spec) \in Texts /\ Len(Decorator(spec)) \in 0 .. 2
           /\ spec.specifier \in {"d", "i"} => Len(Decorator(spec)) = 0
  <1>1. Decorator(spec) \in {<<>>, <<"0">>, <<"0", "x">>, <<"0", "X">>}
    BY DEF Decorator
  <1>2. \A t \in {<<>>, <<"0">>, <<"0", "x">>, <<"0", "X">>} : t \in Texts /\ Len(t) \in 0 .. 2
    <2>1. "0" \in Chars \ {NUL} /\ "x" \in Chars \ {NUL} /\ "X" \in Chars \ {NUL}
      BY SomeChars
    <2>2. 0 \in 0 .. 2 /\ 1 \in 0 .. 2 /\ 2 \in 0 .. 2
      OBVIOUS
    <2>3. QED
      BY <2>1, <2>2, ShortTexts
  <1>3. spec.specifier \in {"d", "i"} => Decorator(spec) = <<>>
    BY DEF Decorator
  <1>4. QED
    BY <1>1, <1>2, <1>3

(* The digits of the largest value of a type.                              *)
Most(length) == Len(Numeral(2 * Half[length] - 1, 8, Decimal))

LEMMA MostDigits ==
    ASSUME NEW length \in DOMAIN Half, NEW n \in Nat, n <= 2 * Half[length] - 1,
           NEW base \in Bases, NEW chars, NEW C, AreDigits(chars, base, C)
    PROVE  Len(Numeral(n, base, chars)) <= Most(length) /\ Most(length) + 3 < BufLen
  <1>1. 8 \in Bases /\ AreDigits(Decimal, 8, Digits) /\ 8 <= base
    BY DigitSets DEF Bases
  <1>2. 2 * Half[length] - 1 \in Nat
    BY Halves
  <1>3. Len(Numeral(n, base, chars)) <= Most(length)
    BY <1>1, <1>2, NumeralGrows DEF Most
  <1>4. QED
    BY <1>3, RoomAssumption DEF Most

LEMMA Together ==
    ASSUME NEW s \in 0 .. 1, NEW m \in 0 .. 2, NEW n \in Nat, NEW most \in Nat,
           most + 3 < BufLen, (m = 0 /\ n <= most + 1) \/ n <= most
    PROVE  s + m + n < BufLen
  BY BufLenAssumption

LEMMA DigitsAre ==
    ASSUME NEW a \in Int, NEW spec, NumberSpec(spec), NEW v, v = Value(a, spec)
    PROVE  /\ DigitsOf(v, spec) \in Seq(Chars) /\ Len(DigitsOf(v, spec)) >= 1
           /\ spec.specifier # "o" => DigitsOf(v, spec) \in Texts
           /\ Len(Sign(v, spec)) + Len(Decorator(spec)) + Len(DigitsOf(v, spec)) < BufLen
  <1> DEFINE length == spec.length
             d == DigitsOf(v, spec)
  <1>1. length \in DOMAIN Half /\ Half[length] \in Nat \ {0}
    BY Halves DEF NumberSpec
  <1>2. /\ 8 \in Bases /\ AreDigits(Decimal, 8, Digits)
        /\ 10 \in Bases /\ AreDigits(Decimal, 10, Digits)
        /\ 16 \in Bases /\ AreDigits(Small, 16, Range(Small)) /\ AreDigits(Capital, 16, Range(Capital))
    BY DigitSets DEF Bases
  <1>3. Seq(HexDigits) \subseteq Texts
    BY DigitsAreChars DEF Texts
  <1>4. Most(length) \in Nat
    <2>1. 2 * Half[length] - 1 \in Nat
      BY <1>1
    <2>2. Numeral(2 * Half[length] - 1, 8, Decimal) \in Seq(Digits)
      BY <1>2, <2>1, NumeralDigits
    <2>3. QED
      BY <2>2 DEF Most
  <1>5. Len(Sign(v, spec)) \in 0 .. 1 /\ Len(Decorator(spec)) \in 0 .. 2
    BY SignIs, DecoratorIs
  <1>6. CASE spec.specifier \in {"d", "i"}
    <2>1. v \in Int /\ v \in -Half[length] .. Half[length] - 1
      BY <1>6, ValueIs
    <2>2. d = SignedDigits(v)
      BY <1>6 DEF DigitsOf
    <2>3. Len(Decorator(spec)) = 0
      BY <1>6, DecoratorIs
    <2>4. Magnitude(v) \in Nat /\ Magnitude(v) <= 2 * Half[length] - 1
      BY <1>1, <2>1 DEF Magnitude
    <2>5. Len(Numeral(Magnitude(v), 8, Decimal)) <= Most(length) /\ Most(length) + 3 < BufLen
      BY <1>1, <1>2, <2>4, MostDigits
    <2>6. d \in Texts /\ Len(d) >= 1 /\ Len(d) <= Len(Numeral(Magnitude(v), 8, Decimal)) + 1
      BY <2>1, <2>2, SignedDigitsAre
    <2>7. Len(d) \in Nat /\ Len(Numeral(Magnitude(v), 8, Decimal)) \in Nat
      <3>1. Numeral(Magnitude(v), 8, Decimal) \in Seq(Digits)
        BY <1>2, <2>4, NumeralDigits
      <3>2. QED
        BY <2>6, <3>1 DEF Texts
    <2> HIDE DEF d, length
    <2>8. Len(Sign(v, spec)) + Len(Decorator(spec)) + Len(d) < BufLen
      <3>1. Len(d) <= Most(length) + 1
        BY <1>4, <2>5, <2>6, <2>7
      <3>2. QED
        BY <1>4, <1>5, <2>3, <2>5, <2>7, <3>1, Together
    <2>9. d \in Seq(Chars)
      BY <2>6, TextsAreText
    <2>10. QED
      BY <2>6, <2>8, <2>9 DEF d
  <1>7. CASE spec.specifier \in {"u", "o", "x", "X"}
    <2>1. v \in Nat /\ v <= 2 * Half[length] - 1
      <3>1. spec.specifier \notin {"d", "i"}
        BY <1>7
      <3>2. v \in 0 .. 2 * Half[length] - 1
        BY <3>1, ValueIs
      <3>3. QED
        BY <1>1, <3>2
    <2>2. /\ d \in Seq(Chars) /\ Len(d) >= 1 /\ Len(d) <= Most(length)
          /\ spec.specifier # "o" => d \in Texts
      <3>1. CASE spec.specifier = "u"
        <4>1. d = Numeral(v, 10, Decimal)
          BY <3>1 DEF DigitsOf
        <4>2. d \in Seq(Digits) /\ Len(d) >= 1
          BY <1>2, <2>1, <4>1, NumeralDigits
        <4>3. Len(d) <= Most(length)
          BY <1>1, <1>2, <2>1, <4>1, MostDigits
        <4>4. d \in Texts
          BY <1>3, <4>2, DigitsAreHex
        <4>5. QED
          BY <4>2, <4>3, <4>4, TextsAreText
      <3>2. CASE spec.specifier = "o"
        <4>1. d = OctalDigits(v)
          BY <3>2 DEF DigitsOf
        <4>2. d \in Seq(Chars) /\ Len(d) >= 1 /\ Len(d) <= Len(Numeral(v, 8, Decimal))
          BY <2>1, <4>1, OctalLength
        <4>3. Len(Numeral(v, 8, Decimal)) <= Most(length)
          BY <1>1, <1>2, <2>1, MostDigits
        <4>4. Len(d) \in Nat /\ Len(Numeral(v, 8, Decimal)) \in Nat
          <5>1. Numeral(v, 8, Decimal) \in Seq(Digits)
            BY <1>2, <2>1, NumeralDigits
          <5>2. QED
            BY <4>2, <5>1
        <4> HIDE DEF d, length
        <4>5. QED
          BY <1>4, <3>2, <4>2, <4>3, <4>4
      <3>3. CASE spec.specifier = "x"
        <4>1. d = Numeral(v, 16, Small)
          BY <3>3 DEF DigitsOf
        <4>2. d \in Seq(Range(Small)) /\ Len(d) >= 1
          BY <1>2, <2>1, <4>1, NumeralDigits
        <4>3. Len(d) <= Most(length)
          BY <1>1, <1>2, <2>1, <4>1, MostDigits
        <4>4. d \in Texts
          BY <1>3, <4>2 DEF HexDigits
        <4>5. QED
          BY <4>2, <4>3, <4>4, TextsAreText
      <3>4. CASE spec.specifier = "X"
        <4>1. d = Numeral(v, 16, Capital)
          BY <3>4 DEF DigitsOf
        <4>2. d \in Seq(Range(Capital)) /\ Len(d) >= 1
          BY <1>2, <2>1, <4>1, NumeralDigits
        <4>3. Len(d) <= Most(length)
          BY <1>1, <1>2, <2>1, <4>1, MostDigits
        <4>4. d \in Texts
          BY <1>3, <4>2 DEF HexDigits
        <4>5. QED
          BY <4>2, <4>3, <4>4, TextsAreText
      <3>5. QED
        BY <1>7, <3>1, <3>2, <3>3, <3>4
    <2>3. Most(length) + 3 < BufLen
      BY <1>1, <1>2, <2>1, MostDigits
    <2>4. Len(d) \in Nat
      BY <2>2
    <2> HIDE DEF d, length
    <2>5. Len(Sign(v, spec)) + Len(Decorator(spec)) + Len(d) < BufLen
      BY <1>4, <1>5, <2>2, <2>3, <2>4, Together
    <2>6. QED
      BY <2>2, <2>5 DEF d
  <1>8. QED
    BY <1>6, <1>7 DEF NumberSpec, Numbers

(* The parts of the text of a number.                                      *)
BodyParts(a, spec, sign, mark, zeros, digits) ==
    /\ sign = Sign(Value(a, spec), spec) /\ mark = Decorator(spec)
    /\ digits = DigitsOf(Value(a, spec), spec) /\ Len(digits) >= 1
    /\ zeros = Copies("0", spec.precision - Len(digits))
    /\ Body(a, spec) = ((sign \o mark) \o zeros) \o digits
    /\ Len(Body(a, spec)) = Len(sign) + Len(mark) + Len(zeros) + Len(digits)

LEMMA BodyIs ==
    ASSUME NEW a \in Int, NEW spec, NumberSpec(spec), NEW T,
           T = Chars \/ (T = Chars \ {NUL} /\ spec.specifier # "o")
    PROVE  /\ Body(a, spec) \in Seq(T)
           /\ \E sign, mark, zeros, digits \in Seq(T) : BodyParts(a, spec, sign, mark, zeros, digits)
  <1> DEFINE v == Value(a, spec)
             digits == DigitsOf(v, spec)
             sign == Sign(v, spec)
             mark == Decorator(spec)
             zeros == Copies("0", spec.precision - Len(digits))
  <1>1. Body(a, spec) = ((sign \o mark) \o zeros) \o digits
    BY DEF Body
  <1>2. digits \in Seq(T) /\ Len(digits) >= 1
    <2>1. /\ digits \in Seq(Chars) /\ Len(digits) >= 1
          /\ spec.specifier # "o" => digits \in Texts
      BY DigitsAre
    <2>2. QED
      BY <2>1 DEF Texts
  <1>3. sign \in Seq(T) /\ mark \in Seq(T)
    <2>1. sign \in Texts /\ mark \in Texts
      BY SignIs, DecoratorIs
    <2>2. QED
      BY <2>1, TextsAreText DEF Texts
  <1>4. zeros \in Seq(T)
    <2>1. "0" \in T
      BY SomeChars
    <2> HIDE DEF digits
    <2>2. Len(digits) \in Int /\ spec.precision \in Int
      BY <1>2 DEF NumberSpec
    <2>3. spec.precision - Len(digits) \in Int
      BY <2>2
    <2>4. QED
      BY <2>1, <2>3, CopiesOf
  <1> HIDE DEF digits, sign, mark, zeros
  <1>5. /\ ((sign \o mark) \o zeros) \o digits \in Seq(T)
        /\ Len(((sign \o mark) \o zeros) \o digits) = Len(sign) + Len(mark) + Len(zeros) + Len(digits)
    BY ONLY <1>2, <1>3, <1>4
  <1>6. QED
    <2>1. BodyParts(a, spec, sign, mark, zeros, digits) /\ Body(a, spec) \in Seq(T)
      BY <1>1, <1>2, <1>5 DEF digits, sign, mark, zeros, BodyParts
    <2>2. QED
      BY <1>2, <1>3, <1>4, <2>1

LEMMA LeftJustifiedIs ==
    ASSUME NEW T, Dagger \in T, Space \in T, NEW body \in Seq(T), Len(body) >= 1,
           NEW width \in Int, width > Len(body)
    PROVE  LeftJustified(body, width) \in Seq(T)
  <1> DEFINE n     == Len(body)
             diff  == width - n
             none  == Copies(NUL, diff)
             cells == none \o body
             moved == [k \in 1 .. width |-> IF k <= (n + 1) \div 2 THEN cells[k + diff] ELSE cells[k]]
             set   == [k \in 1 .. width |->
                         CASE k > n /\ k <= n + diff \div 2 -> Dagger
                           [] diff % 2 = 1 /\ k = n + diff \div 2 + 1 -> Space
                           [] OTHER -> moved[k]]
  <1>1. LeftJustified(body, width) = SubSeq(set, diff + 1, width)
    BY DEF LeftJustified
  <1>2. n \in Nat /\ n >= 1 /\ diff \in Nat /\ diff >= 1 /\ width = n + diff
    OBVIOUS
  <1>3. \A i \in 1 .. n : cells[diff + i] \in T
    <2> DEFINE U == T \cup {NUL}
    <2>1. none \in Seq(U) /\ Len(none) = diff
      <3>1. NUL \in U /\ diff \in Int /\ Larger(diff, 0) = diff
        BY <1>2 DEF Larger
      <3> HIDE DEF diff, U
      <3>2. QED
        BY <3>1, CopiesOf
    <2>2. body \in Seq(U)
      OBVIOUS
    <2> HIDE DEF U, none, diff
    <2>3. \A i \in 1 .. Len(body) : (none \o body)[Len(none) + i] = body[i]
      BY ONLY <2>1, <2>2, Concatenated
    <2>4. \A i \in 1 .. Len(body) : body[i] \in T
      OBVIOUS
    <2>5. QED
      BY <2>1, <2>3, <2>4
  <1> HIDE DEF cells, diff, n
  <1>4. \A k \in 1 .. width : k > diff => moved[k] \in T
    <2> SUFFICES ASSUME NEW k \in 1 .. width, k > diff PROVE moved[k] \in T
      OBVIOUS
    <2>1. CASE k <= (n + 1) \div 2
      <3>1. k \in 1 .. n
        BY <1>2, <2>1
      <3>2. moved[k] = cells[diff + k]
        BY <1>2, <2>1
      <3>3. QED
        BY <1>3, <3>1, <3>2
    <2>2. CASE ~(k <= (n + 1) \div 2)
      <3>1. k - diff \in 1 .. n /\ diff + (k - diff) = k
        BY <1>2
      <3>2. moved[k] = cells[diff + (k - diff)]
        BY <2>2, <3>1
      <3>3. QED
        BY <1>3, <3>1, <3>2
    <2>3. QED
      BY <2>1, <2>2
  <1> HIDE DEF moved
  <1>5. \A k \in 1 .. width : k > diff => set[k] \in T
    BY <1>4
  <1>6. set = [k \in 1 .. width |-> set[k]]
    OBVIOUS
  <1> HIDE DEF set
  <1>7. SubSeq(set, diff + 1, width) \in Seq(T)
    <2> DEFINE U == T \cup {set[k] : k \in 1 .. width}
    <2>1. set \in Seq(U) /\ Len(set) = width
      BY <1>2, <1>6
    <2>2. SubSeq(set, diff + 1, width) = [i \in 1 .. n |-> set[i + diff]]
      <3>1. width - (diff + 1) + 1 = n /\ \A i \in Int : i + (diff + 1) - 1 = i + diff
        BY <1>2
      <3>2. SubSeq(set, diff + 1, width)
                = [i \in 1 .. width - (diff + 1) + 1 |-> set[i + (diff + 1) - 1]]
        BY <1>2, <2>1
      <3>3. QED
        BY <3>1, <3>2
    <2>3. \A i \in 1 .. n : set[i + diff] \in T
      BY <1>2, <1>5
    <2>4. [i \in 1 .. n |-> set[i + diff]] \in Seq(T)
      BY <1>2, <2>3
    <2>5. QED
      BY <2>2, <2>4
  <1>8. QED
    BY <1>1, <1>7

LEMMA NumberTextIs ==
    ASSUME NEW a \in Int, NEW spec, NumberSpec(spec), NEW T,
           T = Chars \/ (T = Chars \ {NUL} /\ spec.specifier # "o")
    PROVE  /\ NumberText(a, spec) \in Seq(T)
           /\ spec.flags \cap {"-", "0"} = {} =>
                  NumberText(a, spec) = Copies(Space, spec.width - Len(Body(a, spec))) \o Body(a, spec)
  <1> DEFINE body == Body(a, spec)
             missing == spec.width - Len(body)
  <1>1. body \in Seq(T) /\ Len(body) >= 1
    <2>1. /\ Body(a, spec) \in Seq(T)
          /\ \E sign, mark, zeros, digits \in Seq(T) : BodyParts(a, spec, sign, mark, zeros, digits)
      BY ONLY a \in Int, NumberSpec(spec), T = Chars \/ (T = Chars \ {NUL} /\ spec.specifier # "o"),
              BodyIs
    <2>2. PICK sign, mark, zeros, digits \in Seq(T) : BodyParts(a, spec, sign, mark, zeros, digits)
      BY <2>1
    <2>3. Len(sign) \in Nat /\ Len(mark) \in Nat /\ Len(zeros) \in Nat /\ Len(digits) \in Nat
      OBVIOUS
    <2>4. /\ body \in Seq(T) /\ Len(body) = Len(sign) + Len(mark) + Len(zeros) + Len(digits)
          /\ Len(digits) >= 1
      BY <2>1, <2>2 DEF BodyParts
    <2> HIDE DEF body
    <2>5. QED
      BY <2>3, <2>4
  <1> HIDE DEF body
  <1>2. missing \in Int /\ spec.width \in Int /\ Len(body) \in Nat
    BY <1>1 DEF NumberSpec
  <1>3. "0" \in T /\ Space \in T /\ Dagger \in T
    BY SomeChars
  <1>4. Copies("0", missing) \in Seq(T) /\ Copies(Space, missing) \in Seq(T)
    <2> HIDE DEF missing
    <2>1. QED
      BY <1>2, <1>3, CopiesOf
  <1>5. Copies("0", missing) \o body \in Seq(T) /\ Copies(Space, missing) \o body \in Seq(T)
    <2> DEFINE x == Copies("0", missing)
               y == Copies(Space, missing)
    <2>1. x \in Seq(T) /\ y \in Seq(T)
      BY <1>4
    <2> HIDE DEF x, y
    <2>2. x \o body \in Seq(T) /\ y \o body \in Seq(T)
      BY ONLY <1>1, <2>1, Concatenated
    <2>3. QED
      BY <2>2 DEF x, y
  <1>6. missing > 0 => LeftJustified(body, spec.width) \in Seq(T)
    <2>1. missing > 0 => spec.width > Len(body)
      BY <1>2
    <2> HIDE DEF missing
    <2>2. QED
      BY <1>1, <1>2, <1>3, <2>1, LeftJustifiedIs
  <1>7. missing <= 0 => Copies(Space, missing) \o body = body
    <2> SUFFICES ASSUME missing <= 0 PROVE Copies(Space, missing) \o body = body
      OBVIOUS
    <2> DEFINE y == Copies(Space, missing)
    <2>1. y \in Seq(T) /\ Len(y) = 0
      <3>1. Larger(missing, 0) = 0
        BY <1>2 DEF Larger
      <3> HIDE DEF missing
      <3>2. QED
        BY <1>2, <1>3, <3>1, CopiesOf
    <2> HIDE DEF y
    <2>2. y = <<>>
      BY <2>1
    <2>3. <<>> \o body = body
      BY <1>1
    <2>4. QED
      BY <2>2, <2>3 DEF y
  <1>8. NumberText(a, spec) = Justified(body, spec)
    BY DEF NumberText, body
  <1>9. CASE missing <= 0
    <2>1. Justified(body, spec) = body
      BY <1>2, <1>9 DEF Justified
    <2>2. QED
      BY <1>1, <1>7, <1>8, <1>9, <2>1 DEF body
  <1>10. CASE ~(missing <= 0)
    <2>1. missing > 0
      BY <1>2, <1>10
    <2>2. Justified(body, spec) =
            IF "0" \in spec.flags THEN Copies("0", missing) \o body
            ELSE IF "-" \in spec.flags THEN LeftJustified(body, spec.width)
            ELSE Copies(Space, missing) \o body
      BY <2>1, <1>10 DEF Justified
    <2>3. Justified(body, spec) \in Seq(T)
      BY <1>5, <1>6, <2>1, <2>2
    <2>4. spec.flags \cap {"-", "0"} = {} => Justified(body, spec) = Copies(Space, missing) \o body
      BY <2>2
    <2>5. QED
      BY <1>8, <2>3, <2>4 DEF body
  <1>11. QED
    BY <1>9, <1>10

LEMMA WithZeros ==
    ASSUME NEW s \in 0 .. 1, NEW m \in 0 .. 2, NEW d \in Nat, NEW p \in Int, NEW z,
           z = Larger(p - d, 0), s + m + d < BufLen, ~(p + 3 >= BufLen)
    PROVE  s + m + z + d < BufLen
  BY BufLenAssumption DEF Larger

(* A number leaves the buffer of its conversion only if its width or its   *)
(* precision is as long.                                                   *)
LEMMA NumberIsIn ==
    ASSUME NEW a \in Int, NEW spec, NumberSpec(spec), ~NumberFits(a, spec)
    PROVE  spec.width >= BufLen \/ spec.precision + 3 >= BufLen
  <1> SUFFICES ASSUME ~(spec.width >= BufLen), ~(spec.precision + 3 >= BufLen) PROVE FALSE
    OBVIOUS
  <1>1. PICK sign, mark, zeros, digits \in Seq(Chars) : BodyParts(a, spec, sign, mark, zeros, digits)
    BY BodyIs
  <1>2. Len(sign) + Len(mark) + Len(digits) < BufLen
    BY <1>1, DigitsAre DEF BodyParts
  <1>3. Len(sign) \in 0 .. 1 /\ Len(mark) \in 0 .. 2 /\ Len(digits) \in Nat
    BY <1>1, SignIs, DecoratorIs DEF BodyParts
  <1>4. spec.precision \in Int /\ spec.width \in Int /\ BufLen \in Nat
    BY BufLenAssumption DEF NumberSpec
  <1>5. Len(zeros) = Larger(spec.precision - Len(digits), 0)
    <2>1. spec.precision - Len(digits) \in Int /\ "0" \in Chars
      BY <1>3, <1>4, SomeChars
    <2>2. QED
      BY <1>1, <2>1, CopiesOf DEF BodyParts
  <1>6. Len(Body(a, spec)) < BufLen
    <2>1. ~(spec.precision + 3 >= BufLen)
      OBVIOUS
    <2>2. Len(sign) + Len(mark) + Len(zeros) + Len(digits) < BufLen
      BY ONLY <1>2, <1>3, <1>4, <1>5, <2>1, WithZeros
    <2>3. QED
      BY <1>1, <2>2 DEF BodyParts
  <1>7. Larger(spec.width, Len(Body(a, spec))) < BufLen
    BY <1>4, <1>6 DEF Larger
  <1>8. QED
    BY <1>7 DEF NumberFits

LEMMA StringTextIs ==
    ASSUME NEW s \in Texts, NEW spec, spec.width \in Int, spec.precision \in Int
    PROVE  StringText(s, spec) \in Texts
  <1> DEFINE len == IF spec.precise THEN Larger(Len(s), spec.precision) ELSE Len(s)
             missing == Copies(Space, spec.width - len)
  <1>1. len \in Int
    BY DEF Larger, Texts
  <1>2. missing \in Texts
    <2>1. spec.width - len \in Int /\ Space \in Chars \ {NUL}
      BY <1>1, SomeChars
    <2> HIDE DEF len
    <2>2. QED
      BY <2>1, CopiesOf DEF Texts
  <1>3. StringText(s, spec) = IF "-" \notin spec.flags THEN missing \o s
                              ELSE IF len > Len(s) THEN s ELSE s \o missing
    BY DEF StringText
  <1> HIDE DEF missing, len
  <1>4. missing \o s \in Texts /\ s \o missing \in Texts
    BY ONLY <1>2, s \in Texts, Concatenated DEF Texts
  <1>5. QED
    BY <1>3, <1>4

LEMMA StringIsIn ==
    ASSUME NEW s \in Texts, NEW spec, spec.width \in Int, spec.precision \in Int,
           ~StringFits(s, spec)
    PROVE  \/ spec.width >= BufLen \/ spec.precision + 3 >= BufLen
           \/ spec.width < 0 /\ "-" \notin spec.flags
           \/ spec.precision < 0 \/ Len(s) >= BufLen
  BY BufLenAssumption DEF StringFits, Texts
----------------------------------------------------------------------------
(* How a specification is read.                                            *)
LEMMA SpaceIsNoOther ==
    Space \notin {"-", "+", "#", "0", "h", "l", "j", "z", "t", "L", "*", ".", "%"}
  BY DEF Space

LEMMA DigitsAreNoOther ==
    \A c \in Digits : c \notin {"-", "+", "#", Space, "h", "l", "j", "z", "t", "L", "*", ".", "%"}
  <1>1. \A k \in 1 .. 10 :
            Decimal[k] \notin {"-", "+", "#", "h", "l", "j", "z", "t", "L", "*", ".", "%"}
    BY DEF Decimal
  <1>2. \A k \in 1 .. 10 : Decimal[k] # Space
    <2>1. /\ Space # "0" /\ Space # "1" /\ Space # "2" /\ Space # "3" /\ Space # "4"
          /\ Space # "5" /\ Space # "6" /\ Space # "7" /\ Space # "8" /\ Space # "9"
      BY DEF Space
    <2>2. QED
      BY <2>1 DEF Decimal
  <1>3. QED
    BY <1>1, <1>2, DigitsAreHex

(* Which characters may come next.                                         *)
LEMMA Apart ==
    /\ \A c \in Letters : c \notin Flags \cup Digits \cup {"*", ".", "%"}
    /\ \A c \in Digits : c \notin {"*", ".", "%"} /\ (c \in Flags => c = "0")
    /\ \A c \in {"*", ".", "%"} : c \notin Flags \cup Digits \cup Letters
    /\ "*" # "." /\ "*" # "%" /\ "." # "%"
  <1>1. \A c \in Letters : c \notin {"*", ".", "%"} /\ c \notin {"-", "+", "#", "0"}
    BY DEF Letters
  <1>2. \A c \in Letters : c # Space
    BY SpaceIsNoOther DEF Letters
  <1>3. \A c \in Digits : c \notin Letters
    BY DigitsAreNoOther DEF Letters
  <1>4. \A c \in Digits : c \notin {"*", ".", "%"} /\ (c \in Flags => c = "0")
    BY DigitsAreNoOther DEF Flags
  <1>5. \A c \in {"*", ".", "%"} : c \notin {"-", "+", "#", "0"} /\ c # Space
    BY SpaceIsNoOther
  <1>6. "*" # "." /\ "*" # "%" /\ "." # "%"
    OBVIOUS
  <1>7. QED
    BY <1>1, <1>2, <1>3, <1>4, <1>5, <1>6 DEF Flags

LEMMA HeadOf ==
    ASSUME NEW T, NEW p, NEW q, p \in Seq(T), q \in Seq(T), p # <<>> \/ q # <<>>
    PROVE  /\ p \o q \in Seq(T) /\ p \o q # <<>> /\ First(p \o q) = (p \o q)[1]
           /\ (p \o q)[1] = IF p = <<>> THEN q[1] ELSE p[1]
           /\ p # <<>> => p[1] \in T /\ Tail(p) \in Seq(T) /\ Tail(p \o q) = Tail(p) \o q
  <1>1. /\ p \o q \in Seq(T) /\ Len(p \o q) = Len(p) + Len(q) /\ Len(p) \in Nat /\ Len(q) \in Nat
        /\ \A k \in 1 .. Len(p) : (p \o q)[k] = p[k]
        /\ \A k \in 1 .. Len(q) : (p \o q)[Len(p) + k] = q[k]
    BY Concatenated
  <1>2. /\ (p = <<>> <=> Len(p) = 0) /\ (q = <<>> <=> Len(q) = 0)
        /\ (Len(p) >= 1 \/ Len(q) >= 1) /\ Len(p \o q) >= 1
    <2>1. (p = <<>> <=> Len(p) = 0) /\ (q = <<>> <=> Len(q) = 0)
      OBVIOUS
    <2>2. QED
      BY <1>1, <2>1
  <1>3. p \o q # <<>>
    BY <1>1, <1>2
  <1>4. (p \o q)[1] = IF p = <<>> THEN q[1] ELSE p[1]
    BY <1>1, <1>2
  <1>5. ASSUME p # <<>> PROVE p[1] \in T /\ Tail(p) \in Seq(T) /\ Tail(p \o q) = Tail(p) \o q
    <2>1. Len(p) >= 1 /\ p[1] \in T /\ Tail(p) \in Seq(T) /\ Len(Tail(p)) = Len(p) - 1
      BY <1>1, <1>2, <1>5
    <2>2. \A k \in 1 .. Len(p) - 1 : Tail(p)[k] = p[k + 1]
      BY <2>1
    <2> DEFINE t == Tail(p)
               u == Tail(p \o q)
               w == p \o q
    <2>3. u \in Seq(T) /\ Len(u) = Len(w) - 1 /\ \A k \in 1 .. Len(w) - 1 : u[k] = w[k + 1]
      <3>1. w \in Seq(T) /\ w # <<>>
        BY <1>1, <1>3
      <3> HIDE DEF w
      <3>2. Tail(w) \in Seq(T) /\ Len(Tail(w)) = Len(w) - 1
                /\ \A k \in 1 .. Len(w) - 1 : Tail(w)[k] = w[k + 1]
        BY <3>1
      <3>3. QED
        BY <3>2 DEF w
    <2>4. /\ t \o q \in Seq(T) /\ Len(t \o q) = Len(t) + Len(q)
          /\ \A k \in 1 .. Len(t) : (t \o q)[k] = t[k]
          /\ \A k \in 1 .. Len(q) : (t \o q)[Len(t) + k] = q[k]
      <3>1. t \in Seq(T)
        BY <2>1
      <3> HIDE DEF t
      <3>2. QED
        BY ONLY <3>1, q \in Seq(T), Concatenated
    <2>5. \A k \in 1 .. Len(w) - 1 : u[k] = (t \o q)[k]
      <3> SUFFICES ASSUME NEW k \in 1 .. Len(w) - 1 PROVE u[k] = (t \o q)[k]
        OBVIOUS
      <3>1. u[k] = w[k + 1]
        BY <2>3
      <3>2. Len(t) = Len(p) - 1 /\ Len(w) = Len(p) + Len(q)
        BY <1>1, <2>1
      <3>3. CASE k <= Len(p) - 1
        <4>1. k + 1 \in 1 .. Len(p) /\ k \in 1 .. Len(p) - 1 /\ k \in 1 .. Len(t)
          BY <1>1, <3>2, <3>3
        <4>2. w[k + 1] = p[k + 1] /\ t[k] = p[k + 1] /\ (t \o q)[k] = t[k]
          BY <1>1, <2>2, <2>4, <4>1
        <4>3. QED
          BY <3>1, <4>2
      <3>4. CASE ~(k <= Len(p) - 1)
        <4> DEFINE j == k + 1 - Len(p)
        <4>1. j \in 1 .. Len(q) /\ k + 1 = Len(p) + j /\ k = Len(t) + j
          <5>1. k \in 1 .. Len(w) - 1
            OBVIOUS
          <5> HIDE DEF t, w
          <5>2. QED
            BY ONLY <1>1, <3>2, <3>4, <5>1
        <4> HIDE DEF j
        <4>2. w[Len(p) + j] = q[j] /\ (t \o q)[Len(t) + j] = q[j]
          BY <1>1, <2>4, <4>1
        <4>3. QED
          BY <3>1, <4>1, <4>2
      <3>5. QED
        BY <3>3, <3>4
    <2>6. Len(u) = Len(t \o q)
      BY <1>1, <2>1, <2>3, <2>4
    <2>7. u = t \o q
      <3> DEFINE x == t \o q
      <3>1. x \in Seq(T) /\ Len(u) = Len(x) /\ u \in Seq(T) /\ \A k \in 1 .. Len(u) : u[k] = x[k]
        BY <2>3, <2>4, <2>5, <2>6
      <3> HIDE DEF x, u
      <3>2. u = x
        BY ONLY <3>1, SameText
      <3>3. QED
        BY <3>2 DEF x
    <2>8. QED
      BY <2>1, <2>7
  <1>6. QED
    BY <1>1, <1>3, <1>4, <1>5 DEF First

LEMMA FieldIs ==
    ASSUME NEW w, IsField(w), NEW q, q \in Seq(Chars), q # <<>>, q[1] \notin Digits \cup {"*"}, NEW a
    PROVE  Field(w \o q, a) =
               IF w = <<"*">>
               THEN [value |-> AsSigned(a[1], NoLength), fmt |-> q, args |-> Tail(a)]
               ELSE [value |-> Number(w), fmt |-> q, args |-> a]
  <1> DEFINE s == w \o q
  <1>1. CASE w = <<"*">>
    <2>1. w \in Seq(Chars) /\ w # <<>> /\ w[1] = "*"
      BY <1>1, CharsAssumption DEF Marks
    <2>2. First(s) = "*" /\ Tail(s) = Tail(w) \o q
      BY <2>1, HeadOf
    <2>3. Tail(w) = <<>> /\ <<>> \o q = q
      BY <1>1
    <2> HIDE DEF s
    <2>4. Field(s, a) = [value |-> AsSigned(a[1], NoLength), fmt |-> q, args |-> Tail(a)]
      BY <2>2, <2>3 DEF Field
    <2>5. QED
      BY <1>1, <2>4 DEF s
  <1>2. CASE w # <<"*">>
    <2>1. w \in Seq(Digits)
      BY <1>2 DEF IsField
    <2>2. w \in Seq(Chars) /\ \A k \in 1 .. Len(w) : w[k] \in Digits
      BY <2>1, DigitsAreHex, DigitsAreChars
    <2>3. First(s) # "*"
      <3>1. First(s) = IF w = <<>> THEN q[1] ELSE w[1]
        BY <2>2, HeadOf
      <3>2. w # <<>> => w[1] \in Digits
        BY <2>1, HeadOf
      <3>3. QED
        BY <3>1, <3>2, Apart
    <2>4. Leading(s, Digits) = w
      <3>1. q[1] \notin Digits
        OBVIOUS
      <3>2. QED
        BY <2>2, <3>1, LeadingStops
    <2>5. After(s, w) = q
      BY <2>2, AfterPart
    <2> HIDE DEF s
    <2>6. Field(s, a) = [value |-> Number(w), fmt |-> q, args |-> a]
      BY <2>3, <2>4, <2>5 DEF Field
    <2>7. QED
      BY <1>2, <2>6 DEF s
  <1>3. QED
    BY <1>1, <1>2

SpecItem(item) ==
    /\ item.kind = "spec"
    /\ item.flags \in Seq(Flags)
    /\ IsField(item.width) /\ First(item.width) # "0"
    /\ item.precision \in Seq(Chars)
    /\ item.precision = <<>> \/ (First(item.precision) = "." /\ IsField(Tail(item.precision)))
    /\ item.length \in Lengths \cup {NoLength, LongDouble}
    /\ item.specifier \in Chars \ (Flags \cup Digits \cup Letters \cup {"*", ".", "%", NUL})
    /\ item.stars \in Seq(-Half[NoLength] .. Half[NoLength] - 1)
    /\ Len(item.stars) = StarsIn(item)

LEMMA WellFormedItem ==
    ASSUME NEW item, WellFormed(item)
    PROVE  \/ item.kind = "text" /\ item.chars \in Texts
           \/ SpecItem(item)
  BY DEF WellFormed, SpecItem, Texts

(* The parts of a specification, with what is left of the format after     *)
(* each of them.                                                           *)
AfterSpec(item, rest)      == <<item.specifier>> \o rest
AfterPrecision(item, rest) == item.length \o AfterSpec(item, rest)
AfterWidth(item, rest)     == item.precision \o AfterPrecision(item, rest)
AfterFlags(item, rest)     == item.width \o AfterWidth(item, rest)

LEMMA FieldText ==
    ASSUME NEW w, IsField(w)
    PROVE  w \in Seq(Chars) /\ (w # <<>> => w[1] \in Digits \cup {"*"} /\ First(w) = w[1])
  <1>1. CASE w = <<"*">>
    <2>1. w \in Seq(Chars) /\ w[1] = "*"
      BY <1>1, CharsAssumption DEF Marks
    <2>2. QED
      BY <2>1 DEF First
  <1>2. CASE w \in Seq(Digits)
    <2>1. w \in Seq(Chars)
      BY <1>2, DigitsAreHex, DigitsAreChars
    <2>2. w # <<>> => w[1] \in Digits
      BY <1>2
    <2>3. QED
      BY <2>1, <2>2 DEF First
  <1>3. QED
    BY <1>1, <1>2 DEF IsField

LEMMA PrecisionText ==
    ASSUME NEW p, p \in Seq(Chars), First(p) = ".", p # <<>>
    PROVE  p[1] = "." /\ Tail(p) \in Seq(Chars)
  BY DEF First

LEMMA LengthText ==
    ASSUME NEW length \in Lengths \cup {NoLength, LongDouble}
    PROVE  /\ length \in Seq(Letters) /\ length \in Seq(Chars)
           /\ length # <<>> => length[1] \in Letters
  <1>1. \/ length = <<>> \/ length = <<"h">> \/ length = <<"l">> \/ length = <<"j">>
        \/ length = <<"z">> \/ length = <<"t">> \/ length = <<"L">>
        \/ length = <<"h", "h">> \/ length = <<"l", "l">>
    BY DEF Lengths, NoLength, LongDouble
  <1>2. length \in Seq(Letters)
    <2>1. \A c \in Letters : <<c>> \in Seq(Letters) /\ <<c, c>> \in Seq(Letters)
      OBVIOUS
    <2>2. <<>> \in Seq(Letters)
      OBVIOUS
    <2>3. /\ "h" \in Letters /\ "l" \in Letters /\ "j" \in Letters
          /\ "z" \in Letters /\ "t" \in Letters /\ "L" \in Letters
      BY DEF Letters
    <2>4. QED
      BY ONLY <1>1, <2>1, <2>2, <2>3
  <1>3. Letters \subseteq Chars
    BY CharsAssumption DEF Marks
  <1>4. QED
    BY <1>2, <1>3

(* The length that is read is the one that is written.                     *)
LEMMA LengthIs ==
    ASSUME NEW length \in Lengths \cup {NoLength, LongDouble}, NEW q, q \in Seq(Chars), q # <<>>,
           q[1] \notin Letters
    PROVE  Length(length \o q) = length
  <1> DEFINE s == length \o q
  <1>1. length \in Seq(Chars)
    BY LengthText
  <1>2. s \in Seq(Chars) /\ Len(s) = Len(length) + Len(q) /\ Len(q) >= 1
        /\ (\A k \in 1 .. Len(length) : s[k] = length[k]) /\ s[Len(length) + 1] = q[1]
    <2>1. Len(q) >= 1
      OBVIOUS
    <2>2. QED
      BY <1>1, <2>1, Concatenated
  <1> HIDE DEF s
  <1> DEFINE two == IF Len(s) > 1 THEN SubSeq(s, 1, 2) ELSE s
  <1>3. /\ Len(s) > 1 => two \in Seq(Chars) /\ Len(two) = 2 /\ two[1] = s[1] /\ two[2] = s[2]
        /\ ~(Len(s) > 1) => two = s /\ Len(two) = 1
    BY <1>2
  <1>4. First(s) = s[1]
    BY <1>2 DEF First
  <1>5. Length(s) = IF two \in {<<"h", "h">>, <<"l", "l">>} THEN two
                    ELSE IF First(s) \in {"h", "l", "j", "z", "t", "L"} THEN <<First(s)>> ELSE NoLength
    BY DEF Length
  <1> HIDE DEF two
  <1>6. CASE length = <<"h", "h">> \/ length = <<"l", "l">>
    <2>1. Len(length) = 2 /\ s[1] = length[1] /\ s[2] = length[2] /\ Len(s) > 1
      BY <1>2, <1>6
    <2>2. two = length
      BY <1>1, <1>3, <2>1, SameText
    <2>3. QED
      BY <1>5, <1>6, <2>2 DEF s
  <1>7. ASSUME NEW c \in Letters, length = <<c>> PROVE Length(s) = length
    <2>1. Len(length) = 1 /\ s[1] = c /\ s[2] = q[1] /\ Len(s) > 1
      BY <1>2, <1>7
    <2>2. two # <<"h", "h">> /\ two # <<"l", "l">>
      <3>1. two[2] # "h" /\ two[2] # "l"
        BY <1>3, <2>1 DEF Letters
      <3>2. QED
        BY <3>1
    <2>3. First(s) = c
      BY <1>4, <2>1
    <2>4. QED
      BY <1>5, <1>7, <2>2, <2>3 DEF Letters
  <1>8. CASE length = <<>>
    <2>1. Len(length) = 0 /\ s[1] = q[1]
      BY <1>2, <1>8
    <2>2. two[1] = q[1]
      BY <1>3, <2>1
    <2>3. two # <<"h", "h">> /\ two # <<"l", "l">>
      <3>1. two[1] # "h" /\ two[1] # "l"
        BY <2>2 DEF Letters
      <3>2. QED
        BY <3>1
    <2>4. First(s) \notin Letters
      BY <1>4, <2>1
    <2>5. First(s) \notin {"h", "l", "j", "z", "t", "L"}
      BY <2>4 DEF Letters
    <2>6. Length(s) = <<>>
      BY ONLY <1>5, <2>3, <2>5 DEF NoLength
    <2>7. QED
      BY <1>8, <2>6 DEF s
  <1>9. \/ length = <<>> \/ length = <<"h">> \/ length = <<"l">> \/ length = <<"j">>
        \/ length = <<"z">> \/ length = <<"t">> \/ length = <<"L">>
        \/ length = <<"h", "h">> \/ length = <<"l", "l">>
    BY DEF Lengths, NoLength, LongDouble
  <1>10. {"h", "l", "j", "z", "t", "L"} = Letters
    BY DEF Letters
  <1>11. (\E c \in Letters : length = <<c>>) => Length(s) = length
    BY <1>7
  <1>12. QED
    BY <1>6, <1>8, <1>9, <1>10, <1>11 DEF s

LEMMA Remains ==
    ASSUME NEW item, SpecItem(item), NEW rest, rest \in Seq(Chars),
           NEW q1, NEW q2, NEW q3, NEW q4,
           q1 = AfterFlags(item, rest), q2 = AfterWidth(item, rest),
           q3 = AfterPrecision(item, rest), q4 = AfterSpec(item, rest)
    PROVE  /\ q4 \in Seq(Chars) /\ q4 # <<>> /\ q4[1] \notin Letters /\ q4[1] = item.specifier
           /\ First(q4) = item.specifier /\ SubSeq(q4, 2, Len(q4)) = rest
           /\ q3 \in Seq(Chars) /\ q3 # <<>> /\ q3[1] \notin Digits \cup {"*"}
           /\ q2 \in Seq(Chars) /\ q2 # <<>> /\ q2[1] \notin Digits \cup {"*"}
           /\ item.precision = <<>> => First(q2) # "."
           /\ item.precision # <<>> => First(q2) = "." /\ Tail(q2) = Tail(item.precision) \o q3
           /\ q1 \in Seq(Chars) /\ q1 # <<>> /\ q1[1] \notin Flags
           /\ item.flags \in Seq(Chars) /\ \A k \in 1 .. Len(item.flags) : item.flags[k] \in Flags
           /\ item.flags \o q1 \in Seq(Chars) /\ First(item.flags \o q1) # "%"
  <1> DEFINE sp == item.specifier
  <1>1. /\ sp \in Chars
        /\ sp \notin Flags \cup Digits \cup Letters \cup {"*", ".", "%", NUL}
    BY DEF SpecItem
  <1>2. /\ q4 \in Seq(Chars) /\ q4 # <<>> /\ q4[1] = sp /\ First(q4) = sp
        /\ SubSeq(q4, 2, Len(q4)) = rest
    <2>1. <<sp>> \in Seq(Chars) /\ Len(<<sp>>) = 1 /\ <<sp>>[1] = sp /\ <<sp>> # <<>>
      BY <1>1
    <2> DEFINE t == <<sp>>
    <2>2. q4 = t \o rest
      BY DEF AfterSpec
    <2> HIDE DEF t
    <2>3. After(t \o rest, t) = rest
      BY <2>1, AfterPart DEF t
    <2>4. q4 \in Seq(Chars) /\ Len(q4) = Len(t) + Len(rest) /\ q4[1] = t[1] /\ Len(t) = 1
      BY <2>1, <2>2, Concatenated DEF t
    <2>5. q4 # <<>>
      BY <2>4
    <2>6. SubSeq(q4, 2, Len(q4)) = rest
      BY <2>2, <2>3, <2>4 DEF After
    <2>7. QED
      BY <2>1, <2>4, <2>5, <2>6 DEF First, t
  <1>3. q3 \in Seq(Chars) /\ q3 # <<>> /\ q3[1] \in Letters \cup {sp}
    <2>1. item.length \in Seq(Chars) /\ (item.length # <<>> => item.length[1] \in Letters)
      BY LengthText DEF SpecItem
    <2>2. q3 = item.length \o q4
      BY DEF AfterPrecision
    <2>3. QED
      BY <1>2, <2>1, <2>2, HeadOf
  <1>4. /\ q2 \in Seq(Chars) /\ q2 # <<>> /\ q2[1] \in {"."} \cup Letters \cup {sp}
        /\ item.precision = <<>> => First(q2) # "."
        /\ item.precision # <<>> => First(q2) = "." /\ Tail(q2) = Tail(item.precision) \o q3
    <2>1. /\ item.precision \in Seq(Chars)
          /\ item.precision # <<>> => First(item.precision) = "."
      BY DEF SpecItem
    <2>2. q2 = item.precision \o q3
      BY DEF AfterWidth
    <2>3. item.precision # <<>> => item.precision[1] = "."
      BY <2>1, PrecisionText
    <2>4. /\ q2 \in Seq(Chars) /\ q2 # <<>> /\ First(q2) = q2[1]
          /\ q2[1] = IF item.precision = <<>> THEN q3[1] ELSE item.precision[1]
          /\ item.precision # <<>> => Tail(q2) = Tail(item.precision) \o q3
      <3> DEFINE p == item.precision
      <3>1. p \in Seq(Chars) /\ q3 \in Seq(Chars) /\ q3 # <<>> /\ q2 = p \o q3
        BY <1>3, <2>1, <2>2
      <3> HIDE DEF p
      <3>2. /\ q2 \in Seq(Chars) /\ q2 # <<>> /\ First(q2) = q2[1]
            /\ q2[1] = IF p = <<>> THEN q3[1] ELSE p[1]
            /\ p # <<>> => Tail(q2) = Tail(p) \o q3
        BY ONLY <3>1, HeadOf
      <3>3. QED
        BY <3>2 DEF p
    <2>5. "." \notin Letters \cup {sp}
      BY <1>1, Apart
    <2>6. QED
      BY <1>3, <2>3, <2>4, <2>5
  <1>5. q1 \in Seq(Chars) /\ q1 # <<>> /\ q1[1] \notin Flags /\ q1[1] # "%"
    <2>1. /\ item.width \in Seq(Chars)
          /\ item.width # <<>> => item.width[1] \in Digits \cup {"*"} /\ First(item.width) = item.width[1]
      BY FieldText DEF SpecItem
    <2>2. First(item.width) # "0"
      BY DEF SpecItem
    <2>3. q1 = item.width \o q2
      BY DEF AfterFlags
    <2>4. /\ q1 \in Seq(Chars) /\ q1 # <<>>
          /\ q1[1] = IF item.width = <<>> THEN q2[1] ELSE item.width[1]
      BY <1>4, <2>1, <2>3, HeadOf
    <2>5. CASE item.width = <<>>
      BY <1>1, <1>4, <2>4, <2>5, Apart
    <2>6. CASE item.width # <<>>
      BY <2>1, <2>2, <2>4, <2>6, Apart
    <2>7. QED
      BY <2>4, <2>5, <2>6
  <1>6. item.flags \in Seq(Chars) /\ \A k \in 1 .. Len(item.flags) : item.flags[k] \in Flags
    BY DigitsAreChars DEF SpecItem
  <1>7. item.flags \o q1 \in Seq(Chars) /\ First(item.flags \o q1) # "%"
    <2>1. /\ item.flags \o q1 \in Seq(Chars)
          /\ First(item.flags \o q1) = IF item.flags = <<>> THEN q1[1] ELSE item.flags[1]
      BY <1>5, <1>6, HeadOf
    <2>2. item.flags # <<>> => item.flags[1] \in Flags
      BY DEF SpecItem
    <2>3. QED
      BY <1>5, <2>1, <2>2, Apart
  <1>8. q3[1] \notin Digits \cup {"*"} /\ q2[1] \notin Digits \cup {"*"}
    BY <1>1, <1>3, <1>4, Apart
  <1>9. QED
    BY <1>1, <1>2, <1>3, <1>4, <1>5, <1>6, <1>7, <1>8

Group(h, f, w, p, l, c, r) ==
    /\ ((((h \o f) \o w) \o p) \o l) \o c \in Seq(Chars)
    /\ ((((h \o f) \o w) \o p) \o l) \o c # <<>>
    /\ (((((h \o f) \o w) \o p) \o l) \o c) \o r = h \o (f \o (w \o (p \o (l \o (c \o r)))))

LEMMA Regrouped ==
    ASSUME NEW h, NEW f, NEW w, NEW p, NEW l, NEW c, NEW r, h \in Seq(Chars), f \in Seq(Chars),
           w \in Seq(Chars), p \in Seq(Chars), l \in Seq(Chars), c \in Seq(Chars), r \in Seq(Chars), Len(h) = 1
    PROVE  Group(h, f, w, p, l, c, r)
  <1> DEFINE x1 == h \o f
             x2 == x1 \o w
             x3 == x2 \o p
             x4 == x3 \o l
             x5 == x4 \o c
             y1 == c \o r
             y2 == l \o y1
             y3 == p \o y2
             y4 == w \o y3
             y5 == f \o y4
  <1>1. x1 \in Seq(Chars) /\ Len(x1) = Len(h) + Len(f)
    BY ONLY h \in Seq(Chars), f \in Seq(Chars)
  <1>2. x2 \in Seq(Chars) /\ Len(x2) = Len(x1) + Len(w)
    <2> HIDE DEF x1
    <2>1. QED
      BY ONLY <1>1, w \in Seq(Chars)
  <1>3. x3 \in Seq(Chars) /\ Len(x3) = Len(x2) + Len(p)
    <2> HIDE DEF x2
    <2>1. QED
      BY ONLY <1>2, p \in Seq(Chars)
  <1>4. x4 \in Seq(Chars) /\ Len(x4) = Len(x3) + Len(l)
    <2> HIDE DEF x3
    <2>1. QED
      BY ONLY <1>3, l \in Seq(Chars)
  <1>5. x5 \in Seq(Chars) /\ Len(x5) = Len(x4) + Len(c)
    <2> HIDE DEF x4
    <2>1. QED
      BY ONLY <1>4, c \in Seq(Chars)
  <1>6. y1 \in Seq(Chars) /\ Len(y1) = Len(c) + Len(r)
    BY ONLY c \in Seq(Chars), r \in Seq(Chars)
  <1>7. y2 \in Seq(Chars) /\ Len(y2) = Len(l) + Len(y1)
    <2> HIDE DEF y1
    <2>1. QED
      BY ONLY l \in Seq(Chars), <1>6
  <1>8. y3 \in Seq(Chars) /\ Len(y3) = Len(p) + Len(y2)
    <2> HIDE DEF y2
    <2>1. QED
      BY ONLY p \in Seq(Chars), <1>7
  <1>9. y4 \in Seq(Chars) /\ Len(y4) = Len(w) + Len(y3)
    <2> HIDE DEF y3
    <2>1. QED
      BY ONLY w \in Seq(Chars), <1>8
  <1>10. y5 \in Seq(Chars) /\ Len(y5) = Len(f) + Len(y4)
    <2> HIDE DEF y4
    <2>1. QED
      BY ONLY f \in Seq(Chars), <1>9
  <1>11. x5 \o r = x4 \o y1
    <2> HIDE DEF x4
    <2>1. Regroups(x4, c, r)
      BY ONLY <1>4, c \in Seq(Chars), r \in Seq(Chars), Regrouping
    <2>2. QED
      BY <2>1 DEF Regroups
  <1>12. x4 \o y1 = x3 \o y2
    <2> HIDE DEF x3, y1
    <2>1. Regroups(x3, l, y1)
      BY ONLY <1>3, l \in Seq(Chars), <1>6, Regrouping
    <2>2. QED
      BY <2>1 DEF Regroups
  <1>13. x3 \o y2 = x2 \o y3
    <2> HIDE DEF x2, y2
    <2>1. Regroups(x2, p, y2)
      BY ONLY <1>2, p \in Seq(Chars), <1>7, Regrouping
    <2>2. QED
      BY <2>1 DEF Regroups
  <1>14. x2 \o y3 = x1 \o y4
    <2> HIDE DEF x1, y3
    <2>1. Regroups(x1, w, y3)
      BY ONLY <1>1, w \in Seq(Chars), <1>8, Regrouping
    <2>2. QED
      BY <2>1 DEF Regroups
  <1>15. x1 \o y4 = h \o y5
    <2> HIDE DEF y4
    <2>1. Regroups(h, f, y4)
      BY ONLY h \in Seq(Chars), f \in Seq(Chars), <1>9, Regrouping
    <2>2. QED
      BY <2>1 DEF Regroups
  <1>16. x5 # <<>>
    <2>1. Len(f) \in Nat /\ Len(w) \in Nat /\ Len(p) \in Nat /\ Len(l) \in Nat /\ Len(c) \in Nat
      OBVIOUS
    <2> HIDE DEF x1, x2, x3, x4, x5
    <2>2. Len(x5) >= 1
      BY ONLY <1>1, <1>2, <1>3, <1>4, <1>5, <2>1, Len(h) = 1
    <2>3. QED
      BY <2>2
  <1>17. x5 \o r = h \o y5
    <2> HIDE DEF x1, x2, x3, x4, x5, y1, y2, y3, y4, y5
    <2>1. QED
      BY ONLY <1>11, <1>12, <1>13, <1>14, <1>15
  <1>18. QED
    BY <1>5, <1>16, <1>17 DEF Group

LEMMA FormatIs ==
    ASSUME NEW item, SpecItem(item), NEW rest, rest \in Seq(Chars)
    PROVE  /\ FormatOf(item) \in Seq(Chars) /\ FormatOf(item) # <<>>
           /\ FormatOf(item) \o rest = <<"%">> \o (item.flags \o AfterFlags(item, rest))
  <1> DEFINE h == <<"%">>
             f == item.flags
             w == item.width
             p == item.precision
             l == item.length
             c == <<item.specifier>>
  <1>1. /\ h \in Seq(Chars) /\ f \in Seq(Chars) /\ w \in Seq(Chars) /\ p \in Seq(Chars)
        /\ l \in Seq(Chars) /\ c \in Seq(Chars) /\ Len(h) = 1
    <2>1. h \in Seq(Chars) /\ Len(h) = 1
      BY CharsAssumption DEF Marks
    <2>2. f \in Seq(Chars) /\ p \in Seq(Chars) /\ c \in Seq(Chars)
      BY DigitsAreChars DEF SpecItem
    <2>3. w \in Seq(Chars)
      BY FieldText DEF SpecItem
    <2>4. l \in Seq(Chars)
      BY LengthText DEF SpecItem
    <2>5. QED
      BY <2>1, <2>2, <2>3, <2>4
  <1>2. FormatOf(item) = ((((h \o f) \o w) \o p) \o l) \o c
    BY DEF FormatOf, SpecItem
  <1>3. AfterFlags(item, rest) = w \o (p \o (l \o (c \o rest)))
    BY DEF AfterFlags, AfterWidth, AfterPrecision, AfterSpec
  <1> HIDE DEF h, f, w, p, l, c
  <1>4. Group(h, f, w, p, l, c, rest)
    BY ONLY <1>1, rest \in Seq(Chars), Regrouped
  <1>5. QED
    BY <1>2, <1>3, <1>4 DEF h, f, Group

LEMMA TakeOne ==
    ASSUME NEW V, NEW x \in V, NEW r, r \in Seq(V)
    PROVE  /\ <<x>> \o r \in Seq(V) /\ (<<x>> \o r)[1] = x /\ Tail(<<x>> \o r) = r
  <1> DEFINE t == <<x>>
             s == t \o r
  <1>1. t \in Seq(V) /\ Len(t) = 1 /\ t[1] = x
    OBVIOUS
  <1> HIDE DEF t
  <1>2. s \in Seq(V) /\ Len(s) = 1 + Len(r) /\ s[1] = x /\ Len(r) \in Nat
        /\ \A k \in 1 .. Len(r) : s[1 + k] = r[k]
    <2>1. /\ s \in Seq(V) /\ Len(s) = Len(t) + Len(r)
          /\ \A k \in 1 .. Len(t) : s[k] = t[k]
          /\ \A k \in 1 .. Len(r) : s[Len(t) + k] = r[k]
      <3>1. t \in Seq(V) /\ r \in Seq(V)
        BY <1>1
      <3>2. QED
        BY ONLY <3>1, Concatenated
    <2> HIDE DEF s
    <2>2. 1 \in 1 .. Len(t) /\ Len(r) \in Nat
      BY <1>1
    <2>3. QED
      BY <1>1, <2>1, <2>2
  <1> HIDE DEF s
  <1>3. /\ Tail(s) \in Seq(V) /\ Len(Tail(s)) = Len(r)
        /\ \A k \in 1 .. Len(r) : Tail(s)[k] = s[k + 1]
    BY <1>2
  <1>4. \A k \in 1 .. Len(r) : Tail(s)[k] = r[k]
    BY <1>2, <1>3
  <1> DEFINE u == Tail(s)
  <1>5. u \in Seq(V) /\ Len(u) = Len(r) /\ \A k \in 1 .. Len(u) : u[k] = r[k]
    BY <1>3, <1>4
  <1> HIDE DEF u
  <1>6. u = r
    BY ONLY <1>5, r \in Seq(V), SameText
  <1>7. QED
    BY <1>2, <1>6 DEF s, t, u

LEMMA TakeTwo ==
    ASSUME NEW V, NEW x \in V, NEW y \in V, NEW r, r \in Seq(V)
    PROVE  /\ (<<x, y>> \o r)[1] = x
           /\ Tail(<<x, y>> \o r) = <<y>> \o r
  <1>1. <<x, y>> = <<x>> \o <<y>>
    <2> DEFINE s == <<x>>
               t == <<y>>
               w == <<x, y>>
    <2>1. /\ s \in Seq(V) /\ t \in Seq(V) /\ w \in Seq(V) /\ Len(s) = 1 /\ Len(t) = 1 /\ Len(w) = 2
          /\ s[1] = x /\ t[1] = y /\ w[1] = x /\ w[2] = y
      OBVIOUS
    <2> HIDE DEF s, t, w
    <2>2. /\ s \o t \in Seq(V) /\ Len(s \o t) = 2
          /\ (s \o t)[1] = x /\ (s \o t)[2] = y
      <3>0. s \in Seq(V) /\ t \in Seq(V)
        BY <2>1
      <3>1. /\ s \o t \in Seq(V) /\ Len(s \o t) = Len(s) + Len(t)
            /\ \A k \in 1 .. Len(s) : (s \o t)[k] = s[k]
            /\ \A k \in 1 .. Len(t) : (s \o t)[Len(s) + k] = t[k]
        BY ONLY <3>0, Concatenated
      <3>2. 1 \in 1 .. 1 /\ 1 + 1 = 2
        OBVIOUS
      <3>3. /\ \A k \in 1 .. 1 : (s \o t)[k] = s[k]
            /\ \A k \in 1 .. 1 : (s \o t)[1 + k] = t[k]
        BY <2>1, <3>1
      <3>4. (s \o t)[1] = s[1] /\ (s \o t)[2] = t[1]
        BY ONLY <3>2, <3>3
      <3>5. QED
        BY <2>1, <3>1, <3>4
    <2>3. \A k \in 1 .. 2 : k = 1 \/ k = 2
      OBVIOUS
    <2> DEFINE z == s \o t
    <2>4. z \in Seq(V) /\ Len(z) = Len(w) /\ \A k \in 1 .. Len(z) : z[k] = w[k]
      BY <2>1, <2>2, <2>3
    <2> HIDE DEF z
    <2>5. z = w
      BY <2>1, <2>4, SameText
    <2>6. QED
      BY <2>5 DEF s, t, w, z
  <1>2. (<<x>> \o <<y>>) \o r = <<x>> \o (<<y>> \o r)
    <2> DEFINE s == <<x>>
               t == <<y>>
    <2>1. s \in Seq(V) /\ t \in Seq(V)
      OBVIOUS
    <2> HIDE DEF s, t
    <2>2. (s \o t) \o r = s \o (t \o r)
      <3>1. Regroups(s, t, r)
        BY ONLY <2>1, r \in Seq(V), Regrouping
      <3>2. QED
        BY ONLY <3>1 DEF Regroups
    <2>3. QED
      BY <2>2 DEF s, t
  <1> DEFINE u == <<y>> \o r
  <1>3. u \in Seq(V)
    BY TakeOne
  <1> HIDE DEF u
  <1>4. (<<x>> \o u)[1] = x /\ Tail(<<x>> \o u) = u
    BY <1>3, TakeOne
  <1>5. <<x, y>> \o r = <<x>> \o u
    BY <1>1, <1>2 DEF u
  <1>6. QED
    BY <1>4, <1>5 DEF u

WidthStar(item)     == item.width = <<"*">>
PrecisionStar(item) == item.precision = <<".", "*">>
LastStar(item)      == item.stars[Len(item.stars)]

StarsAre(item, a, b, r) ==
    /\ WidthStar(item) => AsSigned(a[1], NoLength) = item.stars[1] /\ item.stars[1] \in Int
    /\ PrecisionStar(item) => AsSigned(b[1], NoLength) = LastStar(item) /\ LastStar(item) \in Int
    /\ r = IF PrecisionStar(item) THEN Tail(b) ELSE b

LEMMA StarsTaken ==
    ASSUME NEW item, SpecItem(item), NEW V, Int \subseteq V, NEW r, r \in Seq(V),
           NEW a, a = item.stars \o r, NEW b, b = IF WidthStar(item) THEN Tail(a) ELSE a
    PROVE  StarsAre(item, a, b, r)
  <1> USE DEF StarsAre
  <1> DEFINE t == item.stars
             H == Half[NoLength]
             S == -H .. H - 1
  <1>1. t \in Seq(S) /\ H \in Nat
    BY Halves DEF SpecItem
  <1>2. \A x \in S : x \in Int /\ x \in V /\ AsSigned(x, NoLength) = x
    <2>1. \A x \in S : AsSigned(x, NoLength) = x
      BY Halves, SignedFits
    <2>2. QED
      BY <1>1, <2>1
  <1>3. Len(t) = (IF WidthStar(item) THEN 1 ELSE 0) + (IF PrecisionStar(item) THEN 1 ELSE 0)
    BY DEF SpecItem, StarsIn, WidthStar, PrecisionStar
  <1>9. /\ Len(t) = 0 => ~WidthStar(item) /\ ~PrecisionStar(item)
        /\ Len(t) = 1 => \/ WidthStar(item) /\ ~PrecisionStar(item)
                         \/ ~WidthStar(item) /\ PrecisionStar(item)
        /\ Len(t) = 2 => WidthStar(item) /\ PrecisionStar(item)
    <2>1. CASE WidthStar(item) /\ PrecisionStar(item)
      BY <1>3, <2>1
    <2>2. CASE WidthStar(item) /\ ~PrecisionStar(item)
      BY <1>3, <2>2
    <2>3. CASE ~WidthStar(item) /\ PrecisionStar(item)
      BY <1>3, <2>3
    <2>4. CASE ~WidthStar(item) /\ ~PrecisionStar(item)
      BY <1>3, <2>4
    <2>5. QED
      BY <2>1, <2>2, <2>3, <2>4
  <1> HIDE DEF S
  <1>4. CASE Len(t) = 0
    <2>1. ~WidthStar(item) /\ ~PrecisionStar(item)
      BY <1>3, <1>4
    <2>2. t = <<>>
      BY <1>1, <1>4
    <2>3. a = r
      BY <2>2
    <2>4. QED
      BY <2>1, <2>3
  <1>5. CASE Len(t) = 1
    <2> DEFINE x == t[1]
    <2>1. x \in S /\ t = <<x>>
      BY <1>1, <1>5
    <2>2. a = <<x>> \o r
      BY <2>1
    <2>3. x \in Int /\ x \in V /\ AsSigned(x, NoLength) = x /\ LastStar(item) = x
      BY <1>2, <1>5, <2>1 DEF LastStar
    <2>4. a[1] = x /\ Tail(a) = r
      <3> HIDE DEF x
      <3>1. QED
        BY <2>2, <2>3, TakeOne
    <2>5. \/ WidthStar(item) /\ ~PrecisionStar(item)
          \/ ~WidthStar(item) /\ PrecisionStar(item)
      BY <1>5, <1>9
    <2>6. QED
      BY <2>3, <2>4, <2>5
  <1>6. CASE Len(t) = 2
    <2> DEFINE x == t[1]
               y == t[2]
    <2>1. x \in S /\ y \in S /\ t = <<x, y>>
      BY <1>1, <1>6
    <2>2. a = <<x, y>> \o r
      BY <2>1
    <2>3. /\ x \in Int /\ x \in V /\ AsSigned(x, NoLength) = x
          /\ y \in Int /\ y \in V /\ AsSigned(y, NoLength) = y /\ LastStar(item) = y
      BY <1>2, <1>6, <2>1 DEF LastStar
    <2>4. a[1] = x /\ Tail(a) = <<y>> \o r /\ (<<y>> \o r)[1] = y /\ Tail(<<y>> \o r) = r
      <3> HIDE DEF x, y
      <3>1. a[1] = x /\ Tail(a) = <<y>> \o r
        BY ONLY <2>2, <2>3, r \in Seq(V), TakeTwo
      <3>2. (<<y>> \o r)[1] = y /\ Tail(<<y>> \o r) = r
        BY ONLY <2>3, r \in Seq(V), TakeOne
      <3>3. QED
        BY <3>1, <3>2
    <2>5. WidthStar(item) /\ PrecisionStar(item)
      BY <1>6, <1>9
    <2>6. QED
      BY <2>3, <2>4, <2>5
  <1>7. Len(t) = 0 \/ Len(t) = 1 \/ Len(t) = 2
    BY <1>3
  <1>8. QED
    BY <1>4, <1>5, <1>6, <1>7

(* A specification, as far as it is read.                                  *)
Read(flags, width, precise, precision, length, specifier, rest, a) ==
    [flags |-> flags, width |-> width, precise |-> precise, precision |-> precision,
     length |-> length, specifier |-> specifier, fmt |-> rest, args |-> a]

WidthRead(p, w, s, a)     == [p EXCEPT !.width = w, !.fmt = s, !.args = a]
PrecisionRead(p, y, w, s, a) == [p EXCEPT !.precise = y, !.precision = w, !.fmt = s, !.args = a]
LengthRead(p, w, s)       == [p EXCEPT !.length = w, !.fmt = s]
SpecifierRead(p, w, s)    == [p EXCEPT !.specifier = w, !.fmt = s]

LEMMA ReadOnWidth ==
    ASSUME NEW v1, NEW v2, NEW v3, NEW v4, NEW v5, NEW v6, NEW v7, NEW v8, NEW w, NEW s, NEW a
    PROVE  WidthRead(Read(v1, v2, v3, v4, v5, v6, v7, v8), w, s, a)
               = Read(v1, w, v3, v4, v5, v6, s, a)
  <1> DEFINE p == Read(v1, v2, v3, v4, v5, v6, v7, v8)
             f == [p EXCEPT !.width = w, !.fmt = s, !.args = a]
             g == Read(v1, w, v3, v4, v5, v6, s, a)
             D == {"flags", "width", "precise", "precision", "length", "specifier", "fmt", "args"}
  <1>1. p = [x \in D |-> p[x]] /\ g = [x \in D |-> g[x]]
    BY DEF Read
  <1>2. /\ p.flags = v1 /\ p.width = v2 /\ p.precise = v3 /\ p.precision = v4
        /\ p.length = v5 /\ p.specifier = v6 /\ p.fmt = v7 /\ p.args = v8
    BY DEF Read
  <1>3. /\ g.flags = v1 /\ g.width = w /\ g.precise = v3 /\ g.precision = v4
        /\ g.length = v5 /\ g.specifier = v6 /\ g.fmt = s /\ g.args = a
    BY DEF Read
  <1> HIDE DEF g, p
  <1>4. /\ f.flags = v1 /\ f.width = w /\ f.precise = v3 /\ f.precision = v4
        /\ f.length = v5 /\ f.specifier = v6 /\ f.fmt = s /\ f.args = a
    BY ONLY <1>1, <1>2
  <1>5. f = [x \in D |-> f[x]]
    BY ONLY <1>1
  <1> HIDE DEF f
  <1>6. \A x \in D : f[x] = g[x]
    BY ONLY <1>3, <1>4
  <1> HIDE DEF D
  <1>7. f = g
    BY ONLY <1>1, <1>5, <1>6
  <1>8. QED
    BY <1>7 DEF f, g, p, WidthRead

LEMMA ReadOnPrecision ==
    ASSUME NEW v1, NEW v2, NEW v3, NEW v4, NEW v5, NEW v6, NEW v7, NEW v8, NEW y, NEW w, NEW s, NEW a
    PROVE  PrecisionRead(Read(v1, v2, v3, v4, v5, v6, v7, v8), y, w, s, a)
               = Read(v1, v2, y, w, v5, v6, s, a)
  <1> DEFINE p == Read(v1, v2, v3, v4, v5, v6, v7, v8)
             f == [p EXCEPT !.precise = y, !.precision = w, !.fmt = s, !.args = a]
             g == Read(v1, v2, y, w, v5, v6, s, a)
             D == {"flags", "width", "precise", "precision", "length", "specifier", "fmt", "args"}
  <1>1. p = [x \in D |-> p[x]] /\ g = [x \in D |-> g[x]]
    BY DEF Read
  <1>2. /\ p.flags = v1 /\ p.width = v2 /\ p.precise = v3 /\ p.precision = v4
        /\ p.length = v5 /\ p.specifier = v6 /\ p.fmt = v7 /\ p.args = v8
    BY DEF Read
  <1>3. /\ g.flags = v1 /\ g.width = v2 /\ g.precise = y /\ g.precision = w
        /\ g.length = v5 /\ g.specifier = v6 /\ g.fmt = s /\ g.args = a
    BY DEF Read
  <1> HIDE DEF g, p
  <1>4. /\ f.flags = v1 /\ f.width = v2 /\ f.precise = y /\ f.precision = w
        /\ f.length = v5 /\ f.specifier = v6 /\ f.fmt = s /\ f.args = a
    BY ONLY <1>1, <1>2
  <1>5. f = [x \in D |-> f[x]]
    BY ONLY <1>1
  <1> HIDE DEF f
  <1>6. \A x \in D : f[x] = g[x]
    BY ONLY <1>3, <1>4
  <1> HIDE DEF D
  <1>7. f = g
    BY ONLY <1>1, <1>5, <1>6
  <1>8. QED
    BY <1>7 DEF f, g, p, PrecisionRead

LEMMA ReadOnLength ==
    ASSUME NEW v1, NEW v2, NEW v3, NEW v4, NEW v5, NEW v6, NEW v7, NEW v8, NEW w, NEW s
    PROVE  LengthRead(Read(v1, v2, v3, v4, v5, v6, v7, v8), w, s)
               = Read(v1, v2, v3, v4, w, v6, s, v8)
  <1> DEFINE p == Read(v1, v2, v3, v4, v5, v6, v7, v8)
             f == [p EXCEPT !.length = w, !.fmt = s]
             g == Read(v1, v2, v3, v4, w, v6, s, v8)
             D == {"flags", "width", "precise", "precision", "length", "specifier", "fmt", "args"}
  <1>1. p = [x \in D |-> p[x]] /\ g = [x \in D |-> g[x]]
    BY DEF Read
  <1>2. /\ p.flags = v1 /\ p.width = v2 /\ p.precise = v3 /\ p.precision = v4
        /\ p.length = v5 /\ p.specifier = v6 /\ p.fmt = v7 /\ p.args = v8
    BY DEF Read
  <1>3. /\ g.flags = v1 /\ g.width = v2 /\ g.precise = v3 /\ g.precision = v4
        /\ g.length = w /\ g.specifier = v6 /\ g.fmt = s /\ g.args = v8
    BY DEF Read
  <1> HIDE DEF g, p
  <1>4. /\ f.flags = v1 /\ f.width = v2 /\ f.precise = v3 /\ f.precision = v4
        /\ f.length = w /\ f.specifier = v6 /\ f.fmt = s /\ f.args = v8
    BY ONLY <1>1, <1>2
  <1>5. f = [x \in D |-> f[x]]
    BY ONLY <1>1
  <1> HIDE DEF f
  <1>6. \A x \in D : f[x] = g[x]
    BY ONLY <1>3, <1>4
  <1> HIDE DEF D
  <1>7. f = g
    BY ONLY <1>1, <1>5, <1>6
  <1>8. QED
    BY <1>7 DEF f, g, p, LengthRead

LEMMA ReadOnSpecifier ==
    ASSUME NEW v1, NEW v2, NEW v3, NEW v4, NEW v5, NEW v6, NEW v7, NEW v8, NEW w, NEW s
    PROVE  SpecifierRead(Read(v1, v2, v3, v4, v5, v6, v7, v8), w, s)
               = Read(v1, v2, v3, v4, v5, w, s, v8)
  <1> DEFINE p == Read(v1, v2, v3, v4, v5, v6, v7, v8)
             f == [p EXCEPT !.specifier = w, !.fmt = s]
             g == Read(v1, v2, v3, v4, v5, w, s, v8)
             D == {"flags", "width", "precise", "precision", "length", "specifier", "fmt", "args"}
  <1>1. p = [x \in D |-> p[x]] /\ g = [x \in D |-> g[x]]
    BY DEF Read
  <1>2. /\ p.flags = v1 /\ p.width = v2 /\ p.precise = v3 /\ p.precision = v4
        /\ p.length = v5 /\ p.specifier = v6 /\ p.fmt = v7 /\ p.args = v8
    BY DEF Read
  <1>3. /\ g.flags = v1 /\ g.width = v2 /\ g.precise = v3 /\ g.precision = v4
        /\ g.length = v5 /\ g.specifier = w /\ g.fmt = s /\ g.args = v8
    BY DEF Read
  <1> HIDE DEF g, p
  <1>4. /\ f.flags = v1 /\ f.width = v2 /\ f.precise = v3 /\ f.precision = v4
        /\ f.length = v5 /\ f.specifier = w /\ f.fmt = s /\ f.args = v8
    BY ONLY <1>1, <1>2
  <1>5. f = [x \in D |-> f[x]]
    BY ONLY <1>1
  <1> HIDE DEF f
  <1>6. \A x \in D : f[x] = g[x]
    BY ONLY <1>3, <1>4
  <1> HIDE DEF D
  <1>7. f = g
    BY ONLY <1>1, <1>5, <1>6
  <1>8. QED
    BY <1>7 DEF f, g, p, SpecifierRead

(* A well-formed specification is read as what it says, and leaves the     *)
(* rest of the format and the arguments of its conversion.                 *)
LEMMA PrecisionIsStar ==
    ASSUME NEW p, p \in Seq(Chars), p # <<>>, p[1] = "."
    PROVE  (Tail(p) = <<"*">>) <=> (p = <<".", "*">>)
  <1>1. ASSUME Tail(p) = <<"*">> PROVE p = <<".", "*">>
    <2> DEFINE t == Tail(p)
    <2>1. Len(t) = Len(p) - 1 /\ \A k \in 1 .. Len(p) - 1 : t[k] = p[k + 1]
      OBVIOUS
    <2>2. t = <<"*">>
      BY <1>1
    <2> HIDE DEF t
    <2>3. Len(t) = 1 /\ t[1] = "*"
      BY ONLY <2>2
    <2>4. Len(p) = 2 /\ p[2] = "*"
      <3>0. Len(p) \in Nat
        OBVIOUS
      <3>1. Len(p) \in Nat /\ Len(p) - 1 = 1
        BY ONLY <2>1, <2>3, <3>0
      <3>2. Len(p) = 2
        BY ONLY <3>1
      <3>3. t[1] = p[1 + 1]
        BY ONLY <2>1, <3>2
      <3>4. QED
        BY <2>3, <3>2, <3>3
    <2>5. QED
      BY <2>4
  <1>2. p = <<".", "*">> => Tail(p) = <<"*">>
    OBVIOUS
  <1>3. QED
    BY <1>1, <1>2

(* What is read of an item.                                                *)
ReadItem(item, rest, r) ==
    Read(Range(item.flags), WidthOf(item), item.precision # <<>>, PrecisionOf(item),
         item.length, item.specifier, rest, r)

LEMMA ParsedIs ==
    ASSUME NEW item, SpecItem(item), NEW rest, rest \in Seq(Chars),
           NEW V, Int \subseteq V, NEW r, r \in Seq(V),
           NEW s, s = item.flags \o AfterFlags(item, rest), NEW a, a = item.stars \o r
    PROVE  Parsed(s, a) = ReadItem(item, rest, r)
  <1> DEFINE q1 == AfterFlags(item, rest)
             q2 == AfterWidth(item, rest)
             q3 == AfterPrecision(item, rest)
             q4 == AfterSpec(item, rest)
             b  == IF WidthStar(item) THEN Tail(a) ELSE a
             flags == Range(item.flags)
             width == WidthOf(item)
             precision == PrecisionOf(item)
             p1 == ReadFlags(s, a)
             p2 == ReadWidth(p1)
             p3 == ReadPrecision(p2)
             p4 == ReadLength(p3)
  <1>1. /\ q4 \in Seq(Chars) /\ q4 # <<>> /\ q4[1] \notin Letters /\ q4[1] = item.specifier
        /\ First(q4) = item.specifier /\ SubSeq(q4, 2, Len(q4)) = rest
        /\ q3 \in Seq(Chars) /\ q3 # <<>> /\ q3[1] \notin Digits \cup {"*"}
        /\ q2 \in Seq(Chars) /\ q2 # <<>> /\ q2[1] \notin Digits \cup {"*"}
        /\ item.precision = <<>> => First(q2) # "."
        /\ item.precision # <<>> => First(q2) = "." /\ Tail(q2) = Tail(item.precision) \o q3
        /\ q1 \in Seq(Chars) /\ q1 # <<>> /\ q1[1] \notin Flags
        /\ item.flags \in Seq(Chars) /\ \A k \in 1 .. Len(item.flags) : item.flags[k] \in Flags
        /\ item.flags \o q1 \in Seq(Chars) /\ First(item.flags \o q1) # "%"
    BY Remains
  <1>2. q1 = item.width \o q2 /\ q3 = item.length \o q4
    BY DEF AfterFlags, AfterPrecision
  <1>3. /\ WidthStar(item) => AsSigned(a[1], NoLength) = item.stars[1]
        /\ PrecisionStar(item) => AsSigned(b[1], NoLength) = LastStar(item)
        /\ r = IF PrecisionStar(item) THEN Tail(b) ELSE b
    <2>1. StarsAre(item, a, b, r)
      <3>1. b = IF WidthStar(item) THEN Tail(a) ELSE a
        OBVIOUS
      <3> HIDE DEF b
      <3>2. QED
        BY ONLY <3>1, SpecItem(item), Int \subseteq V, r \in Seq(V), a = item.stars \o r, StarsTaken
    <2>2. QED
      BY <2>1 DEF StarsAre
  <1>4. /\ IsField(item.width) /\ item.precision \in Seq(Chars)
        /\ item.precision # <<>> => First(item.precision) = "." /\ IsField(Tail(item.precision))
        /\ item.length \in Lengths \cup {NoLength, LongDouble}
    BY DEF SpecItem
  <1>5. s = item.flags \o q1
    OBVIOUS
  <1> HIDE DEF q1, q2, q3, q4, b, flags, width, precision
  <1>6. p1 = Read(flags, 0, FALSE, 0, NoLength, NUL, q1, a)
    <2>1. Leading(s, Flags) = item.flags
      BY ONLY <1>1, <1>5, LeadingStops
    <2>2. After(s, item.flags) = q1
      BY ONLY <1>1, <1>5, AfterPart
    <2>3. QED
      BY <2>1, <2>2 DEF ReadFlags, Read, flags
  <1> HIDE DEF p1
  <1>7. p2 = Read(flags, width, FALSE, 0, NoLength, NUL, q2, b)
    <2> DEFINE field == Field(q1, a)
    <2>1. field = IF item.width = <<"*">>
                  THEN [value |-> AsSigned(a[1], NoLength), fmt |-> q2, args |-> Tail(a)]
                  ELSE [value |-> Number(item.width), fmt |-> q2, args |-> a]
      BY ONLY <1>1, <1>2, <1>4, FieldIs
    <2> HIDE DEF field
    <2>2. field.value = width /\ field.fmt = q2 /\ field.args = b
      BY <1>3, <2>1 DEF WidthStar, b, width, WidthOf, StarOr
    <2>3. p1.fmt = q1 /\ p1.args = a
      BY <1>6 DEF Read
    <2>4. p2 = [p1 EXCEPT !.width = field.value, !.fmt = field.fmt, !.args = field.args]
      BY <2>3 DEF ReadWidth, field
    <2> HIDE DEF p2
    <2>5. p2 = WidthRead(p1, width, q2, b)
      BY <2>2, <2>4 DEF WidthRead
    <2>6. WidthRead(Read(flags, 0, FALSE, 0, NoLength, NUL, q1, a), width, q2, b)
              = Read(flags, width, FALSE, 0, NoLength, NUL, q2, b)
      <3> DEFINE no == FALSE
                 none == NoLength
                 nul == NUL
      <3> HIDE DEF no, none, nul
      <3>1. WidthRead(Read(flags, 0, no, 0, none, nul, q1, a), width, q2, b)
              = Read(flags, width, no, 0, none, nul, q2, b)
        BY ONLY ReadOnWidth
      <3>2. QED
        BY ONLY <3>1, Zenon DEF no, none, nul
    <2>7. QED
      BY <1>6, <2>5, <2>6
  <1> HIDE DEF p2
  <1>8. p3 = Read(flags, width, item.precision # <<>>, precision, NoLength, NUL, q3, r)
    <2>1. p2.fmt = q2 /\ p2.args = b
      BY <1>7 DEF Read
    <2>2. CASE item.precision = <<>>
      <3>1. p3 = p2
        BY <1>1, <2>1, <2>2 DEF ReadPrecision
      <3>2. ~PrecisionStar(item) /\ precision = 0
        BY <2>2 DEF PrecisionStar, precision, PrecisionOf
      <3>3. r = b
        BY <1>3, <3>2
      <3>4. q3 = q2
        <4>1. <<>> \o q3 = q3
          BY <1>1
        <4>2. QED
          BY <2>2, <4>1 DEF q2, q3, AfterWidth
      <3>5. QED
        BY <1>7, <2>2, <3>1, <3>2, <3>3, <3>4
    <2>3. CASE item.precision # <<>>
      <3> DEFINE w == Tail(item.precision)
                 field == Field(Tail(q2), b)
      <3>1. IsField(w) /\ Tail(q2) = w \o q3
        BY <1>1, <1>4, <2>3
      <3> HIDE DEF w
      <3>2. field = IF w = <<"*">>
                    THEN [value |-> AsSigned(b[1], NoLength), fmt |-> q3, args |-> Tail(b)]
                    ELSE [value |-> Number(w), fmt |-> q3, args |-> b]
        BY ONLY <1>1, <3>1, FieldIs
      <3>3. w = <<"*">> <=> PrecisionStar(item)
        <4> DEFINE p == item.precision
        <4>1. p \in Seq(Chars) /\ p # <<>> /\ p[1] = "."
          BY <1>4, <2>3, PrecisionText
        <4>2. (Tail(p) = <<"*">>) <=> (p = <<".", "*">>)
          <5> HIDE DEF p
          <5>1. QED
            BY ONLY <4>1, PrecisionIsStar
        <4>3. QED
          BY <4>2 DEF w, PrecisionStar
      <3> HIDE DEF field
      <3>4. precision = IF w = <<"*">> THEN LastStar(item) ELSE Number(w)
        BY <2>3 DEF precision, PrecisionOf, StarOr, w, LastStar
      <3>5. field.value = precision /\ field.fmt = q3 /\ field.args = r
        BY <1>3, <3>2, <3>3, <3>4
      <3>6. p3 = [p2 EXCEPT !.precise = TRUE, !.precision = field.value,
                            !.fmt = field.fmt, !.args = field.args]
        BY <1>1, <2>1, <2>3 DEF ReadPrecision, field
      <3> HIDE DEF p3
      <3>10. p3 = PrecisionRead(p2, TRUE, precision, q3, r)
        BY <3>5, <3>6 DEF PrecisionRead
      <3>7. p3 = Read(flags, width, TRUE, precision, NoLength, NUL, q3, r)
        <4>1. PrecisionRead(Read(flags, width, FALSE, 0, NoLength, NUL, q2, b), TRUE, precision, q3, r)
                  = Read(flags, width, TRUE, precision, NoLength, NUL, q3, r)
          <5> DEFINE no == FALSE
                     yes == TRUE
                     none == NoLength
                     nul == NUL
          <5> HIDE DEF no, yes, none, nul
          <5>1. PrecisionRead(Read(flags, width, no, 0, none, nul, q2, b), yes, precision, q3, r)
                    = Read(flags, width, yes, precision, none, nul, q3, r)
            BY ONLY ReadOnPrecision
          <5>2. QED
            BY ONLY <5>1, Zenon DEF no, yes, none, nul
        <4>2. QED
          BY <1>7, <3>10, <4>1
      <3>8. (item.precision # <<>>) = TRUE
        BY <2>3
      <3>9. QED
        BY <3>7, <3>8
    <2>4. QED
      BY <2>2, <2>3
  <1> HIDE DEF p3
  <1>9. p4 = Read(flags, width, item.precision # <<>>, precision, item.length, NUL, q4, r)
    <2>1. p3.fmt = q3
      BY <1>8 DEF Read
    <2>2. Length(q3) = item.length
      BY ONLY <1>1, <1>2, <1>4, LengthIs
    <2>3. After(q3, item.length) = q4
      <3>1. item.length \in Seq(Chars)
        BY <1>4, LengthText
      <3>2. QED
        BY ONLY <1>1, <1>2, <3>1, AfterPart
    <2>4. p4 = [p3 EXCEPT !.length = item.length, !.fmt = q4]
      BY <2>1, <2>2, <2>3 DEF ReadLength
    <2> HIDE DEF p4
    <2>5. p4 = LengthRead(p3, item.length, q4)
      BY <2>4 DEF LengthRead
    <2>6. QED
      BY ONLY <1>8, <2>5, ReadOnLength
  <1> HIDE DEF p4
  <1>10. Parsed(s, a) = ReadSpecifier(p4)
    BY DEF Parsed, p1, p2, p3, p4
  <1>11. p4.fmt = q4
    BY <1>9 DEF Read
  <1>12. ReadSpecifier(p4) = SpecifierRead(p4, item.specifier, rest)
    BY <1>1, <1>11 DEF ReadSpecifier, SpecifierRead
  <1>13. ReadSpecifier(p4)
             = Read(flags, width, item.precision # <<>>, precision, item.length, item.specifier, rest, r)
    BY ONLY <1>9, <1>12, ReadOnSpecifier
  <1>14. QED
    BY <1>10, <1>13 DEF flags, width, precision, ReadItem
----------------------------------------------------------------------------
(* What the texts of a sequence are together, from one of them on and up   *)
(* to one of them.                                                         *)
From(seqs, k) == FlattenSeq([j \in 1 .. Len(seqs) - k |-> seqs[k + j]])
UpTo(seqs, k) == FlattenSeq([j \in 1 .. k |-> seqs[j]])

LEMMA FromIs ==
    ASSUME NEW S, NEW seqs \in Seq(Seq(S)), NEW k \in 0 .. Len(seqs)
    PROVE  /\ From(seqs, k) \in Seq(S)
           /\ k = 0 => From(seqs, k) = FlattenSeq(seqs)
           /\ k = Len(seqs) => From(seqs, k) = <<>>
           /\ k < Len(seqs) => seqs[k + 1] \in Seq(S) /\ From(seqs, k) = seqs[k + 1] \o From(seqs, k + 1)
  <1> DEFINE n == Len(seqs)
             f == [j \in 1 .. n - k |-> seqs[k + j]]
  <1>1. n \in Nat /\ k \in Nat /\ k <= n /\ n - k \in Nat /\ \A i \in 1 .. n : seqs[i] \in Seq(S)
    OBVIOUS
  <1>2. f \in Seq(Seq(S)) /\ Len(f) = n - k /\ \A j \in 1 .. n - k : f[j] = seqs[k + j]
    <2>1. \A j \in 1 .. n - k : seqs[k + j] \in Seq(S)
      BY <1>1
    <2>2. QED
      BY <1>1, <2>1
  <1>3. From(seqs, k) = FlattenSeq(f)
    BY DEF From
  <1> HIDE DEF f
  <1>4. FlattenSeq(f) \in Seq(S)
    BY ONLY <1>2, FlattenText
  <1>5. ASSUME k = 0 PROVE f = seqs
    <2>1. Len(f) = n /\ \A j \in 1 .. Len(f) : f[j] = seqs[j]
      BY <1>1, <1>2, <1>5
    <2>2. QED
      BY ONLY <1>2, <2>1, seqs \in Seq(Seq(S)), SameText
  <1>6. ASSUME k = n PROVE f = <<>>
    BY <1>2, <1>6
  <1>7. ASSUME k < n
        PROVE  seqs[k + 1] \in Seq(S) /\ From(seqs, k) = seqs[k + 1] \o From(seqs, k + 1)
    <2> DEFINE g == [j \in 1 .. n - (k + 1) |-> seqs[(k + 1) + j]]
               x == seqs[k + 1]
               h == <<x>>
    <2>1. x \in Seq(S)
      BY <1>1, <1>7
    <2>2. /\ g \in Seq(Seq(S)) /\ Len(g) = n - (k + 1)
          /\ \A j \in 1 .. n - (k + 1) : g[j] = seqs[(k + 1) + j]
      <3>1. \A j \in 1 .. n - (k + 1) : seqs[(k + 1) + j] \in Seq(S)
        BY <1>1
      <3>2. n - (k + 1) \in Nat
        BY <1>1, <1>7
      <3>3. QED
        BY <3>1, <3>2
    <2>3. From(seqs, k + 1) = FlattenSeq(g)
      BY DEF From
    <2> HIDE DEF g
    <2>4. f = h \o g
      <3>1. h \in Seq(Seq(S)) /\ Len(h) = 1 /\ h[1] = x
        BY <2>1
      <3> HIDE DEF h
      <3> DEFINE z == h \o g
      <3>2. z \in Seq(Seq(S)) /\ Len(z) = 1 + Len(g) /\ z[1] = h[1]
            /\ \A j \in 1 .. Len(g) : z[1 + j] = g[j]
        <4>1. /\ h \o g \in Seq(Seq(S)) /\ Len(h \o g) = Len(h) + Len(g)
              /\ \A j \in 1 .. Len(h) : (h \o g)[j] = h[j]
              /\ \A j \in 1 .. Len(g) : (h \o g)[Len(h) + j] = g[j]
          <5>1. h \in Seq(Seq(S)) /\ g \in Seq(Seq(S))
            BY <2>2, <3>1
          <5>2. QED
            BY ONLY <5>1, Concatenated
        <4>2. QED
          BY ONLY <3>1, <4>1
      <3> HIDE DEF z
      <3>3. ASSUME NEW j \in 1 .. n - k PROVE f[j] = z[j]
        <4>1. CASE j = 1
          BY <1>2, <3>1, <3>2, <4>1
        <4>2. CASE j # 1
          <5>1. j - 1 \in 1 .. n - (k + 1) /\ 1 + (j - 1) = j /\ (k + 1) + (j - 1) = k + j
            BY <1>1, <4>2
          <5>2. z[1 + (j - 1)] = g[j - 1] /\ g[j - 1] = seqs[(k + 1) + (j - 1)]
            BY ONLY <2>2, <3>2, <5>1
          <5>3. QED
            BY ONLY <1>2, <5>1, <5>2, j \in 1 .. n - k
        <4>3. QED
          BY <4>1, <4>2
      <3>4. Len(z) = Len(f)
        BY ONLY <1>1, <1>2, <2>2, <3>2
      <3>5. f = z
        BY ONLY <1>2, <3>2, <3>3, <3>4, SameText
      <3>6. QED
        BY <3>5 DEF z
    <2>5. FlattenSeq(<<x>> \o g) = x \o FlattenSeq(g)
      <3> HIDE DEF x
      <3>1. QED
        BY ONLY <2>1, <2>2, FlattenFirst
    <2>6. QED
      BY <1>3, <2>1, <2>3, <2>4, <2>5
  <1>8. QED
    BY <1>3, <1>4, <1>5, <1>6, <1>7, FlattenNothing

LEMMA UpToIs ==
    ASSUME NEW S, NEW seqs \in Seq(Seq(S)), NEW k \in 0 .. Len(seqs)
    PROVE  /\ UpTo(seqs, k) \in Seq(S)
           /\ k = 0 => UpTo(seqs, k) = <<>>
           /\ k = Len(seqs) => UpTo(seqs, k) = FlattenSeq(seqs)
           /\ k < Len(seqs) => UpTo(seqs, k + 1) = UpTo(seqs, k) \o seqs[k + 1]
  <1> DEFINE n == Len(seqs)
             f == [j \in 1 .. k |-> seqs[j]]
  <1>1. n \in Nat /\ k \in Nat /\ k <= n /\ \A i \in 1 .. n : seqs[i] \in Seq(S)
    OBVIOUS
  <1>2. f \in Seq(Seq(S)) /\ Len(f) = k /\ \A j \in 1 .. k : f[j] = seqs[j]
    BY <1>1
  <1>3. UpTo(seqs, k) = FlattenSeq(f)
    BY DEF UpTo
  <1> HIDE DEF f
  <1>4. FlattenSeq(f) \in Seq(S)
    BY ONLY <1>2, FlattenText
  <1>5. ASSUME k = 0 PROVE f = <<>>
    BY <1>2, <1>5
  <1>6. ASSUME k = n PROVE f = seqs
    <2>1. Len(f) = n /\ \A j \in 1 .. Len(f) : f[j] = seqs[j]
      BY <1>1, <1>2, <1>6
    <2>2. QED
      BY ONLY <1>2, <2>1, seqs \in Seq(Seq(S)), SameText
  <1>7. ASSUME k < n PROVE UpTo(seqs, k + 1) = UpTo(seqs, k) \o seqs[k + 1]
    <2> DEFINE g == [j \in 1 .. k + 1 |-> seqs[j]]
               x == seqs[k + 1]
    <2>1. x \in Seq(S)
      BY <1>1, <1>7
    <2>2. g \in Seq(Seq(S)) /\ Len(g) = k + 1 /\ \A j \in 1 .. k + 1 : g[j] = seqs[j]
      <3>1. \A j \in 1 .. k + 1 : seqs[j] \in Seq(S)
        BY <1>1, <1>7
      <3>2. QED
        BY <1>1, <3>1
    <2>3. UpTo(seqs, k + 1) = FlattenSeq(g)
      BY DEF UpTo
    <2> HIDE DEF g, x
    <2>4. g = Append(f, x)
      <3> DEFINE z == Append(f, x)
      <3>1. z \in Seq(Seq(S)) /\ Len(z) = k + 1 /\ z[k + 1] = x /\ \A j \in 1 .. k : z[j] = f[j]
        BY <1>1, <1>2, <2>1
      <3> HIDE DEF z
      <3>2. ASSUME NEW j \in 1 .. k + 1 PROVE g[j] = z[j]
        <4>1. CASE j = k + 1
          BY <2>2, <3>1, <4>1 DEF x
        <4>2. CASE j # k + 1
          <5>1. j \in 1 .. k
            BY <1>1, <4>2
          <5>2. QED
            BY <1>2, <2>2, <3>1, <5>1
        <4>3. QED
          BY <4>1, <4>2
      <3>3. g = z
        BY ONLY <2>2, <3>1, <3>2, SameText
      <3>4. QED
        BY <3>3 DEF z
    <2>5. FlattenSeq(Append(f, x)) = FlattenSeq(f) \o x
      BY ONLY <1>2, <2>1, FlattenAppend
    <2>6. QED
      BY <1>3, <2>3, <2>4, <2>5 DEF x
  <1>8. QED
    BY <1>3, <1>4, <1>5, <1>6, <1>7, FlattenNothing
----------------------------------------------------------------------------
(* The text of a conversion depends on the parts of its specification.     *)
LEMMA SameTexts ==
    ASSUME NEW a, NEW spec, NEW other,
           /\ spec.flags = other.flags /\ spec.width = other.width /\ spec.precise = other.precise
           /\ spec.precision = other.precision /\ spec.length = other.length
           /\ spec.specifier = other.specifier
    PROVE  /\ NumberText(a, spec) = NumberText(a, other)
           /\ NumberFits(a, spec) = NumberFits(a, other)
           /\ StringText(a, spec) = StringText(a, other)
           /\ StringFits(a, spec) = StringFits(a, other)
  <1>1. Value(a, spec) = Value(a, other)
    BY DEF Value
  <1> DEFINE v == Value(a, spec)
  <1>2. DigitsOf(v, spec) = DigitsOf(v, other) /\ Sign(v, spec) = Sign(v, other)
    <2> HIDE DEF v
    <2>1. DigitsOf(v, spec) = DigitsOf(v, other)
      BY DEF DigitsOf
    <2>2. Sign(v, spec) = Sign(v, other)
      BY DEF Sign
    <2>3. QED
      BY <2>1, <2>2
  <1>3. Decorator(spec) = Decorator(other)
    BY DEF Decorator
  <1>4. Body(a, spec) = Body(a, other)
    BY <1>1, <1>2, <1>3 DEF Body
  <1>5. NumberText(a, spec) = NumberText(a, other)
    <2> DEFINE body == Body(a, spec)
    <2>1. Justified(body, spec) = Justified(body, other)
      <3> HIDE DEF body
      <3>1. QED
        BY DEF Justified
    <2>2. QED
      BY <1>4, <2>1 DEF NumberText
  <1>6. NumberFits(a, spec) = NumberFits(a, other)
    BY <1>4 DEF NumberFits
  <1>7. StringText(a, spec) = StringText(a, other)
    BY DEF StringText
  <1>8. StringFits(a, spec) = StringFits(a, other)
    BY DEF StringFits
  <1>9. QED
    BY <1>5, <1>6, <1>7, <1>8

(* The width and the precision are numbers.                                *)
LEMMA FieldsAre ==
    ASSUME NEW item, SpecItem(item)
    PROVE  WidthOf(item) \in Int /\ PrecisionOf(item) \in Int
  <1> DEFINE r == <<>>
             a == item.stars \o r
             b == IF WidthStar(item) THEN Tail(a) ELSE a
  <1>1. StarsAre(item, a, b, r)
    <2>1. r \in Seq(Int)
      OBVIOUS
    <2> HIDE DEF r
    <2>2. QED
      BY <2>1, StarsTaken
  <1> HIDE DEF a, b, r
  <1>2. WidthStar(item) => item.stars[1] \in Int
    BY <1>1 DEF StarsAre
  <1>3. PrecisionStar(item) => LastStar(item) \in Int
    BY <1>1 DEF StarsAre
  <1>4. ASSUME NEW w, IsField(w), w # <<"*">> PROVE Number(w) \in Int
    <2>1. w \in Seq(HexDigits)
      BY <1>4, DigitsAreHex DEF IsField
    <2>2. QED
      BY <2>1, ReadingNumber DEF Number
  <1>5. WidthOf(item) \in Int
    <2>1. IsField(item.width)
      BY DEF SpecItem
    <2>2. QED
      BY <1>2, <1>4, <2>1 DEF WidthOf, StarOr, WidthStar
  <1>6. PrecisionOf(item) \in Int
    <2>1. CASE item.precision = <<>>
      BY <2>1 DEF PrecisionOf
    <2>2. CASE item.precision # <<>>
      <3> DEFINE p == item.precision
                 w == Tail(p)
      <3>1. p \in Seq(Chars) /\ First(p) = "." /\ IsField(w)
        BY <2>2 DEF SpecItem
      <3>2. p[1] = "."
        BY <2>2, <3>1, PrecisionText
      <3>3. w = <<"*">> <=> PrecisionStar(item)
        <4>1. p # <<>>
          BY <2>2
        <4>2. (Tail(p) = <<"*">>) <=> (p = <<".", "*">>)
          <5> HIDE DEF p
          <5>1. QED
            BY ONLY <3>1, <3>2, <4>1, PrecisionIsStar
        <4>3. QED
          BY <4>2 DEF PrecisionStar
      <3>4. PrecisionOf(item) = IF w = <<"*">> THEN LastStar(item) ELSE Number(w)
        BY <2>2 DEF PrecisionOf, StarOr, LastStar
      <3> HIDE DEF w
      <3>5. QED
        BY <1>3, <1>4, <3>1, <3>3, <3>4
    <2>3. QED
      BY <2>1, <2>2
  <1>7. QED
    BY <1>5, <1>6

LEMMA SpecOfIs ==
    ASSUME NEW item, SpecItem(item)
    PROVE  LET spec == SpecOf(item)
           IN  /\ spec.flags = Range(item.flags) /\ spec.width = WidthOf(item)
               /\ spec.precise = (item.precision # <<>>) /\ spec.precision = PrecisionOf(item)
               /\ spec.length = item.length /\ spec.specifier = item.specifier
               /\ spec.width \in Int /\ spec.precision \in Int
               /\ item.specifier \in Numbers /\ item.length # LongDouble => NumberSpec(spec)
  <1> DEFINE spec == SpecOf(item)
  <1>1. /\ spec.flags = Range(item.flags) /\ spec.width = WidthOf(item)
        /\ spec.precise = (item.precision # <<>>) /\ spec.precision = PrecisionOf(item)
        /\ spec.length = item.length /\ spec.specifier = item.specifier
    BY DEF SpecOf
  <1>2. spec.width \in Int /\ spec.precision \in Int
    BY <1>1, FieldsAre
  <1>3. ASSUME item.specifier \in Numbers, item.length # LongDouble PROVE NumberSpec(spec)
    BY <1>1, <1>2, <1>3, HalfAssumption DEF NumberSpec, SpecItem
  <1>4. QED
    BY <1>1, <1>2, <1>3

LEMMA ReadItemIs ==
    ASSUME NEW item, SpecItem(item), NEW rest, NEW r, NEW a,
           NEW spec, spec = ReadItem(item, rest, r)
    PROVE  /\ spec.fmt = rest /\ spec.args = r
           /\ spec.length = item.length /\ spec.specifier = item.specifier
           /\ NumberText(a, spec) = NumberText(a, SpecOf(item))
           /\ NumberFits(a, spec) = NumberFits(a, SpecOf(item))
           /\ StringText(a, spec) = StringText(a, SpecOf(item))
           /\ StringFits(a, spec) = StringFits(a, SpecOf(item))
  <1> DEFINE other == SpecOf(item)
  <1>1. /\ spec.fmt = rest /\ spec.args = r
        /\ spec.flags = Range(item.flags) /\ spec.width = WidthOf(item)
        /\ spec.precise = (item.precision # <<>>) /\ spec.precision = PrecisionOf(item)
        /\ spec.length = item.length /\ spec.specifier = item.specifier
    BY DEF ReadItem, Read
  <1>2. /\ spec.flags = other.flags /\ spec.width = other.width /\ spec.precise = other.precise
        /\ spec.precision = other.precision /\ spec.length = other.length
        /\ spec.specifier = other.specifier
    BY <1>1, SpecOfIs
  <1> HIDE DEF other
  <1>3. /\ NumberText(a, spec) = NumberText(a, other)
        /\ NumberFits(a, spec) = NumberFits(a, other)
        /\ StringText(a, spec) = StringText(a, other)
        /\ StringFits(a, spec) = StringFits(a, other)
    BY ONLY <1>2, SameTexts
  <1>4. QED
    BY <1>1, <1>3 DEF other
----------------------------------------------------------------------------
(* The arguments of an item.                                               *)
Values == Int \cup Chars \cup Texts

Takes(item) ==      \* whether its conversion takes one
    \/ item.specifier \in Numbers /\ item.length # LongDouble
    \/ item.specifier = "c" \/ item.specifier = "s"

LEMMA ArgumentIs ==
    ASSUME NEW item, WellFormed(item), SpecItem(item)
    PROVE  /\ item.args \in Seq(Values) /\ ArgsOf(item) \in Seq(Values)
           /\ ArgsOf(item) = item.stars \o item.args
           /\ Takes(item) => Len(item.args) = 1
           /\ ~Takes(item) => item.args = <<>>
           /\ item.specifier \in Numbers /\ item.length # LongDouble => item.args[1] \in Int
           /\ item.specifier = "c" => item.args[1] \in Chars /\ item.args = <<item.args[1]>>
           /\ item.specifier = "s" => item.args[1] \in Texts
  <1>1. item.kind = "spec"
    BY DEF SpecItem
  <1>5. /\ ArgsOf(item) = item.stars \o item.args
        /\ item.args \in Seq(Values) => ArgsOf(item) \in Seq(Values)
    <2>1. item.stars \in Seq(Values)
      <3>1. Half[NoLength] \in Nat
        BY Halves
      <3>2. -Half[NoLength] .. Half[NoLength] - 1 \subseteq Values
        BY <3>1 DEF Values
      <3>3. QED
        <4> DEFINE S == -Half[NoLength] .. Half[NoLength] - 1
        <4>1. item.stars \in Seq(S) /\ S \subseteq Values
          BY <3>2 DEF SpecItem
        <4> HIDE DEF S
        <4>2. QED
          BY ONLY <4>1
    <2>2. ArgsOf(item) = item.stars \o item.args
      BY <1>1 DEF ArgsOf
    <2>3. QED
      BY <2>1, <2>2
  <1>2. CASE item.specifier \in Numbers \cup {"c", "s"} /\ Takes(item)
    <2>1. /\ item.specifier \in Numbers /\ item.length # LongDouble =>
                 item.args \in Seq(Int) /\ Len(item.args) = 1
          /\ item.specifier = "c" => item.args \in Seq(Chars) /\ Len(item.args) = 1
          /\ item.specifier = "s" => item.args \in Seq(Texts) /\ Len(item.args) = 1
      BY <1>1, <1>2 DEF WellFormed, Texts, Numbers
    <2>2. Len(item.args) = 1 /\ 1 \in 1 .. 1
      BY <1>2, <2>1 DEF Takes
    <2>3. /\ item.specifier \in Numbers /\ item.length # LongDouble => item.args[1] \in Int
          /\ item.specifier = "c" => item.args[1] \in Chars /\ item.args = <<item.args[1]>>
          /\ item.specifier = "s" => item.args[1] \in Texts
      BY <2>1, <2>2
    <2>4. item.args \in Seq(Values)
      <3>1. Int \subseteq Values /\ Chars \subseteq Values /\ Texts \subseteq Values
        BY DEF Values
      <3>2. item.args \in Seq(Int) \/ item.args \in Seq(Chars) \/ item.args \in Seq(Texts)
        BY <1>2, <2>1 DEF Takes
      <3>3. QED
        BY ONLY <3>1, <3>2
    <2>5. QED
      BY <1>5, <1>2, <2>2, <2>3, <2>4
  <1>3. CASE ~Takes(item)
    <2>1. item.args = <<>>
      BY <1>1, <1>3 DEF WellFormed, Takes
    <2>2. item.args \in Seq(Values)
      BY <2>1
    <2>3. QED
      BY <1>3, <1>5, <2>1, <2>2 DEF Takes
  <1>4. QED
    BY <1>2, <1>3 DEF Takes

LEMMA ItemTexts ==
    ASSUME NEW item, WellFormed(item)
    PROVE  FormatOf(item) \in Seq(Chars) /\ ArgsOf(item) \in Seq(Values)
  <1>1. CASE item.kind = "text" /\ item.chars \in Texts
    BY <1>1, TextsAreText DEF FormatOf, ArgsOf
  <1>2. CASE SpecItem(item)
    <2>1. FormatOf(item) \in Seq(Chars)
      <3>1. <<>> \in Seq(Chars)
        OBVIOUS
      <3>2. QED
        BY <1>2, <3>1, FormatIs
    <2>2. QED
      BY <1>2, <2>1, ArgumentIs
  <1>3. QED
    BY <1>1, <1>2, WellFormedItem

(* What an item contributes, unless a NUL ends it.                         *)
LEMMA RenderedIs ==
    ASSUME NEW item, WellFormed(item), ~EndsText(item)
    PROVE  Rendered(item) \in Texts
  <1>1. CASE item.kind = "text" /\ item.chars \in Texts
    BY <1>1 DEF Rendered
  <1>2. CASE SpecItem(item)
    <2>1. item.kind = "spec" /\ item.kind # "text"
      BY <1>2 DEF SpecItem
    <2>2. CASE item.specifier \in Numbers /\ item.length = LongDouble
      BY <2>1, <2>2 DEF Rendered, Texts, Numbers
    <2>3. CASE item.specifier \in Numbers /\ item.length # LongDouble
      <3>1. item.args[1] \in Int /\ NumberSpec(SpecOf(item)) /\ SpecOf(item).specifier = item.specifier
        BY <1>2, <2>3, ArgumentIs, SpecOfIs
      <3>2. item.specifier # "o"
        BY <2>1 DEF EndsText
      <3>3. NumberText(item.args[1], SpecOf(item)) \in Texts
        BY <3>1, <3>2, NumberTextIs DEF Texts
      <3>4. QED
        BY <2>1, <2>3, <3>3 DEF Rendered, Numbers
    <2>4. CASE item.specifier = "c"
      <3>1. item.args[1] \in Chars /\ item.args = <<item.args[1]>>
        BY <1>2, <2>4, ArgumentIs
      <3>2. item.args # <<NUL>>
        BY <2>1, <2>4 DEF EndsText
      <3>3. item.args \in Texts
        <4> DEFINE c == item.args[1]
        <4>1. c \in Chars \ {NUL} /\ item.args = <<c>>
          BY <3>1, <3>2
        <4> HIDE DEF c
        <4>2. QED
          BY <4>1 DEF Texts
      <3>4. QED
        BY <2>1, <2>4, <3>3 DEF Rendered, Numbers
    <2>5. CASE item.specifier = "s"
      <3>1. /\ item.args[1] \in Texts
            /\ SpecOf(item).width \in Int /\ SpecOf(item).precision \in Int
        BY <1>2, <2>5, ArgumentIs, SpecOfIs
      <3>2. StringText(item.args[1], SpecOf(item)) \in Texts
        BY <3>1, StringTextIs
      <3>3. QED
        BY <2>1, <2>5, <3>2 DEF Rendered, Numbers
    <2>6. CASE item.specifier \notin Numbers \cup {"c", "s"}
      <3>1. Rendered(item) = <<"?">>
        BY <2>1, <2>6 DEF Rendered
      <3>2. "?" \in Chars \ {NUL}
        BY CharsAssumption DEF Marks, NUL
      <3>3. QED
        BY <3>1, <3>2 DEF Texts
    <2>7. QED
      BY <2>2, <2>3, <2>4, <2>5, <2>6
  <1>3. QED
    BY <1>1, <1>2, WellFormedItem
----------------------------------------------------------------------------
(* How far a job has come.                                                 *)
FormatsOf(items)    == [k \in DOMAIN items |-> FormatOf(items[k])]
ArgumentsOf(items)  == [k \in DOMAIN items |-> ArgsOf(items[k])]
RenderingsOf(items) == [k \in DOMAIN items |-> Rendered(items[k])]

GoodItems(items) ==
    /\ Len(items) \in Nat /\ DOMAIN items = 1 .. Len(items)
    /\ \A k \in DOMAIN items : WellFormed(items[k])

NoPercent(items) == \A k \in DOMAIN items : ~HasPercent(items[k])

LEMMA JobItems == \A j \in Jobs : GoodItems(Items(j))
  <1> SUFFICES ASSUME NEW j \in Jobs PROVE GoodItems(Items(j))
    OBVIOUS
  <1>1. Items(j) \in Seq(Range(Items(j))) /\ \A k \in DOMAIN Items(j) : WellFormed(Items(j)[k])
    BY JobsAssumption
  <1>2. Len(Items(j)) \in Nat /\ DOMAIN Items(j) = 1 .. Len(Items(j))
    BY <1>1
  <1>3. QED
    BY <1>1, <1>2 DEF GoodItems

LEMMA JobTexts ==
    ASSUME NEW items, GoodItems(items)
    PROVE  /\ FormatsOf(items) \in Seq(Seq(Chars)) /\ Len(FormatsOf(items)) = Len(items)
           /\ ArgumentsOf(items) \in Seq(Seq(Values)) /\ Len(ArgumentsOf(items)) = Len(items)
           /\ Plain(items) => RenderingsOf(items) \in Seq(Texts)
           /\ Len(RenderingsOf(items)) = Len(items)
           /\ \A k \in 1 .. Len(items) :
                  /\ FormatsOf(items)[k] = FormatOf(items[k])
                  /\ ArgumentsOf(items)[k] = ArgsOf(items[k])
                  /\ RenderingsOf(items)[k] = Rendered(items[k])
  <1> DEFINE n == Len(items)
  <1>1. n \in Nat /\ DOMAIN items = 1 .. n /\ \A k \in 1 .. n : WellFormed(items[k])
    BY DEF GoodItems
  <1>2. \A k \in 1 .. n : FormatOf(items[k]) \in Seq(Chars) /\ ArgsOf(items[k]) \in Seq(Values)
    BY <1>1, ItemTexts
  <1>3. Plain(items) => \A k \in 1 .. n : Rendered(items[k]) \in Texts
    BY <1>1, RenderedIs DEF Plain
  <1>4. /\ FormatsOf(items) = [k \in 1 .. n |-> FormatOf(items[k])]
        /\ ArgumentsOf(items) = [k \in 1 .. n |-> ArgsOf(items[k])]
        /\ RenderingsOf(items) = [k \in 1 .. n |-> Rendered(items[k])]
    BY <1>1 DEF FormatsOf, ArgumentsOf, RenderingsOf
  <1> HIDE DEF n
  <1>5. FormatsOf(items) \in Seq(Seq(Chars)) /\ Len(FormatsOf(items)) = n
    BY <1>1, <1>2, <1>4
  <1>6. ArgumentsOf(items) \in Seq(Seq(Values)) /\ Len(ArgumentsOf(items)) = n
    BY <1>1, <1>2, <1>4
  <1>7. Plain(items) => RenderingsOf(items) \in Seq(Texts)
    BY <1>1, <1>3, <1>4
  <1>8. Len(RenderingsOf(items)) = n
    BY <1>1, <1>4
  <1>9. QED
    BY <1>4, <1>5, <1>6, <1>7, <1>8 DEF n

Place(items, k, rest, f, a, t) ==
    /\ k \in 0 .. Len(items) /\ rest \in Seq(Chars \ {"%", NUL})
    /\ f = rest \o From(FormatsOf(items), k)
    /\ a = From(ArgumentsOf(items), k)
    /\ Plain(items) => t \in Texts /\ t \o rest = UpTo(RenderingsOf(items), k)

Settled(items, k, rest) == rest # <<>> \/ k = Len(items) \/ SpecItem(items[k + 1])

(* What follows the items that are done with.                              *)
NextIs(items, k, f, a, t) ==
    /\ From(FormatsOf(items), k + 1) \in Seq(Chars)
    /\ From(ArgumentsOf(items), k + 1) \in Seq(Values)
    /\ f = FormatOf(items[k + 1]) \o From(FormatsOf(items), k + 1)
    /\ a = ArgsOf(items[k + 1]) \o From(ArgumentsOf(items), k + 1)
    /\ Plain(items) => /\ t \in Texts /\ Rendered(items[k + 1]) \in Texts
                       /\ UpTo(RenderingsOf(items), k + 1) = t \o Rendered(items[k + 1])

LEMMA NextPlace ==
    ASSUME NEW items, GoodItems(items), NEW k, NEW f, NEW a, NEW t,
           Place(items, k, <<>>, f, a, t), k < Len(items)
    PROVE  k + 1 \in 0 .. Len(items) /\ k + 1 \in DOMAIN items /\ NextIs(items, k, f, a, t)
  <1> DEFINE n == Len(items)
             F == FormatsOf(items)
             A == ArgumentsOf(items)
             R == RenderingsOf(items)
  <1>1. n \in Nat /\ k \in 0 .. n /\ k + 1 \in 0 .. n /\ k + 1 \in 1 .. n /\ DOMAIN items = 1 .. n
    BY DEF GoodItems, Place
  <1>2. /\ F \in Seq(Seq(Chars)) /\ Len(F) = n /\ A \in Seq(Seq(Values)) /\ Len(A) = n
        /\ Plain(items) => R \in Seq(Texts)
        /\ Len(R) = n
        /\ F[k + 1] = FormatOf(items[k + 1]) /\ A[k + 1] = ArgsOf(items[k + 1])
        /\ R[k + 1] = Rendered(items[k + 1])
    BY <1>1, JobTexts
  <1>3. /\ f = <<>> \o From(F, k) /\ a = From(A, k)
        /\ Plain(items) => t \in Texts /\ t \o <<>> = UpTo(R, k)
    BY DEF Place
  <1> HIDE DEF F, A, R, n
  <1>4. k < n
    BY DEF n
  <1>5. From(F, k) \in Seq(Chars) /\ From(F, k) = F[k + 1] \o From(F, k + 1)
    BY ONLY <1>1, <1>2, <1>4, FromIs
  <1>6. From(A, k) = A[k + 1] \o From(A, k + 1)
    BY ONLY <1>1, <1>2, <1>4, FromIs
  <1>7. From(F, k + 1) \in Seq(Chars) /\ From(A, k + 1) \in Seq(Values)
    BY ONLY <1>1, <1>2, FromIs
  <1>8. f = From(F, k)
    <2> DEFINE x == From(F, k)
    <2>1. x \in Seq(Chars) /\ f = <<>> \o x
      BY <1>3, <1>5
    <2> HIDE DEF x
    <2>2. f = x
      BY ONLY <2>1
    <2>3. QED
      BY <2>2 DEF x
  <1>9. ASSUME Plain(items)
        PROVE  t \in Texts /\ R[k + 1] \in Texts /\ UpTo(R, k + 1) = t \o R[k + 1]
    <2>1. R \in Seq(Texts) /\ t \in Texts /\ t \o <<>> = UpTo(R, k)
      BY <1>2, <1>3, <1>9
    <2>2. UpTo(R, k + 1) = UpTo(R, k) \o R[k + 1]
      <3>1. R \in Seq(Seq(Chars \ {NUL}))
        BY <2>1 DEF Texts
      <3>2. QED
        BY ONLY <1>1, <1>2, <1>4, <3>1, UpToIs
    <2>3. R[k + 1] \in Texts
      BY <1>1, <1>2, <2>1
    <2>4. t \o <<>> = t
      BY ONLY <2>1 DEF Texts
    <2>5. QED
      BY <2>1, <2>2, <2>3, <2>4
  <1>10. QED
    BY <1>1, <1>2, <1>3, <1>5, <1>6, <1>7, <1>8, <1>9 DEF NextIs, F, A, R, n

(* The next text is taken up.                                              *)
LEMMA TextNext ==
    ASSUME NEW items, GoodItems(items), NoPercent(items), NEW k, NEW f, NEW a, NEW t,
           Place(items, k, <<>>, f, a, t), k < Len(items),
           items[k + 1].kind = "text", items[k + 1].chars \in Texts
    PROVE  Place(items, k + 1, items[k + 1].chars, f, a, t)
  <1> DEFINE item == items[k + 1]
             c == item.chars
             F == From(FormatsOf(items), k + 1)
             A == From(ArgumentsOf(items), k + 1)
             u == UpTo(RenderingsOf(items), k + 1)
  <1>1. k + 1 \in 0 .. Len(items) /\ k + 1 \in DOMAIN items /\ NextIs(items, k, f, a, t)
    BY NextPlace
  <1>2. FormatOf(item) = c /\ ArgsOf(item) = <<>> /\ Rendered(item) = c
    BY DEF FormatOf, ArgsOf, Rendered
  <1>3. /\ A \in Seq(Values) /\ f = c \o F /\ a = <<>> \o A
        /\ Plain(items) => t \in Texts /\ u = t \o c
    BY <1>1, <1>2 DEF NextIs
  <1>4. c \in Seq(Chars \ {"%", NUL})
    <2>1. c \in Seq(Chars \ {NUL}) /\ "%" \notin Range(c)
      BY <1>1 DEF NoPercent, HasPercent, Texts
    <2> HIDE DEF c
    <2>2. Len(c) \in Nat /\ \A i \in 1 .. Len(c) : c[i] \in Chars \ {"%", NUL}
      BY <2>1 DEF Range
    <2>3. QED
      BY <2>1, <2>2
  <1> HIDE DEF A, F, c, u
  <1>5. a = A
    BY ONLY <1>3
  <1>6. QED
    BY <1>1, <1>3, <1>4, <1>5 DEF Place, A, F, u, c

LEMMA Settling ==
    ASSUME NEW items, GoodItems(items), NoPercent(items), NEW k, NEW f, NEW a, NEW t,
           Place(items, k, <<>>, f, a, t)
    PROVE  \E i, rest : Place(items, i, rest, f, a, t) /\ Settled(items, i, rest)
  <1> DEFINE n == Len(items)
             goal == \E i, rest : Place(items, i, rest, f, a, t) /\ Settled(items, i, rest)
             S == {m \in Nat : \A i \in 0 .. n : n - i = m /\ Place(items, i, <<>>, f, a, t) => goal}
  <1>1. n \in Nat /\ k \in 0 .. n
    BY DEF GoodItems, Place
  <1>2. 0 \in S
    <2> SUFFICES ASSUME NEW i \in 0 .. n, n - i = 0, Place(items, i, <<>>, f, a, t) PROVE goal
      OBVIOUS
    <2>1. i = n
      BY <1>1
    <2>2. Settled(items, i, <<>>)
      BY <2>1 DEF Settled
    <2>3. QED
      BY <2>2
  <1>3. ASSUME NEW m \in Nat, m \in S PROVE m + 1 \in S
    <2> SUFFICES ASSUME NEW i \in 0 .. n, n - i = m + 1, Place(items, i, <<>>, f, a, t) PROVE goal
      OBVIOUS
    <2> HIDE DEF goal
    <2>1. i < n /\ n - (i + 1) = m /\ i + 1 \in 0 .. n
      BY <1>1
    <2>2. i + 1 \in DOMAIN items /\ WellFormed(items[i + 1])
      BY <1>1, <2>1 DEF GoodItems
    <2>3. CASE SpecItem(items[i + 1])
      BY <2>3 DEF Settled, goal
    <2>4. CASE items[i + 1].kind = "text" /\ items[i + 1].chars \in Texts
      <3> DEFINE c == items[i + 1].chars
      <3>1. Place(items, i + 1, c, f, a, t)
        BY <2>1, <2>4, TextNext
      <3>2. CASE c # <<>>
        <4>1. Settled(items, i + 1, c)
          BY <3>2 DEF Settled
        <4> HIDE DEF c
        <4>2. QED
          BY <3>1, <4>1 DEF goal
      <3>3. CASE c = <<>>
        <4>1. Place(items, i + 1, <<>>, f, a, t)
          BY <3>1, <3>3
        <4>2. QED
          BY <1>3, <2>1, <4>1
      <3>4. QED
        BY <3>2, <3>3
    <2>5. QED
      BY <2>2, <2>3, <2>4, WellFormedItem
  <1>4. QED
    <2>1. n - k \in Nat
      BY <1>1
    <2> HIDE DEF S
    <2>2. n - k \in S
      BY <1>2, <1>3, <2>1, Onwards
    <2>3. QED
      BY <1>1, <2>2 DEF S
----------------------------------------------------------------------------
(* What the loop meets: a character of a text, a specification, or the end.*)
LEMMA TextAhead ==
    ASSUME NEW items, GoodItems(items), NEW k, NEW rest, NEW a, NEW t,
           Place(items, k, rest, fmt, a, t), rest # <<>>
    PROVE  /\ First(fmt) = rest[1] /\ rest[1] \in Chars \ {"%", NUL} /\ fmt # <<>>
           /\ Specs = {} /\ ~Specified
           /\ Tail(rest) \in Seq(Chars \ {"%", NUL})
           /\ Tail(fmt) = Tail(rest) \o From(FormatsOf(items), k)
  <1> DEFINE C == Chars \ {"%", NUL}
             F == From(FormatsOf(items), k)
  <1>1. rest \in Seq(C) /\ rest \in Seq(Chars) /\ fmt = rest \o F
    BY DEF Place
  <1>2. F \in Seq(Chars)
    <2>1. k \in 0 .. Len(FormatsOf(items)) /\ FormatsOf(items) \in Seq(Seq(Chars))
      BY JobTexts DEF Place
    <2>2. QED
      BY ONLY <2>1, FromIs
  <1>3. rest[1] \in C /\ Tail(rest) \in Seq(C)
    BY <1>1
  <1> HIDE DEF F
  <1>4. First(fmt) = rest[1] /\ fmt # <<>> /\ Tail(fmt) = Tail(rest) \o F
    BY <1>1, <1>2, HeadOf
  <1>5. Specs = {} /\ ~Specified
    BY <1>3, <1>4 DEF Specs, Specified
  <1>6. QED
    BY <1>3, <1>4, <1>5 DEF F

LEMMA EndAhead ==
    ASSUME NEW items, GoodItems(items), NEW a, NEW t,
           Place(items, Len(items), <<>>, fmt, a, t)
    PROVE  /\ fmt = <<>> /\ a = <<>> /\ First(fmt) = NUL /\ Specs = {} /\ ~Specified
           /\ Plain(items) => t = FlattenSeq(RenderingsOf(items))
  <1> DEFINE n == Len(items)
             F == FormatsOf(items)
             A == ArgumentsOf(items)
             R == RenderingsOf(items)
  <1>1. n \in 0 .. n
    BY DEF GoodItems
  <1>2. /\ F \in Seq(Seq(Chars)) /\ Len(F) = n /\ A \in Seq(Seq(Values)) /\ Len(A) = n
        /\ Plain(items) => R \in Seq(Texts)
        /\ Len(R) = n
    BY JobTexts
  <1>3. /\ fmt = <<>> \o From(F, n) /\ a = From(A, n)
        /\ Plain(items) => t \in Texts /\ t \o <<>> = UpTo(R, n)
    BY DEF Place
  <1> HIDE DEF F, A, R, n
  <1>4. From(F, n) = <<>> /\ From(A, n) = <<>>
    <2>1. From(F, n) = <<>>
      BY ONLY <1>1, <1>2, FromIs
    <2>2. From(A, n) = <<>>
      BY ONLY <1>1, <1>2, FromIs
    <2>3. QED
      BY <2>1, <2>2
  <1>5. fmt = <<>> /\ a = <<>>
    BY <1>3, <1>4
  <1>6. ASSUME Plain(items) PROVE t = FlattenSeq(R)
    <2>1. R \in Seq(Seq(Chars \ {NUL})) /\ t \in Seq(Chars \ {NUL}) /\ t \o <<>> = UpTo(R, n)
      BY <1>2, <1>3, <1>6 DEF Texts
    <2>2. UpTo(R, n) = FlattenSeq(R)
      BY ONLY <1>1, <1>2, <2>1, UpToIs
    <2>3. t \o <<>> = t
      BY ONLY <2>1
    <2>4. QED
      BY <2>1, <2>2, <2>3
  <1>7. First(fmt) = NUL /\ Specs = {} /\ ~Specified
    BY <1>5 DEF First, Specs, Specified, NUL
  <1>8. QED
    BY <1>5, <1>6, <1>7 DEF R

LEMMA SpecAhead ==
    ASSUME NEW items, GoodItems(items), NEW k, NEW t,
           Place(items, k, <<>>, fmt, args, t), k < Len(items), SpecItem(items[k + 1]),
           phase = "printing", NEW F, NEW A, NEW item,
           F = From(FormatsOf(items), k + 1), A = From(ArgumentsOf(items), k + 1),
           item = items[k + 1]
    PROVE  /\ First(fmt) = "%" /\ First(Tail(fmt)) # "%" /\ fmt # <<>>
           /\ Specs = {ReadItem(item, F, item.args \o A)} /\ ~Missing
           /\ F \in Seq(Chars) /\ A \in Seq(Values)
  <1> DEFINE q == AfterFlags(item, F)
             s == item.flags \o q
             r == item.args \o A
  <1>1. k + 1 \in DOMAIN items /\ NextIs(items, k, fmt, args, t)
    BY NextPlace
  <1>2. /\ F \in Seq(Chars) /\ A \in Seq(Values)
        /\ fmt = FormatOf(item) \o F /\ args = ArgsOf(item) \o A
    BY <1>1 DEF NextIs
  <1>3. WellFormed(item) /\ SpecItem(item)
    BY <1>1 DEF GoodItems
  <1>4. fmt = <<"%">> \o s
    BY <1>2, <1>3, FormatIs
  <1>5. s \in Seq(Chars) /\ First(s) # "%"
    <2>1. /\ item.flags \o AfterFlags(item, F) \in Seq(Chars)
          /\ First(item.flags \o AfterFlags(item, F)) # "%"
      <3> DEFINE q2 == AfterWidth(item, F)
                 q3 == AfterPrecision(item, F)
                 q4 == AfterSpec(item, F)
      <3>1. /\ q = AfterFlags(item, F) /\ q2 = AfterWidth(item, F)
            /\ q3 = AfterPrecision(item, F) /\ q4 = AfterSpec(item, F)
        OBVIOUS
      <3>2. SpecItem(item) /\ F \in Seq(Chars)
        BY <1>2, <1>3
      <3> HIDE DEF q, q2, q3, q4
      <3>3. item.flags \o q \in Seq(Chars) /\ First(item.flags \o q) # "%"
        BY ONLY <3>1, <3>2, Remains
      <3>4. QED
        BY <3>1, <3>3
    <2>2. QED
      BY <2>1
  <1>6. "%" \in Chars
    BY CharsAssumption DEF Marks
  <1>7. /\ <<"%">> \o s \in Seq(Chars) /\ (<<"%">> \o s)[1] = "%" /\ Tail(<<"%">> \o s) = s
        /\ <<"%">> \o s # <<>>
    <2> HIDE DEF s
    <2>1. /\ <<"%">> \o s \in Seq(Chars) /\ (<<"%">> \o s)[1] = "%" /\ Tail(<<"%">> \o s) = s
      BY <1>5, <1>6, TakeOne
    <2>2. <<"%">> \o s # <<>>
      <3> DEFINE h == <<"%">>
      <3>1. h \in Seq(Chars) /\ h # <<>> /\ s \in Seq(Chars)
        BY <1>5, <1>6
      <3> HIDE DEF h
      <3>2. h \o s # <<>>
        BY ONLY <3>1, HeadOf
      <3>3. QED
        BY <3>2 DEF h
    <2>3. QED
      BY <2>1, <2>2
  <1>8. First(fmt) = "%" /\ Tail(fmt) = s /\ fmt # <<>> /\ First(Tail(fmt)) # "%"
    <2> HIDE DEF s
    <2>1. QED
      BY <1>4, <1>5, <1>7 DEF First
  <1>9. args = item.stars \o r /\ r \in Seq(Values)
    <2> DEFINE x == item.stars
               y == item.args
    <2>1. x \in Seq(Values) /\ y \in Seq(Values) /\ ArgsOf(item) = x \o y
      <3>1. y \in Seq(Values) /\ ArgsOf(item) = x \o y
        BY <1>3, ArgumentIs
      <3>2. Half[NoLength] \in Nat
        BY Halves
      <3> DEFINE S == -Half[NoLength] .. Half[NoLength] - 1
      <3>3. S \subseteq Values /\ x \in Seq(S)
        BY <1>3, <3>2 DEF Values, SpecItem
      <3> HIDE DEF S, x, y
      <3>4. x \in Seq(Values)
        BY ONLY <3>3
      <3>5. QED
        BY <3>1, <3>4
    <2> HIDE DEF x, y
    <2>2. (x \o y) \o A = x \o (y \o A) /\ y \o A \in Seq(Values)
      <3>1. x \in Seq(Values) /\ y \in Seq(Values) /\ A \in Seq(Values)
        BY <1>2, <2>1
      <3>2. QED
        BY ONLY <3>1
    <2>3. QED
      BY <1>2, <2>1, <2>2 DEF x, y
  <1>10. Parsed(s, args) = ReadItem(item, F, r)
    <2>1. Int \subseteq Values
      BY DEF Values
    <2>2. s = item.flags \o AfterFlags(item, F)
      OBVIOUS
    <2> HIDE DEF s, r, q
    <2>3. SpecItem(item) /\ F \in Seq(Chars) /\ args = item.stars \o r /\ r \in Seq(Values)
      BY <1>2, <1>3, <1>9
    <2>4. QED
      BY ONLY <2>1, <2>2, <2>3, ParsedIs
  <1>11. ~Missing
    <2> DEFINE more == args \o Spare
               left == r \o Spare
               read == Parsed(s, more)
    <2>1. Int \subseteq Values /\ Spare \in Seq(Values) /\ Len(Spare) = 3
      BY DEF Values, Spare
    <2>2. more = item.stars \o left /\ left \in Seq(Values) /\ Len(left) = Len(r) + 3
      <3> DEFINE x == item.stars
      <3>1. x \in Seq(Values)
        <4>1. Half[NoLength] \in Nat
          BY Halves
        <4> DEFINE S == -Half[NoLength] .. Half[NoLength] - 1
        <4>2. S \subseteq Values /\ x \in Seq(S)
          BY <1>3, <4>1 DEF Values, SpecItem
        <4> HIDE DEF S, x
        <4>3. QED
          BY ONLY <4>2
      <3>2. args = x \o r /\ r \in Seq(Values)
        BY <1>9
      <3> HIDE DEF x, r
      <3>3. /\ (x \o r) \o Spare = x \o (r \o Spare) /\ r \o Spare \in Seq(Values)
            /\ Len(r \o Spare) = Len(r) + Len(Spare)
        <4> DEFINE y == Spare
        <4>1. x \in Seq(Values) /\ r \in Seq(Values) /\ y \in Seq(Values)
          BY <2>1, <3>1, <3>2
        <4> HIDE DEF y
        <4>2. (x \o r) \o y = x \o (r \o y)
          BY ONLY <4>1
        <4>3. r \o y \in Seq(Values) /\ Len(r \o y) = Len(r) + Len(y)
          BY ONLY <4>1
        <4>4. QED
          BY <4>2, <4>3 DEF y
      <3>4. QED
        BY <2>1, <3>2, <3>3 DEF x
    <2>3. read = ReadItem(item, F, left)
      <3>1. s = item.flags \o AfterFlags(item, F)
        OBVIOUS
      <3> HIDE DEF s, r, q, more, left
      <3>2. SpecItem(item) /\ F \in Seq(Chars)
        BY <1>2, <1>3
      <3>3. QED
        BY ONLY <2>1, <2>2, <3>1, <3>2, ParsedIs DEF read
    <2>4. read.args = left /\ Taken(read) <= Len(r)
      <3>1. Len(r) = Len(item.args) + Len(A)
        BY <1>2, <1>3, ArgumentIs
      <3>2. Len(A) \in Nat /\ Len(item.args) \in Nat
        BY <1>2, <1>3, ArgumentIs
      <3>3. Takes(item) => Len(item.args) = 1
        BY <1>3, ArgumentIs
      <3> HIDE DEF s, r, q, more, left, read
      <3>4. read.args = left /\ read.specifier = item.specifier /\ read.length = item.length
        BY <1>3, <2>3, ReadItemIs
      <3>5. Taken(read) = IF Takes(item) THEN 1 ELSE 0
        BY <3>4 DEF Taken, Takes
      <3>6. Taken(read) <= Len(r)
        <4>1. CASE Takes(item)
          <5>1. Len(item.args) = 1 /\ Taken(read) = 1
            BY ONLY <3>3, <3>5, <4>1
          <5>2. QED
            BY ONLY <3>1, <3>2, <5>1
        <4>2. CASE ~Takes(item)
          BY ONLY <3>1, <3>2, <3>5, <4>2
        <4>3. QED
          BY <4>1, <4>2
      <3>7. QED
        BY <3>4, <3>6
    <2>5. Len(r) \in Nat /\ Taken(read) \in Nat
      <3>1. r \in Seq(Values)
        BY <1>9
      <3> HIDE DEF s, r, q, more, left, read
      <3>2. Len(r) \in Nat
        BY ONLY <3>1
      <3>3. QED
        BY <3>2 DEF Taken
    <2> HIDE DEF s, r, q, more, left, read
    <2>6. ~(Len(read.args) < Len(Spare) + Taken(read))
      BY <2>1, <2>2, <2>4, <2>5
    <2>7. Missing = (Len(read.args) < Len(Spare) + Taken(read))
      BY <1>8 DEF Missing, read, more
    <2>8. QED
      BY ONLY <2>6, <2>7
  <1>12. Specs = {Parsed(Tail(fmt), args)}
    BY <1>8, <1>11 DEF Specs, Specified
  <1>13. QED
    BY <1>2, <1>8, <1>10, <1>11, <1>12
----------------------------------------------------------------------------
(* What is put into the buffer and sent to the printer.                    *)
LEMMA KeptIs ==
    ASSUME buffer \in Texts, out \in Texts
    PROVE  Kept \in Texts /\ Sent \in Texts /\ Sent \o Kept = out \o buffer
  <1>1. CASE NotFull
    BY <1>1 DEF Kept, Sent
  <1>2. CASE ~NotFull
    <2>1. Kept = <<>> /\ Sent = out \o buffer
      BY <1>2, PrintedWhole DEF Kept, Sent, Texts
    <2>2. out \o buffer \in Texts /\ <<>> \in Texts
      BY DEF Texts
    <2> DEFINE x == out \o buffer
    <2>3. x \o <<>> = x
      <3>1. x \in Texts
        BY <2>2
      <3> HIDE DEF x
      <3>2. QED
        BY <3>1 DEF Texts
    <2>4. QED
      BY <2>1, <2>2, <2>3
  <1>3. QED
    BY <1>1, <1>2

LEMMA PutIs ==
    ASSUME buffer \in Texts, out \in Texts, NEW c \in Chars \ {NUL}, Put(c)
    PROVE  buffer' \in Texts /\ out' \in Texts /\ out' \o buffer' = (out \o buffer) \o <<c>>
  <1> DEFINE S == Chars \ {NUL}
             k == Kept
             o == Sent
             h == <<c>>
             b == Append(k, c)
  <1>1. /\ k \in Seq(S) /\ o \in Seq(S) /\ o \o k = out \o buffer
        /\ h \in Seq(S) /\ Len(h) = 1 /\ h[1] = c
    BY KeptIs DEF Texts
  <1>2. buffer' = b /\ out' = o
    BY DEF Put
  <1> HIDE DEF k, o, h
  <1>3. b \in Seq(S) /\ b = k \o h
    <2> DEFINE x == k \o h
    <2>1. b \in Seq(S) /\ Len(b) = Len(k) + 1 /\ b[Len(k) + 1] = c /\ Len(k) \in Nat
          /\ \A i \in 1 .. Len(k) : b[i] = k[i]
      BY <1>1
    <2>2. x \in Seq(S) /\ Len(x) = Len(k) + 1 /\ x[Len(k) + 1] = h[1]
          /\ \A i \in 1 .. Len(k) : x[i] = k[i]
      <3>1. k \in Seq(S) /\ h \in Seq(S)
        BY <1>1
      <3>2. /\ x \in Seq(S) /\ Len(x) = Len(k) + Len(h)
            /\ \A i \in 1 .. Len(k) : x[i] = k[i]
            /\ \A i \in 1 .. Len(h) : x[Len(k) + i] = h[i]
        BY ONLY <3>1, Concatenated
      <3> HIDE DEF x
      <3>3. QED
        BY ONLY <1>1, <3>2
    <2> HIDE DEF x, b
    <2>3. \A i \in 1 .. Len(b) : b[i] = x[i]
      <3> SUFFICES ASSUME NEW i \in 1 .. Len(b) PROVE b[i] = x[i]
        OBVIOUS
      <3>1. i \in 1 .. Len(k) \/ i = Len(k) + 1
        BY <2>1
      <3>2. QED
        BY <1>1, <2>1, <2>2, <3>1
    <2>4. b = x
      <3>1. Len(b) = Len(x)
        BY <2>1, <2>2
      <3>2. QED
        BY ONLY <2>1, <2>2, <2>3, <3>1, SameText
    <2>5. QED
      BY <2>1, <2>4 DEF x
  <1> HIDE DEF b
  <1>4. o \o (k \o h) = (o \o k) \o h
    <2>1. o \in Seq(S) /\ k \in Seq(S) /\ h \in Seq(S)
      BY <1>1
    <2> HIDE DEF S
    <2>2. (o \o k) \o h = o \o (k \o h)
      <3>1. Regroups(o, k, h)
        BY ONLY <2>1, Regrouping
      <3>2. QED
        BY ONLY <3>1 DEF Regroups
    <2>3. QED
      BY ONLY <2>2
  <1>5. QED
    BY <1>1, <1>2, <1>3, <1>4 DEF h, Texts

LEMMA SendIs ==
    ASSUME buffer \in Texts, out \in Texts, NEW text \in Texts, Send(text)
    PROVE  buffer' \in Texts /\ out' \in Texts /\ out' \o buffer' = (out \o buffer) \o text
  <1> DEFINE S == Chars \ {NUL}
             k == Kept
             o == Sent
  <1>1. k \in Seq(S) /\ o \in Seq(S) /\ o \o k = out \o buffer /\ text \in Seq(S)
    BY KeptIs DEF Texts
  <1>2. buffer' = <<>> /\ out' = (o \o Printed(k)) \o Printed(text)
    BY DEF Send
  <1>3. Printed(k) = k /\ Printed(text) = text
    BY <1>1, PrintedWhole
  <1> HIDE DEF k, o
  <1> DEFINE x == (o \o k) \o text
  <1>4. x \in Seq(S)
    <2>1. o \in Seq(S) /\ k \in Seq(S) /\ text \in Seq(S)
      BY <1>1
    <2>2. QED
      BY ONLY <2>1
  <1> HIDE DEF x
  <1>5. x \o <<>> = x /\ <<>> \in Seq(S)
    BY <1>4
  <1>6. out' = x
    BY <1>2, <1>3 DEF x
  <1>7. QED
    BY <1>1, <1>2, <1>4, <1>5, <1>6 DEF x, Texts

(* The job goes on, with the next character, specification, or its end.    *)
Onward(items, f, a, t) ==
    \E k, rest : Place(items, k, rest, f, a, t) /\ Settled(items, k, rest)

LEMMA AfterItem ==
    ASSUME NEW items, GoodItems(items), NoPercent(items), NEW k, NEW f, NEW a, NEW t,
           Place(items, k, <<>>, f, a, t), k < Len(items),
           NEW u, Plain(items) => u \in Texts /\ u = t \o Rendered(items[k + 1])
    PROVE  Onward(items, From(FormatsOf(items), k + 1), From(ArgumentsOf(items), k + 1), u)
  <1> DEFINE F == From(FormatsOf(items), k + 1)
             A == From(ArgumentsOf(items), k + 1)
             x == UpTo(RenderingsOf(items), k + 1)
  <1>1. k + 1 \in 0 .. Len(items) /\ NextIs(items, k, f, a, t)
    BY NextPlace
  <1>2. F \in Seq(Chars) /\ (Plain(items) => u \in Texts /\ x = u)
    BY <1>1 DEF NextIs
  <1> HIDE DEF F, x
  <1>3. <<>> \o F = F /\ <<>> \in Seq(Chars \ {"%", NUL})
    BY <1>2
  <1>4. u \in Texts => u \o <<>> = u
    BY DEF Texts
  <1>5. Place(items, k + 1, <<>>, F, A, u)
    BY <1>1, <1>2, <1>3, <1>4 DEF Place, F, x
  <1> HIDE DEF A
  <1>6. \E i, rest : Place(items, i, rest, F, A, u) /\ Settled(items, i, rest)
    BY <1>5, Settling
  <1>7. QED
    BY <1>6 DEF Onward, F, A

(* The argument that a conversion takes, and what is left.                 *)
LEMMA ArgumentTaken ==
    ASSUME NEW item, WellFormed(item), SpecItem(item), NEW A, A \in Seq(Values),
           NEW r, r = item.args \o A
    PROVE  /\ Takes(item) => r[1] = item.args[1] /\ SubSeq(r, 2, Len(r)) = A
           /\ ~Takes(item) => SubSeq(r, 1, Len(r)) = A
  <1> DEFINE x == item.args
  <1>1. x \in Seq(Values) /\ (Takes(item) => Len(x) = 1) /\ (~Takes(item) => x = <<>>)
    BY ArgumentIs
  <1> HIDE DEF x
  <1>2. After(x \o A, x) = A
    BY ONLY <1>1, A \in Seq(Values), AfterPart
  <1>3. r = x \o A
    BY DEF x
  <1>4. /\ Len(r) = Len(x) + Len(A)
        /\ \A i \in 1 .. Len(x) : r[i] = x[i]
    <2>1. x \in Seq(Values) /\ A \in Seq(Values)
      BY <1>1
    <2>2. QED
      BY ONLY <1>3, <2>1, Concatenated
  <1>5. ASSUME Takes(item) PROVE r[1] = x[1] /\ SubSeq(r, 2, Len(r)) = A
    <2>1. Len(x) = 1 /\ 1 \in 1 .. 1
      BY <1>1, <1>5
    <2>2. SubSeq(r, 1 + 1, Len(r)) = A
      BY ONLY <1>2, <1>3, <2>1 DEF After
    <2>3. QED
      BY ONLY <1>4, <2>1, <2>2
  <1>6. ASSUME ~Takes(item) PROVE SubSeq(r, 1, Len(r)) = A
    <2>1. x = <<>>
      BY <1>1, <1>6
    <2>2. r = A
      BY ONLY <1>3, <2>1, A \in Seq(Values)
    <2>3. SubSeq(r, 1, Len(r)) = A
      BY ONLY <2>2, A \in Seq(Values)
    <2>4. QED
      BY <2>3
  <1>7. QED
    BY <1>5, <1>6 DEF x
----------------------------------------------------------------------------
(* One specification is carried out, or found to be too much.              *)
Contributed(items, item, F, A) ==
    /\ job' = job /\ phase' = phase /\ fmt' = F /\ args' = A
    /\ Plain(items) =>
           /\ buffer' \in Texts /\ out' \in Texts
           /\ out' \o buffer' = (out \o buffer) \o Rendered(item)

SpecSteps ==
    \/ PrintNumber \/ NumberOverruns \/ NoSuchNumber \/ PutCharacter \/ PrintString
    \/ StringOverruns \/ UnknownSpecifier \/ Unfinished

LEMMA SpecStep ==
    ASSUME NEW items, NEW item, WellFormed(item), SpecItem(item),
           Plain(items) => ~EndsText(item) /\ buffer \in Texts /\ out \in Texts,
           NEW F, NEW A, A \in Seq(Values), NEW spec,
           spec = ReadItem(item, F, item.args \o A), Specs = {spec}, SpecSteps
    PROVE  \/ Contributed(items, item, F, A)
           \/ Overrun /\ TooMuch(item)
  <1> DEFINE r == item.args \o A
             a == r[1]
             so == SpecOf(item)
  <1>1. /\ spec.fmt = F /\ spec.args = r
        /\ spec.length = item.length /\ spec.specifier = item.specifier
        /\ NumberText(a, spec) = NumberText(a, so)
        /\ NumberFits(a, spec) = NumberFits(a, so)
        /\ StringText(a, spec) = StringText(a, so)
        /\ StringFits(a, spec) = StringFits(a, so)
    <2>1. spec = ReadItem(item, F, r)
      OBVIOUS
    <2> HIDE DEF r
    <2>2. QED
      BY <2>1, ReadItemIs
  <1>2. /\ Takes(item) => a = item.args[1] /\ SubSeq(r, 2, Len(r)) = A
        /\ ~Takes(item) => SubSeq(r, 1, Len(r)) = A
    BY ArgumentTaken
  <1>3. /\ so.width = WidthOf(item) /\ so.precision = PrecisionOf(item)
        /\ so.flags = Range(item.flags) /\ so.width \in Int /\ so.precision \in Int
        /\ item.specifier \in Numbers /\ item.length # LongDouble => NumberSpec(so)
    BY SpecOfIs
  <1>4. /\ item.specifier \in Numbers /\ item.length # LongDouble => item.args[1] \in Int
        /\ item.specifier = "c" => item.args[1] \in Chars /\ item.args = <<item.args[1]>>
        /\ item.specifier = "s" => item.args[1] \in Texts
    BY ArgumentIs
  <1>5. item.kind = "spec" /\ item.kind # "text" /\ item.specifier # NUL
    BY DEF SpecItem
  <1>6. Plain(items) => Rendered(item) \in Texts
    BY RenderedIs
  <1>7. ~("c" \in Numbers) /\ ~("s" \in Numbers)
    BY DEF Numbers
  <1> HIDE DEF so, r
  <1>8. /\ \A n : Past(spec, n) => job' = job /\ phase' = phase /\ fmt' = F
        /\ Past(spec, 1) => args' = SubSeq(r, 2, Len(r))
        /\ Past(spec, 0) => args' = SubSeq(r, 1, Len(r))
    BY <1>1 DEF Past
  <1>9. Past(spec, 1) /\ Takes(item) => job' = job /\ phase' = phase /\ fmt' = F /\ args' = A
    BY <1>2, <1>8
  <1>10. Past(spec, 0) /\ ~Takes(item) => job' = job /\ phase' = phase /\ fmt' = F /\ args' = A
    BY <1>2, <1>8
  <1>11. CASE PrintNumber
    <2>1. /\ item.specifier \in Numbers /\ item.length # LongDouble
          /\ Send(NumberText(a, so)) /\ Past(spec, 1)
      BY <1>1, <1>11 DEF PrintNumber
    <2>2. Takes(item)
      BY <2>1 DEF Takes
    <2>3. Rendered(item) = NumberText(a, so)
      BY <1>2, <1>5, <1>7, <2>1, <2>2 DEF Rendered, so
    <2>4. Plain(items) => /\ buffer' \in Texts /\ out' \in Texts
                          /\ out' \o buffer' = (out \o buffer) \o Rendered(item)
      BY <1>6, <2>1, <2>3, SendIs
    <2>5. QED
      BY <1>9, <2>1, <2>2, <2>4 DEF Contributed
  <1>12. CASE NumberOverruns
    <2>1. /\ item.specifier \in Numbers /\ item.length # LongDouble /\ ~NumberFits(a, so) /\ Overrun
      BY <1>1, <1>12 DEF NumberOverruns
    <2>2. a \in Int /\ NumberSpec(so)
      BY <1>2, <1>3, <1>4, <2>1 DEF Takes
    <2>3. so.width >= BufLen \/ so.precision + 3 >= BufLen
      BY <2>1, <2>2, NumberIsIn
    <2>4. QED
      BY <1>3, <1>5, <2>1, <2>3 DEF TooMuch
  <1>13. CASE NoSuchNumber
    <2>1. /\ item.specifier \in Numbers /\ item.length = LongDouble
          /\ buffer' = Kept /\ out' = Sent /\ Past(spec, 0)
      BY <1>1, <1>13 DEF NoSuchNumber
    <2>2. ~Takes(item)
      BY <1>7, <2>1 DEF Takes
    <2>3. Rendered(item) = <<>>
      BY <1>5, <1>7, <2>1 DEF Rendered
    <2>4. ASSUME Plain(items)
          PROVE  /\ buffer' \in Texts /\ out' \in Texts
                 /\ out' \o buffer' = (out \o buffer) \o Rendered(item)
      <3>1. Kept \in Texts /\ Sent \in Texts /\ Sent \o Kept = out \o buffer
        BY <2>4, KeptIs
      <3> DEFINE x == out \o buffer
      <3>2. x \in Texts
        BY <2>4 DEF Texts
      <3> HIDE DEF x
      <3>3. x \o <<>> = x
        BY <3>2 DEF Texts
      <3>4. QED
        BY <2>1, <2>3, <3>1, <3>3 DEF x
    <2>5. QED
      BY <1>10, <2>1, <2>2, <2>4 DEF Contributed
  <1>14. CASE PutCharacter
    <2>1. item.specifier = "c" /\ Put(a) /\ Past(spec, 1)
      BY <1>1, <1>14 DEF PutCharacter
    <2>2. Takes(item) /\ a = item.args[1] /\ a \in Chars /\ item.args = <<a>>
      BY <1>2, <1>4, <2>1 DEF Takes
    <2>3. Rendered(item) = <<a>>
      BY <1>5, <1>7, <2>1, <2>2 DEF Rendered
    <2>4. Plain(items) => a # NUL
      BY <1>5, <2>1, <2>2 DEF EndsText
    <2>5. ASSUME Plain(items)
          PROVE  /\ buffer' \in Texts /\ out' \in Texts
                 /\ out' \o buffer' = (out \o buffer) \o Rendered(item)
      <3>1. a \in Chars \ {NUL} /\ Put(a) /\ buffer \in Texts /\ out \in Texts
        BY <2>1, <2>2, <2>4, <2>5
      <3> HIDE DEF a
      <3>2. /\ buffer' \in Texts /\ out' \in Texts
            /\ out' \o buffer' = (out \o buffer) \o <<a>>
        BY ONLY <3>1, PutIs
      <3>3. QED
        BY <2>3, <3>2
    <2>6. QED
      BY <1>9, <2>1, <2>2, <2>5 DEF Contributed
  <1>15. CASE PrintString
    <2>1. item.specifier = "s" /\ Send(StringText(a, so)) /\ Past(spec, 1)
      BY <1>1, <1>15 DEF PrintString
    <2>2. Takes(item)
      BY <2>1 DEF Takes
    <2>3. Rendered(item) = StringText(a, so)
      BY <1>2, <1>5, <1>7, <2>1, <2>2 DEF Rendered, so
    <2>4. Plain(items) => /\ buffer' \in Texts /\ out' \in Texts
                          /\ out' \o buffer' = (out \o buffer) \o Rendered(item)
      BY <1>6, <2>1, <2>3, SendIs
    <2>5. QED
      BY <1>9, <2>1, <2>2, <2>4 DEF Contributed
  <1>16. CASE StringOverruns
    <2>1. item.specifier = "s" /\ ~StringFits(a, so) /\ Overrun
      BY <1>1, <1>16 DEF StringOverruns
    <2>2. a = item.args[1] /\ a \in Texts
      BY <1>2, <1>4, <2>1 DEF Takes
    <2>3. \/ so.width >= BufLen \/ so.precision + 3 >= BufLen
          \/ so.width < 0 /\ "-" \notin so.flags
          \/ so.precision < 0 \/ Len(a) >= BufLen
      BY <1>3, <2>1, <2>2, StringIsIn
    <2>4. QED
      BY <1>3, <1>5, <2>1, <2>2, <2>3 DEF TooMuch
  <1>17. CASE UnknownSpecifier
    <2>1. item.specifier \notin Numbers \cup {"c", "s", NUL} /\ Put("?") /\ Past(spec, 0)
      BY <1>1, <1>17 DEF UnknownSpecifier
    <2>2. ~Takes(item)
      BY <2>1 DEF Takes
    <2>3. Rendered(item) = <<"?">>
      BY <1>5, <2>1 DEF Rendered
    <2>4. "?" \in Chars \ {NUL}
      BY CharsAssumption DEF Marks, NUL
    <2>5. Plain(items) => /\ buffer' \in Texts /\ out' \in Texts
                          /\ out' \o buffer' = (out \o buffer) \o Rendered(item)
      <3>1. SUFFICES ASSUME Plain(items)
                     PROVE  /\ buffer' \in Texts /\ out' \in Texts
                            /\ out' \o buffer' = (out \o buffer) \o <<"?">>
        BY <2>3
      <3>2. buffer \in Texts /\ out \in Texts
        BY <3>1
      <3>3. QED
        BY ONLY <2>1, <2>4, <3>2, PutIs
    <2>6. QED
      BY <1>10, <2>1, <2>2, <2>5 DEF Contributed
  <1>18. CASE Unfinished
    BY <1>1, <1>5, <1>18 DEF Unfinished
  <1>19. QED
    BY <1>11, <1>12, <1>13, <1>14, <1>15, <1>16, <1>17, <1>18 DEF SpecSteps
----------------------------------------------------------------------------
(* The invariant: what is printed, what is in the buffer, and what is left *)
(* of the text that is being copied, make up the items so far; format and  *)
(* arguments are those of the items to come.                               *)
OrderInv ==
    /\ job \in Jobs /\ phase \in {"printing", "done", "overrun"}
    /\ NoPercent(Items(job)) =>
           /\ Plain(Items(job)) => buffer \in Texts /\ out \in Texts
           /\ phase = "printing" => Onward(Items(job), fmt, args, out \o buffer)
           /\ phase = "overrun" => \E k \in DOMAIN Items(job) : TooMuch(Items(job)[k])
           /\ phase = "done" /\ Plain(Items(job)) =>
                  args = <<>> /\ out = FlattenSeq(RenderingsOf(Items(job)))

LEMMA OrderInit == Init => OrderInv
  <1> SUFFICES ASSUME Init PROVE OrderInv
    OBVIOUS
  <1> DEFINE items == Items(job)
             F == FormatsOf(items)
             A == ArgumentsOf(items)
             R == RenderingsOf(items)
  <1>1. /\ job \in Jobs /\ fmt = FlattenSeq(F) /\ args = FlattenSeq(A) /\ buffer = <<>> /\ out = <<>>
        /\ phase = "printing"
    BY DEF Init, JobFormat, JobArgs, FormatsOf, ArgumentsOf
  <1>2. GoodItems(items)
    BY <1>1, JobItems
  <1> HIDE DEF items
  <1>3. /\ F \in Seq(Seq(Chars)) /\ Len(F) = Len(items)
        /\ A \in Seq(Seq(Values)) /\ Len(A) = Len(items)
        /\ Plain(items) => R \in Seq(Texts)
        /\ Len(R) = Len(items) /\ 0 \in 0 .. Len(items)
    BY <1>2, JobTexts DEF GoodItems
  <1> HIDE DEF F, A, R
  <1>4. fmt = From(F, 0) /\ From(F, 0) \in Seq(Chars) /\ args = From(A, 0)
    <2>1. FlattenSeq(F) = From(F, 0) /\ From(F, 0) \in Seq(Chars)
      BY ONLY <1>3, FromIs
    <2>2. FlattenSeq(A) = From(A, 0)
      BY ONLY <1>3, FromIs
    <2>3. QED
      BY <1>1, <2>1, <2>2
  <1>5. Plain(items) => UpTo(R, 0) = <<>>
    <2> SUFFICES ASSUME Plain(items) PROVE UpTo(R, 0) = <<>>
      OBVIOUS
    <2>1. R \in Seq(Seq(Chars \ {NUL})) /\ 0 \in 0 .. Len(R)
      BY <1>3 DEF Texts
    <2>2. QED
      BY ONLY <2>1, UpToIs
  <1>6. fmt = <<>> \o From(F, 0) /\ <<>> \in Seq(Chars \ {"%", NUL})
    <2> DEFINE x == From(F, 0)
    <2>1. x \in Seq(Chars) /\ fmt = x
      BY <1>4
    <2> HIDE DEF x
    <2>2. fmt = <<>> \o x
      BY ONLY <2>1
    <2>3. QED
      BY <2>2 DEF x
  <1>7. out \o buffer = <<>> /\ <<>> \o <<>> = <<>> /\ <<>> \in Texts
    BY <1>1 DEF Texts
  <1>8. Place(items, 0, <<>>, fmt, args, out \o buffer)
    BY <1>3, <1>4, <1>5, <1>6, <1>7 DEF Place, F, A, R
  <1>9. NoPercent(items) => Onward(items, fmt, args, out \o buffer)
    <2> DEFINE t == out \o buffer
    <2>1. Place(items, 0, <<>>, fmt, args, t)
      BY <1>8
    <2> HIDE DEF t
    <2>2. NoPercent(items) => \E i, rest : Place(items, i, rest, fmt, args, t) /\ Settled(items, i, rest)
      BY <1>2, <2>1, Settling
    <2>3. QED
      BY <2>2 DEF Onward, t
  <1>10. QED
    BY <1>1, <1>7, <1>9 DEF OrderInv, items

(* A character of a text.                                                  *)
LEMMA LiteralStep ==
    ASSUME NEW items, GoodItems(items), NoPercent(items), NEW k, NEW rest,
           Place(items, k, rest, fmt, args, out \o buffer), rest # <<>>,
           Plain(items) => buffer \in Texts /\ out \in Texts,
           Put(rest[1]), fmt' = Tail(fmt), args' = args
    PROVE  /\ Onward(items, fmt', args', out' \o buffer')
           /\ Plain(items) => buffer' \in Texts /\ out' \in Texts
  <1> DEFINE c == rest[1]
             u == Tail(rest)
             h == <<c>>
             S == Chars \ {"%", NUL}
             T == Chars \ {NUL}
             t == out \o buffer
             v == out' \o buffer'
             F == From(FormatsOf(items), k)
             R == UpTo(RenderingsOf(items), k)
  <1>1. /\ c \in S /\ u \in Seq(S) /\ Tail(fmt) = u \o F
    BY TextAhead
  <1>2. /\ k \in 0 .. Len(items) /\ rest \in Seq(S) /\ args = From(ArgumentsOf(items), k)
        /\ Plain(items) => t \in Texts /\ t \o rest = R
    BY DEF Place
  <1>3. Plain(items) => buffer' \in Texts /\ out' \in Texts /\ v = t \o h
    BY <1>1, PutIs
  <1>4. rest = h \o u
    <2> DEFINE x == h \o u
    <2>1. /\ h \in Seq(S) /\ Len(h) = 1 /\ h[1] = c
      BY <1>1
    <2>2. /\ Len(u) = Len(rest) - 1 /\ Len(rest) \in Nat /\ Len(rest) >= 1
          /\ \A i \in 1 .. Len(rest) - 1 : u[i] = rest[i + 1]
      BY <1>2
    <2>3. rest[1] = c
      OBVIOUS
    <2> HIDE DEF h, u, c
    <2>4. x \in Seq(S) /\ Len(x) = 1 + Len(u) /\ x[1] = c /\ \A i \in 1 .. Len(u) : x[1 + i] = u[i]
      <3>1. h \in Seq(S) /\ u \in Seq(S)
        BY <1>1, <2>1
      <3>2. /\ x \in Seq(S) /\ Len(x) = Len(h) + Len(u)
            /\ \A i \in 1 .. Len(h) : x[i] = h[i]
            /\ \A i \in 1 .. Len(u) : x[Len(h) + i] = u[i]
        BY ONLY <3>1, Concatenated
      <3> HIDE DEF x
      <3>3. QED
        BY ONLY <2>1, <3>2
    <2> HIDE DEF x
    <2>5. ASSUME NEW i \in 1 .. Len(rest) PROVE rest[i] = x[i]
      <3>1. CASE i = 1
        BY <2>3, <2>4, <3>1
      <3>2. CASE i # 1
        <4>1. i - 1 \in 1 .. Len(u) /\ i - 1 \in 1 .. Len(rest) - 1 /\ 1 + (i - 1) = i /\ (i - 1) + 1 = i
          BY <2>2, <3>2
        <4>2. x[1 + (i - 1)] = u[i - 1] /\ u[i - 1] = rest[(i - 1) + 1]
          BY <2>2, <2>4, <4>1
        <4>3. QED
          BY ONLY <4>1, <4>2
      <3>3. QED
        BY <3>1, <3>2
    <2>6. Len(rest) = Len(x)
      BY ONLY <2>2, <2>4
    <2>7. rest = x
      BY ONLY <1>2, <2>4, <2>5, <2>6, SameText
    <2>8. QED
      BY <2>7 DEF x
  <1>5. Plain(items) => v \in Texts /\ v \o u = R
    <2> SUFFICES ASSUME Plain(items) PROVE v \in Texts /\ v \o u = R
      OBVIOUS
    <2>1. t \in Seq(T) /\ h \in Seq(T) /\ u \in Seq(T)
      <3>1. c \in T /\ S \subseteq T
        BY <1>1
      <3> HIDE DEF c, u, S, T
      <3>2. h \in Seq(T) /\ u \in Seq(T)
        BY <1>1, <3>1
      <3>3. QED
        BY <1>2, <3>2 DEF Texts, T
    <2>2. v = t \o h /\ t \o (h \o u) = R
      BY <1>2, <1>3, <1>4
    <2> HIDE DEF t, h, u, v, T, R
    <2>3. (t \o h) \o u = t \o (h \o u) /\ t \o h \in Seq(T)
      BY ONLY <2>1
    <2>4. QED
      BY <2>2, <2>3 DEF Texts, T
  <1>6. Place(items, k, u, fmt', args', v)
    <2>1. fmt' = u \o F /\ args' = From(ArgumentsOf(items), k)
      BY <1>1, <1>2
    <2> HIDE DEF v, u
    <2>2. QED
      BY <1>1, <1>2, <1>5, <2>1 DEF Place
  <1> HIDE DEF v, u
  <1>7. CASE u = <<>>
    <2>1. Place(items, k, <<>>, fmt', args', v)
      BY <1>6, <1>7
    <2> DEFINE f == fmt'
               a == args'
    <2>2. Place(items, k, <<>>, f, a, v)
      BY <2>1
    <2> HIDE DEF f, a
    <2>3. \E i, r : Place(items, i, r, f, a, v) /\ Settled(items, i, r)
      BY <2>2, Settling
    <2>4. Onward(items, f, a, v)
      BY <2>3 DEF Onward
    <2>5. QED
      BY <1>3, <2>4 DEF f, a, v
  <1>8. CASE u # <<>>
    <2>1. Settled(items, k, u)
      BY <1>8 DEF Settled
    <2>2. Onward(items, fmt', args', v)
      BY <1>6, <2>1 DEF Onward
    <2>3. QED
      BY <1>3, <2>2 DEF v
  <1>9. QED
    BY <1>7, <1>8

LEMMA OrderStep == OrderInv /\ [Next]_vars => OrderInv'
  <1> SUFFICES ASSUME OrderInv, [Next]_vars PROVE OrderInv'
    OBVIOUS
  <1> DEFINE items == Items(job)
  <1>1. CASE UNCHANGED vars
    BY <1>1 DEF vars, OrderInv
  <1>2. CASE Next
    <2>1. phase = "printing"
      BY <1>2 DEF Next, Literal, PercentSign, PrintNumber, NumberOverruns, NoSuchNumber, PutCharacter,
                  PrintString, StringOverruns, UnknownSpecifier, Unfinished, NoArgument, End,
                  Specs, Specified
    <2>2. SpecSteps \/ Literal \/ PercentSign \/ End \/ NoArgument
      BY <1>2 DEF Next, SpecSteps
    <2>3. job' = job /\ phase' \in {"printing", "done", "overrun"}
      <3>1. CASE SpecSteps
        BY <2>1, <3>1 DEF SpecSteps, PrintNumber, NumberOverruns, NoSuchNumber, PutCharacter,
                  PrintString, StringOverruns, UnknownSpecifier, Unfinished, Past, Overrun
      <3>2. CASE Literal \/ PercentSign \/ End \/ NoArgument
        BY <2>1, <3>2 DEF Literal, PercentSign, End, NoArgument, Overrun
      <3>3. QED
        BY <2>2, <3>1, <3>2
    <2>4. job' \in Jobs /\ GoodItems(items)
      BY <2>3, JobItems DEF OrderInv
    <2>5. ASSUME NoPercent(items)
          PROVE  /\ Plain(items) => buffer' \in Texts /\ out' \in Texts
                 /\ phase' = "printing" => Onward(items, fmt', args', out' \o buffer')
                 /\ phase' = "overrun" => \E k \in DOMAIN items : TooMuch(items[k])
                 /\ phase' = "done" /\ Plain(items) =>
                        args' = <<>> /\ out' = FlattenSeq(RenderingsOf(items))
      <3>1. /\ Plain(items) => buffer \in Texts /\ out \in Texts
            /\ Onward(items, fmt, args, out \o buffer)
        BY <2>1, <2>5 DEF OrderInv
      <3>2. PICK k, rest : /\ Place(items, k, rest, fmt, args, out \o buffer)
                           /\ Settled(items, k, rest)
        BY <3>1 DEF Onward
      <3> HIDE DEF items
      <3>3. CASE rest # <<>>
        <4>1. /\ First(fmt) = rest[1] /\ rest[1] \in Chars \ {"%", NUL} /\ fmt # <<>>
              /\ Specs = {} /\ ~Specified
          BY <2>4, <3>2, <3>3, TextAhead
        <4>2. ~SpecSteps
          BY <4>1 DEF SpecSteps, PrintNumber, NumberOverruns, NoSuchNumber, PutCharacter,
                      PrintString, StringOverruns, UnknownSpecifier, Unfinished
        <4>3. Literal
          BY <2>2, <4>1, <4>2 DEF PercentSign, End, NoArgument
        <4>4. Put(rest[1]) /\ fmt' = Tail(fmt) /\ args' = args /\ phase' = "printing"
          BY <2>1, <4>1, <4>3 DEF Literal
        <4>5. /\ Onward(items, fmt', args', out' \o buffer')
              /\ Plain(items) => buffer' \in Texts /\ out' \in Texts
          BY <2>4, <2>5, <3>1, <3>2, <3>3, <4>4, LiteralStep
        <4>6. QED
          BY <4>4, <4>5
      <3>4. CASE rest = <<>> /\ k = Len(items)
        <4>1. Place(items, Len(items), <<>>, fmt, args, out \o buffer)
          BY <3>2, <3>4
        <4>2. /\ fmt = <<>> /\ args = <<>> /\ First(fmt) = NUL /\ Specs = {} /\ ~Specified
              /\ Plain(items) => out \o buffer = FlattenSeq(RenderingsOf(items))
          BY <2>4, <4>1, EndAhead
        <4>3. ~SpecSteps
          BY <4>2 DEF SpecSteps, PrintNumber, NumberOverruns, NoSuchNumber, PutCharacter,
                      PrintString, StringOverruns, UnknownSpecifier, Unfinished
        <4>4. End
          BY <2>2, <4>2, <4>3 DEF PercentSign, Literal, NoArgument, NUL
        <4>5. out' = out \o Printed(buffer) /\ phase' = "done" /\ args' = args /\ buffer' = buffer
          BY <4>4 DEF End
        <4>6. ASSUME Plain(items) PROVE buffer' \in Texts /\ out' \in Texts /\ out' = out \o buffer
          <5>1. buffer \in Seq(Chars \ {NUL}) /\ out \in Seq(Chars \ {NUL})
            BY <3>1, <4>6 DEF Texts
          <5>2. Printed(buffer) = buffer
            BY <5>1, PrintedWhole
          <5>3. out \o buffer \in Seq(Chars \ {NUL})
            BY ONLY <5>1
          <5>4. QED
            BY <4>5, <5>1, <5>2, <5>3 DEF Texts
        <4>7. QED
          BY <4>2, <4>5, <4>6
      <3>5. CASE rest = <<>> /\ k # Len(items)
        <4>1. Place(items, k, <<>>, fmt, args, out \o buffer) /\ SpecItem(items[k + 1])
          BY <3>2, <3>5 DEF Settled
        <4>2. k < Len(items)
          <5>1. k \in 0 .. Len(items) /\ Len(items) \in Nat
            BY <2>4, <4>1 DEF Place, GoodItems
          <5>2. QED
            BY ONLY <3>5, <5>1
        <4> DEFINE item == items[k + 1]
                   F == From(FormatsOf(items), k + 1)
                   A == From(ArgumentsOf(items), k + 1)
                   spec == ReadItem(item, F, item.args \o A)
        <4>3. k + 1 \in DOMAIN items
          BY <2>4, <4>1, <4>2, NextPlace
        <4>4. WellFormed(item) /\ (Plain(items) => ~EndsText(item))
          BY <2>4, <4>3 DEF GoodItems, Plain
        <4>5. /\ First(fmt) = "%" /\ First(Tail(fmt)) # "%" /\ fmt # <<>>
              /\ Specs = {spec} /\ ~Missing
              /\ F \in Seq(Chars) /\ A \in Seq(Values)
          <5>1. item = items[k + 1]
            OBVIOUS
          <5>2. F = From(FormatsOf(items), k + 1) /\ A = From(ArgumentsOf(items), k + 1)
            OBVIOUS
          <5>3. spec = ReadItem(item, F, item.args \o A)
            OBVIOUS
          <5> HIDE DEF item, F, A, spec
          <5>4. /\ First(fmt) = "%" /\ First(Tail(fmt)) # "%" /\ fmt # <<>>
                /\ Specs = {ReadItem(item, F, item.args \o A)} /\ ~Missing
                /\ F \in Seq(Chars) /\ A \in Seq(Values)
            BY ONLY <2>1, <2>4, <4>1, <4>2, <5>1, <5>2, SpecAhead
          <5>5. QED
            BY <5>3, <5>4
        <4>6. SpecSteps
          BY <2>2, <4>5 DEF PercentSign, Literal, End, NoArgument
        <4>7. Contributed(items, item, F, A) \/ (Overrun /\ TooMuch(item))
          <5>1. SpecItem(item) /\ spec = ReadItem(item, F, item.args \o A)
            BY <4>1
          <5> HIDE DEF item, F, A, spec
          <5>2. QED
            BY <3>1, <4>4, <4>5, <4>6, <5>1, SpecStep
        <4>8. CASE Overrun /\ TooMuch(item)
          BY <3>1, <4>3, <4>8 DEF Overrun
        <4>9. CASE Contributed(items, item, F, A)
          <5> DEFINE t == out \o buffer
                     u == out' \o buffer'
          <5>1. /\ phase' = "printing" /\ fmt' = F /\ args' = A
                /\ Plain(items) => buffer' \in Texts /\ out' \in Texts /\ u = t \o Rendered(item)
            BY <2>1, <4>9 DEF Contributed
          <5>2. Plain(items) => u \in Texts
            BY <5>1 DEF Texts
          <5>3. Place(items, k, <<>>, fmt, args, t)
            BY <4>1
          <5> HIDE DEF t, u
          <5>4. Onward(items, F, A, u)
            BY <2>4, <2>5, <4>2, <5>1, <5>2, <5>3, AfterItem
          <5>5. QED
            BY <5>1, <5>4 DEF u
        <4>10. QED
          BY <4>7, <4>8, <4>9
      <3>6. QED
        BY <3>3, <3>4, <3>5
    <2>6. QED
      BY <2>3, <2>4, <2>5 DEF OrderInv
  <1>3. QED
    BY <1>1, <1>2

LEMMA PlainHasNoPercent == \A items : Plain(items) => NoPercent(items)
  BY DEF Plain, NoPercent

(* Text and conversions come out once, whole and in the order of the       *)
(* format, for every format without %% and text without NUL, whatever the  *)
(* length of the buffer and wherever it was flushed.                       *)
THEOREM PrintsInOrder == PrintfSpec => []TextInOrder
  <1>1. OrderInv => TextInOrder
    BY PlainHasNoPercent DEF OrderInv, TextInOrder, RenderingsOf
  <1>2. QED
    BY OrderInit, OrderStep, <1>1, PTL DEF PrintfSpec

(* The buffer always has room for its NUL.                                 *)
RoomInv == (\E S : buffer \in Seq(S)) /\ Len(buffer) < BufLen

LEMMA RoomStep == RoomInv /\ [Next]_vars => RoomInv'
  <1> SUFFICES ASSUME RoomInv, [Next]_vars PROVE RoomInv'
    OBVIOUS
  <1>1. PICK S : buffer \in Seq(S)
    BY DEF RoomInv
  <1>2. Kept \in Seq(S) /\ Len(Kept) < BufLen - 1 /\ Len(Kept) \in Nat
    BY <1>1, BufLenAssumption DEF Kept, NotFull
  <1>3. \/ buffer' = buffer \/ buffer' = <<>> \/ buffer' = Kept
        \/ \E c : buffer' = Append(Kept, c)
    BY DEF Next, Literal, PercentSign, PrintNumber, NumberOverruns, NoSuchNumber, PutCharacter,
           PrintString, StringOverruns, UnknownSpecifier, Unfinished, NoArgument, End, Overrun,
           Put, Send, vars
  <1>4. CASE buffer' = buffer
    BY <1>1, <1>4 DEF RoomInv
  <1>5. CASE buffer' = <<>>
    BY <1>5, BufLenAssumption DEF RoomInv
  <1>6. CASE buffer' = Kept
    BY <1>2, <1>6, BufLenAssumption DEF RoomInv
  <1>7. CASE \E c : buffer' = Append(Kept, c)
    <2>1. PICK c : buffer' = Append(Kept, c)
      BY <1>7
    <2> DEFINE k == Kept
               T == S \cup {c}
    <2>2. k \in Seq(T) /\ c \in T
      BY <1>2
    <2>3. Len(k) < BufLen - 1 /\ Len(k) \in Nat /\ buffer' = Append(k, c)
      BY <1>2, <2>1
    <2> HIDE DEF k, T
    <2>4. buffer' \in Seq(T) /\ Len(buffer') = Len(k) + 1
      BY <2>2, <2>3
    <2>5. QED
      BY <2>3, <2>4, BufLenAssumption DEF RoomInv
  <1>8. QED
    BY <1>3, <1>4, <1>5, <1>6, <1>7

(* No format makes the buffer overflow.  A conversion leaves its own, or   *)
(* the loop reads past the end of the format or of the arguments, only     *)
(* where an item asks for too much or there is a %%, for every format,     *)
(* length of the buffer and width of the types.                            *)
THEOREM StaysInBounds == PrintfSpec => []PrintfInBounds
  <1>1. Init => RoomInv
    BY BufLenAssumption DEF Init, RoomInv
  <1>2. RoomInv /\ OrderInv => PrintfInBounds
    BY DEF RoomInv, OrderInv, PrintfInBounds, NoPercent
  <1>3. QED
    BY OrderInit, OrderStep, RoomStep, <1>1, <1>2, PTL DEF PrintfSpec
----------------------------------------------------------------------------
(* A number, as it is printed: spaces, sign, prefix and digits.            *)
IsHex(spec)    == spec.specifier \in {"x", "X"}
IsSigned(spec) == spec.specifier \in {"d", "i"}
BaseOf(spec)   == IF IsHex(spec) THEN 16 ELSE 10
MarkOf(spec)   == IF IsHex(spec) /\ "#" \in spec.flags THEN <<"0", spec.specifier>> ELSE <<>>

NumeralOf(a, spec, num) ==
    /\ num \in Seq(HexDigits) /\ num # <<>> /\ Len(num) >= spec.precision
    /\ IsHex(spec) => Range(num) \subseteq Range(IF spec.specifier = "x" THEN Small ELSE Capital)
    /\ Reading(num, BaseOf(spec)) = Magnitude(Value(a, spec))

NumberParts(a, spec, pads, s, mark, num) ==
    /\ pads \in Texts /\ s \in Texts /\ mark \in Texts
    /\ NumberText(a, spec) = pads \o (s \o (mark \o num))
    /\ Len(NumberText(a, spec)) >= spec.width
    /\ \A k \in 1 .. Len(pads) : pads[k] = Space
    /\ s = <<>> \/ s = <<"-">> \/ s = <<"+">>
    /\ s = <<"-">> <=> Value(a, spec) < 0
    /\ mark = MarkOf(spec)
    /\ NumeralOf(a, spec, num)

ReadsBack(a, spec) ==
    /\ NumberSpec(spec) /\ spec.specifier # "o"
    /\ spec.flags \cap {"-", "0"} = {}
    /\ ~(IsSigned(spec) /\ Value(a, spec) = Smallest)

(* The digits of a number, its reading and its alphabet.                   *)
LEMMA DigitsRead ==
    ASSUME NEW a \in Int, NEW spec, ReadsBack(a, spec), NEW v, v = Value(a, spec)
    PROVE  \E C : /\ C \subseteq HexDigits /\ "0" \in C /\ DigitValue("0") = 0
                  /\ IsHex(spec) => C = Range(IF spec.specifier = "x" THEN Small ELSE Capital)
                  /\ DigitsOf(v, spec) \in Seq(C) /\ Len(DigitsOf(v, spec)) >= 1
                  /\ Reading(DigitsOf(v, spec), BaseOf(spec)) = Magnitude(v)
  <1>1. /\ v \in Int
        /\ ~IsSigned(spec) => v >= 0 /\ Magnitude(v) = v
        /\ Magnitude(v) \in Nat
    <2>1. /\ v \in Int
          /\ ~IsSigned(spec) => v \in 0 .. 2 * Half[spec.length] - 1
      BY ValueIs DEF ReadsBack, IsSigned
    <2>2. Half[spec.length] \in Nat
      BY Halves DEF ReadsBack, NumberSpec
    <2>3. QED
      BY <2>1, <2>2 DEF Magnitude
  <1>2. /\ "0" \in Digits /\ "0" \in Range(Small) /\ "0" \in Range(Capital) /\ DigitValue("0") = 0
    <2>1. Decimal[1] = "0" /\ Small[1] = "0" /\ Capital[1] = "0"
      BY DEF Decimal, Small, Capital
    <2>2. 1 \in DOMAIN Decimal /\ 1 \in DOMAIN Small /\ 1 \in DOMAIN Capital
      BY DEF Decimal, Small, Capital
    <2>3. DigitValue(Decimal[1]) = 1 - 1
      BY DigitIsDecimal
    <2>4. QED
      BY <2>1, <2>2, <2>3 DEF Digits, Range
  <1>3. spec.specifier \in {"d", "i", "u", "x", "X"}
    BY DEF ReadsBack, NumberSpec, Numbers
  <1>4. CASE IsSigned(spec) \/ spec.specifier = "u"
    <2>1. DigitsOf(v, spec) = Numeral(Magnitude(v), 10, Decimal)
      <3>1. CASE IsSigned(spec)
        <4>1. v # Smallest
          BY <3>1 DEF ReadsBack
        <4>2. SignedDigits(v) = Numeral(Magnitude(v), 10, Decimal)
          BY <1>1, <4>1, SignedDigitsAre
        <4>3. DigitsOf(v, spec) = SignedDigits(v)
          BY <3>1 DEF DigitsOf, IsSigned
        <4>4. QED
          BY <4>2, <4>3
      <3>2. CASE spec.specifier = "u"
        <4>1. DigitsOf(v, spec) = Numeral(v, 10, Decimal)
          BY <3>2 DEF DigitsOf
        <4>2. ~IsSigned(spec)
          BY <3>2 DEF IsSigned
        <4>3. QED
          BY <1>1, <4>1, <4>2
      <3>3. QED
        BY <1>4, <3>1, <3>2
    <2>2. ~IsHex(spec) /\ BaseOf(spec) = 10
      BY <1>4 DEF IsHex, IsSigned, BaseOf
    <2>3. 10 \in Bases /\ AreDigits(Decimal, 10, Digits)
      BY DigitSets DEF Bases
    <2>4. /\ Numeral(Magnitude(v), 10, Decimal) \in Seq(Digits)
          /\ Len(Numeral(Magnitude(v), 10, Decimal)) >= 1
          /\ Reading(Numeral(Magnitude(v), 10, Decimal), 10) = Magnitude(v)
      BY <1>1, <2>3, NumeralDigits
    <2>5. QED
      BY <1>2, <2>1, <2>2, <2>4, DigitsAreHex
  <1>5. CASE IsHex(spec)
    <2> DEFINE chars == IF spec.specifier = "x" THEN Small ELSE Capital
               C == Range(chars)
    <2>1. DigitsOf(v, spec) = Numeral(v, 16, chars)
      BY <1>5 DEF DigitsOf, IsHex
    <2>2. 16 \in Bases /\ AreDigits(chars, 16, C)
      BY DigitSets DEF Bases
    <2>3. ~IsSigned(spec) /\ BaseOf(spec) = 16
      BY <1>5 DEF IsHex, IsSigned, BaseOf
    <2>4. "0" \in C /\ C \subseteq HexDigits
      BY <1>2 DEF HexDigits
    <2>5. C = Range(IF spec.specifier = "x" THEN Small ELSE Capital)
      OBVIOUS
    <2> HIDE DEF chars, C
    <2>6. v \in Nat
      BY <1>1, <2>3
    <2>7. /\ Numeral(v, 16, chars) \in Seq(C) /\ Len(Numeral(v, 16, chars)) >= 1
          /\ Reading(Numeral(v, 16, chars), 16) = v
      BY <2>2, <2>6, NumeralDigits
    <2>8. QED
      BY <1>1, <1>2, <2>1, <2>3, <2>4, <2>5, <2>7
  <1>6. QED
    BY <1>3, <1>4, <1>5 DEF IsHex, IsSigned

(* With the zeros that the precision asks for.                             *)
LEMMA NumeralIsRead ==
    ASSUME NEW a \in Int, NEW spec, ReadsBack(a, spec), NEW zeros, NEW digits,
           digits = DigitsOf(Value(a, spec), spec), zeros = Copies("0", spec.precision - Len(digits))
    PROVE  NumeralOf(a, spec, zeros \o digits)
  <1> DEFINE v == Value(a, spec)
             num == zeros \o digits
  <1>1. PICK C : /\ C \subseteq HexDigits /\ "0" \in C /\ DigitValue("0") = 0
                 /\ IsHex(spec) => C = Range(IF spec.specifier = "x" THEN Small ELSE Capital)
                 /\ digits \in Seq(C) /\ Len(digits) >= 1
                 /\ Reading(digits, BaseOf(spec)) = Magnitude(v)
    BY DigitsRead
  <1>2. Len(digits) \in Nat /\ spec.precision \in Int
    BY <1>1 DEF ReadsBack, NumberSpec
  <1>3. /\ zeros \in Seq(C) /\ Len(zeros) = Larger(spec.precision - Len(digits), 0)
        /\ \A k \in 1 .. Len(zeros) : zeros[k] = "0"
    <2>1. spec.precision - Len(digits) \in Int /\ "0" \in C
      BY <1>1, <1>2
    <2>2. QED
      BY <2>1, CopiesOf
  <1>4. digits \in Seq(C)
    BY <1>1
  <1>5. num \in Seq(C) /\ Len(num) = Len(zeros) + Len(digits)
    BY ONLY <1>3, <1>4, Concatenated
  <1>6. Len(zeros) >= 0 /\ Len(zeros) \in Int /\ Len(zeros) >= spec.precision - Len(digits)
    BY <1>2, <1>3 DEF Larger
  <1>7. Len(num) >= 1 /\ Len(num) >= spec.precision
    BY ONLY <1>1, <1>2, <1>5, <1>6
  <1>8. zeros \in Seq(HexDigits) /\ digits \in Seq(HexDigits)
    BY ONLY <1>1, <1>3
  <1>9. Reading(num, BaseOf(spec)) = Magnitude(v)
    <2>1. \A n \in 1 .. Len(zeros) : DigitValue(zeros[n]) = 0
      BY <1>1, <1>3
    <2>2. BaseOf(spec) \in Nat
      BY DEF BaseOf
    <2>3. Reading(zeros \o digits, BaseOf(spec)) = Reading(digits, BaseOf(spec))
      BY ONLY <1>8, <2>1, <2>2, ReadingZeros
    <2>4. QED
      BY <1>1, <2>3
  <1> HIDE DEF num
  <1>10. num \in Seq(HexDigits) /\ num # <<>> /\ Range(num) \subseteq C
    <2>1. num \in Seq(HexDigits) /\ \A k \in DOMAIN num : num[k] \in C
      BY <1>1, <1>5
    <2>2. num # <<>>
      BY <1>5, <1>7
    <2>3. QED
      BY <2>1, <2>2 DEF Range
  <1>11. QED
    BY <1>1, <1>7, <1>9, <1>10 DEF NumeralOf, num

LEMMA SignCases ==
    ASSUME NEW v, NEW spec
    PROVE  /\ v < 0 => Sign(v, spec) = <<"-">>
           /\ ~(v < 0) => \/ Sign(v, spec) = <<"+">> \/ Sign(v, spec) = <<Space>>
                          \/ Sign(v, spec) = <<>>
           /\ <<"+">> # <<"-">> /\ <<Space>> # <<"-">> /\ <<>> # <<"-">>
  <1>1. <<Space>> # <<"-">>
    <2>1. Space # "-"
      BY SpaceIsNoOther
    <2>2. QED
      BY <2>1
  <1>2. QED
    BY <1>1 DEF Sign

LEMMA NumberPartsAre ==
    ASSUME NEW a \in Int, NEW spec, ReadsBack(a, spec)
    PROVE  \E pads, s, mark, num : NumberParts(a, spec, pads, s, mark, num)
  <1> DEFINE T == Chars \ {NUL}
             v == Value(a, spec)
             body == Body(a, spec)
             copies == Copies(Space, spec.width - Len(body))
             text == NumberText(a, spec)
  <1>1. NumberSpec(spec) /\ spec.specifier # "o" /\ spec.flags \cap {"-", "0"} = {}
    BY DEF ReadsBack
  <1>2. text \in Seq(T) /\ text = copies \o body
    BY <1>1, NumberTextIs
  <1>3. body \in Seq(T)
    BY <1>1, BodyIs
  <1>4. PICK sign, mark, zeros, digits \in Seq(T) : BodyParts(a, spec, sign, mark, zeros, digits)
    <2>1. \E sign, mark, zeros, digits \in Seq(T) : BodyParts(a, spec, sign, mark, zeros, digits)
      BY <1>1, BodyIs
    <2>2. QED
      BY <2>1
  <1>5. /\ sign = Sign(v, spec) /\ mark = Decorator(spec) /\ digits = DigitsOf(v, spec)
        /\ zeros = Copies("0", spec.precision - Len(digits))
        /\ body = ((sign \o mark) \o zeros) \o digits
    BY <1>4 DEF BodyParts
  <1> DEFINE num == zeros \o digits
  <1>6. NumeralOf(a, spec, num)
    BY <1>5, NumeralIsRead
  <1>7. mark = MarkOf(spec)
    <2>1. CASE "#" \notin spec.flags
      BY <1>5, <2>1 DEF Decorator, MarkOf
    <2>2. CASE "#" \in spec.flags /\ IsHex(spec)
      BY <1>5, <2>2 DEF Decorator, MarkOf, IsHex
    <2>3. CASE "#" \in spec.flags /\ ~IsHex(spec)
      BY <1>1, <1>5, <2>3 DEF Decorator, MarkOf, IsHex
    <2>4. QED
      BY <2>1, <2>2, <2>3
  <1>8. /\ copies \in Seq(T) /\ \A k \in 1 .. Len(copies) : copies[k] = Space
        /\ Len(copies) = Larger(spec.width - Len(body), 0)
        /\ Len(body) \in Nat /\ spec.width \in Int
    <2>1. Len(body) \in Nat /\ spec.width \in Int
      BY <1>1, <1>3 DEF NumberSpec
    <2>2. spec.width - Len(body) \in Int /\ Space \in T
      BY <2>1, SomeChars
    <2>3. QED
      BY <2>1, <2>2, CopiesOf
  <1> HIDE DEF copies, body, text, T
  <1>9. Len(text) >= spec.width
    <2>1. Len(text) = Len(copies) + Len(body)
      <3>1. copies \in Seq(T) /\ body \in Seq(T)
        BY <1>3, <1>8
      <3>2. QED
        BY ONLY <1>2, <3>1, Concatenated
    <2>2. Len(copies) \in Int /\ Len(copies) >= spec.width - Len(body)
      BY <1>8 DEF Larger
    <2>3. QED
      BY ONLY <1>8, <2>1, <2>2
  <1>10. /\ v < 0 => sign = <<"-">>
         /\ ~(v < 0) => sign = <<"+">> \/ sign = <<Space>> \/ sign = <<>>
         /\ <<"+">> # <<"-">> /\ <<Space>> # <<"-">> /\ <<>> # <<"-">>
    BY <1>5, SignCases
  <1> HIDE DEF v
  <1>11. text = (copies \o sign) \o (mark \o num)
    <2>1. /\ copies \in Seq(T) /\ sign \in Seq(T) /\ mark \in Seq(T) /\ zeros \in Seq(T)
          /\ digits \in Seq(T)
      BY <1>8
    <2>2. copies \o (((sign \o mark) \o zeros) \o digits) = (copies \o sign) \o (mark \o (zeros \o digits))
      <3> DEFINE p == sign \o mark
                 q == zeros \o digits
                 r == mark \o q
      <3>1. p \in Seq(T) /\ q \in Seq(T) /\ r \in Seq(T)
        BY ONLY <2>1
      <3>2. (p \o zeros) \o digits = p \o q
        <4> HIDE DEF p
        <4>1. QED
          BY ONLY <2>1, <3>1 DEF q
      <3> HIDE DEF q
      <3>3. p \o q = sign \o r
        <4>1. sign \in Seq(T) /\ mark \in Seq(T) /\ q \in Seq(T)
          BY <2>1, <3>1
        <4>2. (sign \o mark) \o q = sign \o (mark \o q)
          <5>1. Regroups(sign, mark, q)
            BY ONLY <4>1, Regrouping
          <5>2. QED
            BY ONLY <5>1 DEF Regroups
        <4>3. QED
          BY ONLY <4>2
      <3> HIDE DEF p, r
      <3>4. copies \o (sign \o r) = (copies \o sign) \o r
        <4>1. Regroups(copies, sign, r)
          BY ONLY <2>1, <3>1, Regrouping
        <4>2. QED
          BY ONLY <4>1 DEF Regroups
      <3>5. QED
        BY <3>2, <3>3, <3>4 DEF p, q, r
    <2>3. QED
      BY <1>2, <1>5, <2>2
  <1>12. num \in Seq(T) /\ mark \o num \in Seq(T)
    <2>1. mark \in Seq(T) /\ zeros \in Seq(T) /\ digits \in Seq(T)
      OBVIOUS
    <2>2. QED
      BY ONLY <2>1
  <1> HIDE DEF num
  <1> DEFINE rest == mark \o num
  <1>13. rest \in Seq(T) /\ text = (copies \o sign) \o rest
    BY <1>11, <1>12
  <1> HIDE DEF rest
  <1>14. CASE sign = <<Space>>
    <2> DEFINE pads == copies \o sign
               s == <<>>
    <2>1. pads \in Seq(T) /\ Len(pads) = Len(copies) + 1 /\ Len(copies) \in Nat
          /\ \A k \in 1 .. Len(pads) : pads[k] = Space
      <3>1. copies \in Seq(T) /\ sign \in Seq(T)
        BY <1>8
      <3>2. /\ pads \in Seq(T) /\ Len(pads) = Len(copies) + Len(sign)
            /\ \A k \in 1 .. Len(copies) : pads[k] = copies[k]
            /\ \A k \in 1 .. Len(sign) : pads[Len(copies) + k] = sign[k]
        BY ONLY <3>1, Concatenated
      <3>3. Len(sign) = 1 /\ sign[1] = Space
        BY ONLY <1>14
      <3>4. Len(copies) \in Nat
        BY <3>1
      <3> HIDE DEF pads
      <3>5. \A k \in 1 .. Len(pads) : k \in 1 .. Len(copies) \/ k = Len(copies) + 1
        BY ONLY <3>2, <3>3, <3>4
      <3>6. pads[Len(copies) + 1] = Space
        BY ONLY <3>2, <3>3
      <3>7. QED
        BY ONLY <1>8, <3>2, <3>3, <3>4, <3>5, <3>6
    <2>2. text = pads \o (s \o rest)
      <3>1. s \o rest = rest
        BY ONLY <1>13
      <3>2. QED
        BY <1>13, <3>1
    <2>3. ~(v < 0) /\ s # <<"-">>
      BY <1>10, <1>14
    <2>4. s \in Seq(T)
      OBVIOUS
    <2> HIDE DEF pads, s
    <2>5. s = <<>>
      BY DEF s
    <2>6. NumberParts(a, spec, pads, s, mark, num)
      BY <1>6, <1>7, <1>9, <2>1, <2>2, <2>3, <2>4, <2>5 DEF NumberParts, rest, text, v, Texts, T
    <2>7. QED
      BY <2>6
  <1>15. CASE sign # <<Space>>
    <2>1. text = copies \o (sign \o rest)
      <3>1. copies \in Seq(T) /\ sign \in Seq(T) /\ rest \in Seq(T)
        BY <1>8, <1>13
      <3>2. (copies \o sign) \o rest = copies \o (sign \o rest)
        <4>1. Regroups(copies, sign, rest)
          BY ONLY <3>1, Regrouping
        <4>2. QED
          BY ONLY <4>1 DEF Regroups
      <3>3. QED
        BY <1>13, <3>2
    <2>2. /\ sign = <<>> \/ sign = <<"-">> \/ sign = <<"+">>
          /\ sign = <<"-">> <=> v < 0
      BY <1>10, <1>15
    <2>3. NumberParts(a, spec, copies, sign, mark, num)
      BY <1>6, <1>7, <1>8, <1>9, <2>1, <2>2 DEF NumberParts, rest, text, v, Texts, T
    <2>4. QED
      BY <2>3
  <1>16. QED
    BY <1>14, <1>15

LEMMA HexDigitsAreNoOther == \A c \in HexDigits : c \notin {"-", "+", Space}
  <1>1. /\ Space # "0" /\ Space # "1" /\ Space # "2" /\ Space # "3" /\ Space # "4"
        /\ Space # "5" /\ Space # "6" /\ Space # "7" /\ Space # "8" /\ Space # "9"
        /\ Space # "a" /\ Space # "b" /\ Space # "c" /\ Space # "d" /\ Space # "e" /\ Space # "f"
        /\ Space # "A" /\ Space # "B" /\ Space # "C" /\ Space # "D" /\ Space # "E" /\ Space # "F"
    BY DEF Space
  <1>2. \A k \in 1 .. 16 : Small[k] \notin {"-", "+", Space}
    BY <1>1 DEF Small
  <1>3. \A k \in 1 .. 16 : Capital[k] \notin {"-", "+", Space}
    BY <1>1 DEF Capital
  <1>4. QED
    BY <1>2, <1>3, DigitsAreHex

TextIsRead(o, s, mark, num) ==
    LET text == s \o (mark \o num)
    IN  /\ After(o, Leading(o, {Space})) = text
        /\ Leading(text, {"-", "+"}) = s
        /\ After(text, s) = mark \o num
        /\ mark # <<>> => /\ SubSeq(text, Len(s) + 1, Len(s) + 2) = mark
                          /\ SubSeq(text, Len(s) + 3, Len(text)) = num

LEMMA TextRead ==
    ASSUME NEW pads, NEW s, NEW mark, NEW num, pads \in Texts, s \in Texts, mark \in Texts,
           num \in Seq(HexDigits), num # <<>>,
           \A k \in 1 .. Len(pads) : pads[k] = Space,
           s = <<>> \/ s = <<"-">> \/ s = <<"+">>,
           mark = <<>> \/ \E c : mark = <<"0", c>>,
           NEW o, o = pads \o (s \o (mark \o num))
    PROVE  TextIsRead(o, s, mark, num)
  <1> DEFINE T == Chars \ {NUL}
             head == mark \o num
             text == s \o head
  <1>1. pads \in Seq(T) /\ s \in Seq(T) /\ mark \in Seq(T) /\ num \in Seq(T)
    BY DigitsAreChars DEF Texts
  <1>2. num[1] \in HexDigits
    OBVIOUS
  <1>3. mark # <<>> => Len(mark) = 2 /\ mark[1] = "0"
    <2>1. \A c : Len(<<"0", c>>) = 2 /\ <<"0", c>>[1] = "0"
      OBVIOUS
    <2>2. QED
      BY <2>1
  <1>4. "0" \in HexDigits
    <2>1. Small[1] = "0"
      BY DEF Small
    <2>2. QED
      BY <2>1, DigitsAreHex
  <1>5. s # <<>> => Len(s) = 1 /\ (s[1] = "-" \/ s[1] = "+")
    <2>1. Len(<<"-">>) = 1 /\ Len(<<"+">>) = 1 /\ <<"-">>[1] = "-" /\ <<"+">>[1] = "+"
      OBVIOUS
    <2>2. QED
      BY <2>1
  <1>6. \A k \in 1 .. Len(s) : s[k] \in {"-", "+"}
    <2>1. CASE s = <<>>
      BY <2>1
    <2>2. CASE s # <<>>
      <3>1. Len(s) = 1 /\ s[1] \in {"-", "+"}
        BY <1>5, <2>2
      <3>2. QED
        BY ONLY <3>1
    <2>3. QED
      BY <2>1, <2>2
  <1> HIDE DEF T
  <1>7. head \in Seq(T) /\ head # <<>> /\ head[1] \in HexDigits
    <2>1. head \in Seq(T) /\ head # <<>> /\ head[1] = IF mark = <<>> THEN num[1] ELSE mark[1]
      BY <1>1, HeadOf
    <2>2. QED
      BY <1>2, <1>3, <1>4, <2>1
  <1> HIDE DEF head
  <1>8. text \in Seq(T) /\ text # <<>> /\ text[1] = IF s = <<>> THEN head[1] ELSE s[1]
    <2>1. s \in Seq(T) /\ head \in Seq(T) /\ head # <<>>
      BY <1>1, <1>7
    <2>2. QED
      BY ONLY <2>1, HeadOf
  <1>9. text[1] \notin {Space}
    <2>1. Space # "-" /\ Space # "+"
      BY SpaceIsNoOther
    <2>2. QED
      BY <1>5, <1>7, <1>8, <2>1, HexDigitsAreNoOther
  <1>10. Leading(text, {"-", "+"}) = s /\ After(text, s) = head
    <2>1. head[1] \notin {"-", "+"}
      BY <1>7, HexDigitsAreNoOther
    <2>2. s \in Seq(T) /\ head \in Seq(T) /\ head # <<>>
      BY <1>1, <1>7
    <2>3. Leading(s \o head, {"-", "+"}) = s
      BY ONLY <1>6, <2>1, <2>2, LeadingStops
    <2>4. After(s \o head, s) = head
      BY ONLY <2>2, AfterPart
    <2>5. QED
      BY <2>3, <2>4
  <1>11. After(o, Leading(o, {Space})) = text
    <2>1. o = pads \o text
      BY DEF head
    <2> HIDE DEF text
    <2>2. pads \in Seq(T) /\ text \in Seq(T) /\ text # <<>> /\ text[1] \notin {Space}
      BY <1>1, <1>8, <1>9
    <2>3. \A k \in 1 .. Len(pads) : pads[k] \in {Space}
      OBVIOUS
    <2>4. Leading(pads \o text, {Space}) = pads
      BY ONLY <2>2, <2>3, LeadingStops
    <2>5. After(pads \o text, pads) = text
      BY ONLY <2>2, AfterPart
    <2>6. QED
      BY <2>1, <2>4, <2>5
  <1>12. ASSUME mark # <<>>
         PROVE  /\ SubSeq(text, Len(s) + 1, Len(s) + 2) = mark
                /\ SubSeq(text, Len(s) + 3, Len(text)) = num
    <2> DEFINE front == s \o mark
    <2>1. front \in Seq(T) /\ Len(front) = Len(s) + Len(mark) /\ text = front \o num
      <3>1. s \in Seq(T) /\ mark \in Seq(T) /\ num \in Seq(T)
        BY <1>1
      <3>2. s \o (mark \o num) = (s \o mark) \o num
        BY ONLY <3>1
      <3>3. front \in Seq(T) /\ Len(front) = Len(s) + Len(mark)
        BY ONLY <3>1, Concatenated
      <3>4. QED
        BY <3>2, <3>3 DEF head
    <2>2. Len(s) \in Nat /\ Len(mark) = 2
      BY <1>1, <1>3, <1>12
    <2> HIDE DEF text
    <2>3. SubSeq(text, Len(s) + 3, Len(text)) = num
      <3> HIDE DEF front
      <3>1. front \in Seq(T) /\ num \in Seq(T)
        BY <1>1, <2>1
      <3>2. After(front \o num, front) = num
        BY ONLY <3>1, AfterPart
      <3>3. Len(front) + 1 = Len(s) + 3
        BY ONLY <2>1, <2>2
      <3>4. QED
        BY <2>1, <3>2, <3>3 DEF After
    <2>4. SubSeq(text, 1, Len(front)) = front
      <3> HIDE DEF front
      <3>1. front \in Seq(T) /\ num \in Seq(T)
        BY <1>1, <2>1
      <3>2. SubSeq(front \o num, 1, Len(front)) = front
        BY ONLY <3>1, FirstPart
      <3>3. QED
        BY <2>1, <3>2
    <2>5. SubSeq(text, Len(s) + 1, Len(s) + 2) = mark
      <3> DEFINE x == SubSeq(text, Len(s) + 1, Len(s) + 2)
                 n == Len(s)
      <3>1. /\ \A k \in 1 .. Len(s) : front[k] = s[k]
            /\ \A k \in 1 .. Len(mark) : front[Len(s) + k] = mark[k]
        <4>1. s \in Seq(T) /\ mark \in Seq(T)
          BY <1>1
        <4>2. QED
          BY ONLY <4>1, Concatenated
      <3> HIDE DEF front
      <3>2. text \in Seq(T) /\ num \in Seq(T) /\ text = front \o num
            /\ Len(text) = n + 2 + Len(num) /\ Len(num) \in Nat
            /\ \A k \in 1 .. n + 2 : text[k] = front[k]
        <4>1. front \in Seq(T) /\ num \in Seq(T) /\ Len(front) = n + 2
          BY <1>1, <2>1, <2>2
        <4>2. /\ front \o num \in Seq(T) /\ Len(front \o num) = Len(front) + Len(num)
              /\ \A k \in 1 .. Len(front) : (front \o num)[k] = front[k]
          <5>1. front \in Seq(T) /\ num \in Seq(T)
            BY <4>1
          <5>2. QED
            BY ONLY <5>1, Concatenated
        <4>3. QED
          BY <2>1, <4>1, <4>2
      <3>3. n \in Nat /\ n + 1 \in 1 .. Len(text) /\ n + 2 \in 1 .. Len(text)
        BY <2>2, <3>2
      <3>4. x \in Seq(T) /\ Len(x) = 2 /\ x[1] = text[n + 1] /\ x[2] = text[n + 2]
        <4>1. text \in Seq(T) /\ n \in Nat /\ n + 1 \in 1 .. Len(text) /\ n + 2 \in 1 .. Len(text)
          BY <3>2, <3>3
        <4> HIDE DEF n
        <4>2. /\ SubSeq(text, n + 1, n + 2) \in Seq(T) /\ Len(SubSeq(text, n + 1, n + 2)) = 2
              /\ SubSeq(text, n + 1, n + 2)[1] = text[n + 1]
              /\ SubSeq(text, n + 1, n + 2)[2] = text[n + 2]
          BY ONLY <4>1
        <4>3. QED
          BY <4>2 DEF n
      <3>5. text[n + 1] = mark[1] /\ text[n + 2] = mark[2]
        BY <2>2, <3>1, <3>2, <3>3
      <3> HIDE DEF x
      <3>6. \A k \in 1 .. Len(x) : x[k] = mark[k]
        <4>1. \A k \in 1 .. Len(x) : k = 1 \/ k = 2
          BY <3>4
        <4>2. QED
          BY <3>4, <3>5, <4>1
      <3>7. x = mark
        BY <1>1, <2>2, <3>4, <3>6, SameText
      <3>8. QED
        BY <3>7 DEF x
    <2>6. QED
      BY <2>3, <2>5
  <1>13. QED
    BY <1>10, <1>11, <1>12 DEF TextIsRead, head

(* The number that is read is the argument, at the width of its type.      *)
LEMMA MagnitudeReads ==
    ASSUME NEW a \in Int, NEW spec, ReadsBack(a, spec), NEW v, v = Value(a, spec),
           NEW half, half = Half[spec.length], NEW read, read = Magnitude(v)
    PROVE  /\ ((IF v < 0 THEN -read ELSE read) - a) % (2 * half) = 0
           /\ read \in 0 .. (IF IsSigned(spec) THEN half ELSE 2 * half - 1)
           /\ IsSigned(spec) /\ ~(v < 0) => read < half
  <1>1. half \in Nat /\ half > 0
    BY Halves DEF ReadsBack, NumberSpec
  <1>2. /\ v \in Int /\ (v - a) % (2 * half) = 0
        /\ IF IsSigned(spec) THEN v \in -half .. half - 1 ELSE v \in 0 .. 2 * half - 1
    BY ValueIs DEF ReadsBack, IsSigned
  <1>3. read \in Int /\ (IF v < 0 THEN -read ELSE read) = v /\ read = IF v < 0 THEN -v ELSE v
    BY <1>2 DEF Magnitude
  <1>4. CASE IsSigned(spec)
    <2>1. v \in -half .. half - 1
      BY <1>2, <1>4
    <2>2. read \in 0 .. half /\ (~(v < 0) => read < half)
      BY ONLY <1>1, <1>2, <1>3, <2>1
    <2>3. QED
      BY <1>2, <1>3, <1>4, <2>2
  <1>5. CASE ~IsSigned(spec)
    <2>1. v \in 0 .. 2 * half - 1
      BY <1>2, <1>5
    <2>2. read \in 0 .. 2 * half - 1
      BY ONLY <1>1, <1>2, <1>3, <2>1
    <2>3. QED
      BY <1>2, <1>3, <1>5, <2>2
  <1>6. QED
    BY <1>4, <1>5

(* A number that is the whole job is all that is printed.                  *)
LEMMA NumberAlone ==
    ASSUME OrderInv, NEW item, item = Items(job)[1],
           phase = "done", Len(Items(job)) = 1, Harmless(item)
    PROVE  /\ SpecItem(item) /\ WellFormed(item) /\ item.args[1] \in Int
           /\ ReadsBack(item.args[1], SpecOf(item))
           /\ out = NumberText(item.args[1], SpecOf(item))
  <1> DEFINE items == Items(job)
             R == RenderingsOf(items)
             a == item.args[1]
             spec == SpecOf(item)
  <1>1. GoodItems(items)
    BY JobItems DEF OrderInv
  <1>2. DOMAIN items = {1} /\ WellFormed(item)
    BY <1>1 DEF GoodItems
  <1>3. /\ item.kind = "spec" /\ item.length # LongDouble /\ item.specifier \in Numbers \ {"o"}
        /\ Range(item.flags) \cap {"-", "0"} = {}
        /\ ~(item.specifier \in {"d", "i"} /\ AsSigned(a, item.length) = Smallest)
    BY DEF Harmless
  <1>4. SpecItem(item)
    BY <1>2, <1>3, WellFormedItem
  <1>5. Plain(items)
    <2>1. ~HasPercent(item) /\ ~EndsText(item)
      BY <1>3 DEF HasPercent, EndsText, Numbers
    <2>2. QED
      BY <1>2, <2>1 DEF Plain
  <1>6. out = FlattenSeq(R)
    BY <1>5, PlainHasNoPercent DEF OrderInv
  <1>7. a \in Int
    BY <1>2, <1>3, <1>4, ArgumentIs
  <1>8. Rendered(item) = NumberText(a, spec) /\ Rendered(item) \in Texts
    <2>1. Rendered(item) = NumberText(a, spec)
      BY <1>3 DEF Rendered, Numbers
    <2>2. ~EndsText(item)
      BY <1>3 DEF EndsText, Numbers
    <2>3. QED
      BY <1>2, <2>1, <2>2, RenderedIs
  <1>9. out = NumberText(a, spec)
    <2> DEFINE x == Rendered(item)
    <2>1. R \in Seq(Seq(Chars \ {NUL})) /\ Len(R) = 1 /\ R[1] = x
      <3>1. Len(items) = 1
        OBVIOUS
      <3> HIDE DEF items
      <3>2. R \in Seq(Texts) /\ Len(R) = 1 /\ R[1] = Rendered(items[1])
        BY <1>1, <1>5, <3>1, JobTexts
      <3>3. QED
        BY <3>2 DEF Texts, items
    <2> HIDE DEF R
    <2>2. 0 \in 0 .. Len(R) /\ 1 \in 0 .. Len(R) /\ 0 < Len(R)
      BY <2>1
    <2>3. UpTo(R, 0) = <<>> /\ UpTo(R, 0 + 1) = UpTo(R, 0) \o R[0 + 1]
      BY ONLY <2>1, <2>2, UpToIs
    <2>4. UpTo(R, 1) = FlattenSeq(R)
      BY ONLY <2>1, <2>2, UpToIs
    <2>5. <<>> \o x = x
      BY <1>8 DEF Texts
    <2>6. out = <<>> \o x
      <3>1. 0 + 1 = 1
        OBVIOUS
      <3>2. UpTo(R, 1) = UpTo(R, 0) \o R[1]
        BY ONLY <2>3, <3>1
      <3>3. out = UpTo(R, 0) \o x
        BY ONLY <1>6, <2>1, <2>4, <3>2
      <3>4. QED
        BY ONLY <2>3, <3>3
    <2>7. x = NumberText(a, spec)
      BY <1>8 DEF x
    <2>8. QED
      BY ONLY <2>5, <2>6, <2>7
  <1>10. ReadsBack(a, spec)
    <2>1. /\ spec.flags = Range(item.flags) /\ spec.length = item.length
          /\ spec.specifier = item.specifier /\ NumberSpec(spec)
      BY <1>3, <1>4, SpecOfIs
    <2> HIDE DEF a, spec
    <2>2. spec.specifier # "o" /\ spec.flags \cap {"-", "0"} = {}
      BY <1>3, <2>1
    <2>3. ~(IsSigned(spec) /\ Value(a, spec) = Smallest)
      BY <1>3, <2>1 DEF IsSigned, Value
    <2>4. QED
      BY <2>1, <2>2, <2>3 DEF ReadsBack
  <1>11. QED
    BY <1>2, <1>4, <1>7, <1>9, <1>10

LEMMA ReadsBackInv == OrderInv => NumbersReadBack
  <1> SUFFICES ASSUME OrderInv PROVE NumbersReadBack
    OBVIOUS
  <1> DEFINE item   == Items(job)[1]
             text   == After(out, Leading(out, {Space}))
             sign   == Leading(text, {"-", "+"})
             hex    == item.specifier \in {"x", "X"}
             marked == hex /\ "#" \in Range(item.flags)
             digits == IF marked THEN SubSeq(text, Len(sign) + 3, Len(text)) ELSE After(text, sign)
             base   == IF hex THEN 16 ELSE 10
             read   == Reading(digits, base)
             signed == item.specifier \in {"d", "i"}
             half   == Half[item.length]
  <1> SUFFICES ASSUME phase = "done", Len(Items(job)) = 1, Harmless(item)
               PROVE  /\ digits # <<>> /\ Len(digits) >= PrecisionOf(item)
                      /\ Len(out) >= WidthOf(item)
                      /\ marked => SubSeq(text, Len(sign) + 1, Len(sign) + 2) = <<"0", item.specifier>>
                      /\ hex => Range(digits) \subseteq
                                    Range(IF item.specifier = "x" THEN Small ELSE Capital)
                      /\ ((IF sign = <<"-">> THEN -read ELSE read) - item.args[1]) % (2 * half) = 0
                      /\ read \in 0 .. (IF signed THEN half ELSE 2 * half - 1)
                      /\ signed /\ sign # <<"-">> => read < half
    BY DEF NumbersReadBack
  <1> DEFINE a == item.args[1]
             spec == SpecOf(item)
             v == Value(a, spec)
  <1>1. /\ SpecItem(item) /\ WellFormed(item) /\ a \in Int
        /\ ReadsBack(a, spec)
        /\ out = NumberText(a, spec)
    <2>1. item = Items(job)[1]
      OBVIOUS
    <2> HIDE DEF item
    <2>2. QED
      BY <2>1, NumberAlone
  <1> HIDE DEF item
  <1>2. /\ spec.flags = Range(item.flags) /\ spec.width = WidthOf(item)
        /\ spec.precision = PrecisionOf(item)
        /\ spec.length = item.length /\ spec.specifier = item.specifier
    BY <1>1, SpecOfIs
  <1> HIDE DEF spec, a, v
  <1>3. PICK pads, s, mark, num : NumberParts(a, spec, pads, s, mark, num)
    BY <1>1, NumberPartsAre
  <1>4. /\ pads \in Texts /\ s \in Texts /\ mark \in Texts
        /\ out = pads \o (s \o (mark \o num))
        /\ Len(out) >= spec.width
        /\ \A k \in 1 .. Len(pads) : pads[k] = Space
        /\ s = <<>> \/ s = <<"-">> \/ s = <<"+">>
        /\ s = <<"-">> <=> v < 0
        /\ mark = MarkOf(spec)
        /\ num \in Seq(HexDigits) /\ num # <<>> /\ Len(num) >= spec.precision
        /\ IsHex(spec) => Range(num) \subseteq Range(IF spec.specifier = "x" THEN Small ELSE Capital)
        /\ Reading(num, BaseOf(spec)) = Magnitude(v)
    BY <1>1, <1>3 DEF NumberParts, NumeralOf, v
  <1>5. TextIsRead(out, s, mark, num)
    <2>1. mark = <<>> \/ \E c : mark = <<"0", c>>
      BY <1>4 DEF MarkOf
    <2>2. QED
      BY ONLY <1>4, <2>1, TextRead
  <1>6. text = s \o (mark \o num) /\ sign = s
    BY <1>5 DEF TextIsRead
  <1>7. /\ marked <=> IsHex(spec) /\ "#" \in spec.flags
        /\ hex <=> IsHex(spec)
        /\ signed <=> IsSigned(spec)
    BY <1>2 DEF IsHex, IsSigned
  <1>8. /\ marked => mark = <<"0", item.specifier>> /\ mark # <<>>
        /\ ~marked => mark = <<>>
    <2>1. \A c : <<"0", c>> # <<>>
      OBVIOUS
    <2>2. QED
      BY <1>2, <1>4, <1>7, <2>1 DEF MarkOf
  <1> HIDE DEF text, sign
  <1>9. digits = num
    <2>1. CASE marked
      BY <1>5, <1>6, <1>8, <2>1 DEF TextIsRead
    <2>2. CASE ~marked
      <3>1. digits = mark \o num
        BY <1>5, <1>6, <2>2 DEF TextIsRead
      <3>2. mark = <<>> /\ <<>> \o num = num
        BY <1>4, <1>8, <2>2
      <3>3. QED
        BY <3>1, <3>2
    <2>3. QED
      BY <2>1, <2>2
  <1>10. marked => SubSeq(text, Len(sign) + 1, Len(sign) + 2) = <<"0", item.specifier>>
    BY <1>5, <1>6, <1>8 DEF TextIsRead
  <1> HIDE DEF digits, marked
  <1>11. base = BaseOf(spec)
    BY <1>7 DEF BaseOf
  <1>12. read = Magnitude(v)
    BY <1>4, <1>9, <1>11
  <1>13. half = Half[spec.length]
    BY <1>2
  <1> HIDE DEF read, half
  <1>14. /\ ((IF v < 0 THEN -read ELSE read) - a) % (2 * half) = 0
         /\ read \in 0 .. (IF IsSigned(spec) THEN half ELSE 2 * half - 1)
         /\ IsSigned(spec) /\ ~(v < 0) => read < half
    <2>1. v = Value(a, spec)
      BY DEF v
    <2>2. a \in Int /\ ReadsBack(a, spec)
      BY <1>1
    <2>3. QED
      BY ONLY <1>12, <1>13, <2>1, <2>2, MagnitudeReads
  <1>15. sign = <<"-">> <=> v < 0
    BY <1>4, <1>6
  <1> HIDE DEF hex, signed
  <1>16. digits # <<>> /\ Len(digits) >= PrecisionOf(item) /\ Len(out) >= WidthOf(item)
    BY <1>2, <1>4, <1>9
  <1>17. hex => Range(digits) \subseteq Range(IF item.specifier = "x" THEN Small ELSE Capital)
    BY <1>2, <1>4, <1>7, <1>9
  <1>18. ((IF sign = <<"-">> THEN -read ELSE read) - item.args[1]) % (2 * half) = 0
    <2>1. a = item.args[1]
      BY DEF a
    <2>2. QED
      BY ONLY <1>14, <1>15, <2>1
  <1>19. read \in 0 .. (IF signed THEN half ELSE 2 * half - 1)
    BY ONLY <1>7, <1>14
  <1>20. signed /\ sign # <<"-">> => read < half
    BY ONLY <1>7, <1>14, <1>15
  <1>21. QED
    BY <1>10, <1>16, <1>17, <1>18, <1>19, <1>20

(* A printed number reads back as its argument at the width of its type,   *)
(* with its sign, base and the digits and columns asked for, for every     *)
(* width of the types and every number; except the smallest number, and    *)
(* except the flags - and 0.                                               *)
THEOREM NumbersReadBackAlways == PrintfSpec => []NumbersReadBack
  BY OrderInit, OrderStep, ReadsBackInv, PTL DEF PrintfSpec
=============================================================================
