-------------------------- MODULE SerialCallProofs --------------------------
(***************************************************************************)
(* Theorems about a call over the bytes of a serial line, for every        *)
(* argument, every damage of one byte and every cut of the answer, and the *)
(* lemmas about lines, frames, checksums and UTF-8 that they rest on.      *)
(***************************************************************************)
EXTENDS SerialCall, SequenceTheorems, FiniteSetTheorems, WellFoundedInduction,
        TLAPS

-----------------------------------------------------------------------------
(* Induction over the numbers, and the least and the greatest of a set      *)

\* The numbers have no infinite descent, so what holds of 0 and is passed on
\* to the next holds of all.
LEMMA Induction ==
    ASSUME NEW S, 0 \in S, \A n \in Nat : n \in S => n + 1 \in S
    PROVE  Nat \subseteq S
<1> SUFFICES ASSUME Nat \ S # {} PROVE FALSE
    OBVIOUS
<1> DEFINE T == Nat \ S
           R == OpToRel(<, Nat)
<1>1. PICK x \in T : \A y \in T : <<y, x>> \notin R
  <2>1. IsWellFoundedOn(R, Nat) /\ T \subseteq Nat /\ T # {}
        BY NatLessThanWellFounded
  <2> HIDE DEF R, T
  <2>2. \E x \in T : \A y \in T : ~ (<<y, x>> \in R)
        BY <2>1, WFMin
  <2>3. QED
        BY <2>2
<1>2. x \in Nat /\ x # 0
      OBVIOUS
<1>3. x - 1 \in Nat /\ <<x - 1, x>> \in R
      BY <1>2 DEF OpToRel
<1>4. x - 1 \in S
      BY <1>1, <1>3
<1>5. (x - 1) + 1 \in S
      BY <1>3, <1>4
<1>6. QED
      BY <1>2, <1>5

\* A set of numbers that is not empty has a least element ...
LEMMA MinIs ==
    ASSUME NEW S \in SUBSET Nat, S # {}
    PROVE  Min(S) \in S /\ \A y \in S : Min(S) <= y
<1>1. \E x \in S : \A y \in S : x <= y
  <2> SUFFICES ASSUME ~ \E x \in S : \A y \in S : x <= y PROVE FALSE
      OBVIOUS
  <2> DEFINE T == {n \in Nat : \A m \in 0..n : m \notin S}
  <2>1. 0 \in T
        OBVIOUS
  <2>2. ASSUME NEW n \in Nat, n \in T PROVE n + 1 \in T
    <3>1. n + 1 \notin S
      <4>1. \A y \in S : n + 1 <= y
            BY <2>2
      <4>2. QED
            BY <4>1
    <3>2. \A m \in 0..(n + 1) : m \in 0..n \/ m = n + 1
          OBVIOUS
    <3>3. QED
          BY <2>2, <3>1, <3>2
  <2>3. Nat \subseteq T
    <3> HIDE DEF T
    <3>1. QED
          BY <2>1, <2>2, Induction
  <2>4. PICK x \in S : TRUE
        OBVIOUS
  <2>5. x \in T /\ x \in 0..x
        BY <2>3
  <2>6. QED
        BY <2>4, <2>5
<1>2. QED
      BY <1>1 DEF Min

\* ... and if it is bounded a greatest.
LEMMA MaxIs ==
    ASSUME NEW n \in Nat, NEW S \in SUBSET (0..n), S # {}
    PROVE  Max(S) \in S /\ \A y \in S : y <= Max(S)
<1> DEFINE T == {n - y : y \in S}
<1>1. T \in SUBSET Nat /\ T # {}
  <2>1. \A y \in S : n - y \in Nat
        OBVIOUS
  <2>2. QED
        BY <2>1
<1>2. PICK m \in T : \A y \in T : m <= y
  <2> HIDE DEF T
  <2>1. QED
        BY <1>1, MinIs
<1>3. PICK x \in S : m = n - x
      OBVIOUS
<1>4. \A y \in S : x >= y
  <2> TAKE y \in S
  <2>1. n - x <= n - y
        BY <1>2, <1>3
  <2>2. QED
        BY <2>1
<1>5. QED
      BY <1>4 DEF Max

-----------------------------------------------------------------------------
(* FlattenSeq *)

\* The running concatenations of a sequence of sequences.
Runs(g, seqs, T) ==
    /\ g \in [0..Len(seqs) -> Seq(T)]
    /\ g[0] = <<>>
    /\ \A i \in 1..Len(seqs) : g[i] = g[i - 1] \o seqs[i]

\* There is such a function for any sequences.
LEMMA RunsExist ==
    ASSUME NEW T, NEW seqs \in Seq(Seq(T))
    PROVE  \E g : Runs(g, seqs, T)
<1> DEFINE n == Len(seqs)
           P(g, k) == /\ g \in [0..k -> Seq(T)]
                      /\ g[0] = <<>>
                      /\ \A i \in 1..k : g[i] = g[i - 1] \o seqs[i]
           S == {k \in Nat : k <= n => \E g : P(g, k)}
<1>0. n \in Nat /\ \A i \in 1..n : seqs[i] \in Seq(T)
      OBVIOUS
<1>1. 0 \in S
  <2>1. P([i \in 0..0 |-> <<>>], 0)
        OBVIOUS
  <2>2. QED
        BY <2>1
<1>2. ASSUME NEW k \in Nat, k \in S PROVE k + 1 \in S
  <2> SUFFICES ASSUME k + 1 <= n PROVE \E g : P(g, k + 1)
    <3> HIDE DEF P
    <3>1. QED
          OBVIOUS
  <2>0. k <= n
        BY <1>0
  <2>1. PICK g : P(g, k)
        BY <1>2, <2>0, Zenon
  <2> DEFINE h == [i \in 0..(k + 1) |-> IF i <= k THEN g[i] ELSE g[k] \o seqs[k + 1]]
  <2>2. g[k] \in Seq(T) /\ seqs[k + 1] \in Seq(T)
        BY <2>1, <1>0
  <2>3. g[k] \o seqs[k + 1] \in Seq(T)
        BY <2>2, ConcatProperties
  <2>4. h \in [0..(k + 1) -> Seq(T)] /\ h[0] = <<>>
        BY <2>1, <2>3
  <2>5. ASSUME NEW i \in 1..(k + 1) PROVE h[i] = h[i - 1] \o seqs[i]
    <3>1. CASE i <= k
      <4>1. i \in 1..k /\ i - 1 <= k /\ i - 1 \in 0..(k + 1)
            BY <3>1
      <4>2. h[i] = g[i] /\ h[i - 1] = g[i - 1]
            BY <4>1
      <4>3. QED
            BY <4>1, <4>2, <2>1
    <3>2. CASE i = k + 1
      <4>0. /\ k + 1 \in 0..(k + 1) /\ k \in 0..(k + 1) /\ ~(k + 1 <= k)
            /\ k <= k /\ i - 1 = k
            BY <3>2
      <4>1. h[k + 1] = g[k] \o seqs[k + 1] /\ h[k] = g[k]
            BY <4>0, Zenon
      <4>2. QED
            BY <4>0, <4>1, <3>2
    <3>3. i <= k \/ i = k + 1
          OBVIOUS
    <3>4. QED
          BY <3>1, <3>2, <3>3
  <2>6. P(h, k + 1)
        BY <2>4, <2>5
  <2>7. QED
        BY <2>6
<1>3. n \in S
  <2> HIDE DEF S
  <2>1. Nat \subseteq S
        BY <1>1, <1>2, Induction
  <2>2. QED
        BY <2>1, <1>0
<1>4. \E g : P(g, n)
  <2> HIDE DEF P
  <2>1. QED
        BY <1>0, <1>3
<1>5. QED
      BY <1>4, Zenon DEF Runs

\* FlattenSeq is the last of them.
LEMMA FlattenIs ==
    ASSUME NEW T, NEW seqs \in Seq(Seq(T)), NEW g, Runs(g, seqs, T)
    PROVE  FlattenSeq(seqs) = g[Len(seqs)]
<1> DEFINE n == Len(seqs)
<1>0. n \in Nat /\ \A i \in 1..n : seqs[i] \in Seq(T)
      OBVIOUS
<1>1. CASE n = 0
      BY <1>1, EmptySeq DEF FlattenSeq, Runs
<1>2. CASE n # 0
  <2> DEFINE F(f) == [i \in 1..n |-> IF i = 1 THEN seqs[i] ELSE f[i - 1] \o seqs[i]]
             h == [i \in 1..n |-> g[i]]
             c == CHOOSE f : f = F(f)
  <2>1. h = F(h)
    <3>1. ASSUME NEW i \in 1..n PROVE h[i] = F(h)[i]
      <4>1. g[i] = g[i - 1] \o seqs[i]
            BY DEF Runs
      <4>2. CASE i = 1
        <5>0. 1 - 1 = 0 /\ g[0] = <<>> /\ seqs[1] \in Seq(T)
              BY <4>2, <1>0 DEF Runs
        <5>1. g[1] = <<>> \o seqs[1]
              BY <4>1, <4>2, <5>0
        <5>2. QED
              BY <5>0, <5>1, <4>2, ConcatEmptySeq
      <4>3. CASE i # 1
        <5>1. i - 1 \in 1..n
              BY <4>3, <1>0
        <5>2. h[i - 1] = g[i - 1]
              BY <5>1
        <5>3. QED
              BY <4>1, <4>3, <5>2
      <4>4. QED
            BY <4>2, <4>3
    <3>2. QED
          BY <3>1
  <2>2. c = F(c)
        BY <2>1
  <2>3. FlattenSeq(seqs) = c[n]
        BY <1>2 DEF FlattenSeq
  <2> HIDE DEF c
  <2> DEFINE S == {k \in Nat : k \in 1..n => c[k] = g[k]}
  <2>4. 0 \in S
        OBVIOUS
  <2>5. ASSUME NEW k \in Nat, k \in S PROVE k + 1 \in S
    <3> SUFFICES ASSUME k + 1 \in 1..n PROVE c[k + 1] = g[k + 1]
        OBVIOUS
    <3>1. c[k + 1] = IF k + 1 = 1 THEN seqs[k + 1] ELSE c[(k + 1) - 1] \o seqs[k + 1]
          BY <2>2
    <3>2. g[k + 1] = g[(k + 1) - 1] \o seqs[k + 1]
          BY DEF Runs
    <3>3. CASE k = 0
      <4>0. (k + 1) - 1 = 0 /\ k + 1 = 1 /\ g[0] = <<>> /\ seqs[1] \in Seq(T)
            BY <3>3, <1>0 DEF Runs
      <4>1. g[1] = <<>> \o seqs[1]
            BY <3>2, <4>0
      <4>2. QED
            BY <4>0, <4>1, <3>1, ConcatEmptySeq
    <3>4. CASE k # 0
      <4>1. k \in 1..n /\ (k + 1) - 1 = k /\ k + 1 # 1
            BY <3>4, <1>0
      <4>2. c[k] = g[k]
            BY <4>1, <2>5
      <4>3. QED
            BY <4>1, <4>2, <3>1, <3>2
    <3>5. QED
          BY <3>3, <3>4
  <2>6. Nat \subseteq S
    <3> HIDE DEF S
    <3>1. QED
          BY <2>4, <2>5, Induction
  <2>7. n \in S
        BY <2>6, <1>0
  <2>8. QED
        BY <2>3, <2>7, <1>2, <1>0
<1>3. QED
      BY <1>1, <1>2

\* Sequences over a set, taken together, are one over that set.
LEMMA FlattenType ==
    ASSUME NEW T, NEW seqs \in Seq(Seq(T))
    PROVE  FlattenSeq(seqs) \in Seq(T)
<1>1. PICK g : Runs(g, seqs, T)
      BY RunsExist
<1>2. FlattenSeq(seqs) = g[Len(seqs)]
      BY <1>1, FlattenIs
<1>3. QED
      BY <1>1, <1>2 DEF Runs

\* Three sequences may be put together in either order.
LEMMA Associative ==
    ASSUME NEW T
    PROVE  \A x, y, z \in Seq(T) : x \o (y \o z) = (x \o y) \o z
<1> TAKE x, y, z \in Seq(T)
<1>1. QED
      BY ConcatAssociative

\* Taken together in two parts they are the same.
LEMMA FlattenConcat ==
    ASSUME NEW T, NEW a \in Seq(Seq(T)), NEW b \in Seq(Seq(T))
    PROVE  FlattenSeq(a \o b) = FlattenSeq(a) \o FlattenSeq(b)
<1>1. PICK f : Runs(f, a, T)
      BY RunsExist
<1>2. PICK g : Runs(g, b, T)
      BY RunsExist
<1> DEFINE m == Len(a)
           n == Len(b)
           c == a \o b
           h == [i \in 0..(m + n) |-> IF i <= m THEN f[i] ELSE f[m] \o g[i - m]]
<1>3. m \in Nat /\ n \in Nat /\ c \in Seq(Seq(T)) /\ Len(c) = m + n
      BY ConcatProperties
<1>4. /\ \A i \in 1..m : c[i] = a[i]
      /\ \A i \in (m + 1)..(m + n) : c[i] = b[i - m]
      BY ConcatProperties
<1>5. \A i \in 0..m : f[i] \in Seq(T)
      BY <1>1 DEF Runs
<1>6. \A i \in 0..n : g[i] \in Seq(T)
      BY <1>2 DEF Runs
<1>7. /\ \A i \in 0..(m + n) : i <= m => h[i] = f[i]
      /\ \A i \in 0..(m + n) : ~(i <= m) => h[i] = f[m] \o g[i - m]
      /\ DOMAIN h = 0..(m + n)
      OBVIOUS
<1>8. h = [i \in 0..(m + n) |-> h[i]]
      OBVIOUS
<1> HIDE DEF m, n, c, h
<1>9. \A i \in 0..(m + n) : h[i] \in Seq(T)
  <2> TAKE i \in 0..(m + n)
  <2>1. CASE i <= m
    <3>1. i \in 0..m
          BY <2>1, <1>3
    <3>2. QED
          BY <2>1, <3>1, <1>5, <1>7
  <2>2. CASE ~(i <= m)
    <3>1. f[m] \in Seq(T) /\ g[i - m] \in Seq(T)
          BY <2>2, <1>3, <1>5, <1>6
    <3>2. QED
          BY <3>1, <2>2, <1>7, ConcatProperties
  <2>3. QED
        BY <2>1, <2>2
<1>10. /\ \A i \in 1..m : f[i] = f[i - 1] \o a[i]
       /\ \A i \in 1..n : g[i] = g[i - 1] \o b[i] /\ b[i] \in Seq(T)
       /\ f[0] = <<>> /\ g[0] = <<>>
  <2>1. \A i \in 1..n : b[i] \in Seq(T)
        BY <1>3 DEF n
  <2>2. /\ \A i \in 1..m : f[i] = f[i - 1] \o a[i]
        /\ f[0] = <<>>
        BY <1>1, Zenon DEF Runs, m
  <2>3. /\ \A i \in 1..n : g[i] = g[i - 1] \o b[i]
        /\ g[0] = <<>>
        BY <1>2, Zenon DEF Runs, n
  <2>4. QED
        BY <2>1, <2>2, <2>3, Zenon
<1>11. ASSUME NEW i \in 1..(m + n) PROVE h[i] = h[i - 1] \o c[i]
  <2>1. CASE i <= m
    <3>1. /\ i \in 1..m /\ i \in 0..(m + n)
          /\ i - 1 <= m /\ i - 1 \in 0..(m + n)
          BY <2>1, <1>3
    <3>2. f[i] = f[i - 1] \o a[i] /\ c[i] = a[i]
          BY <3>1, <1>10, <1>4
    <3>3. h[i] = f[i] /\ h[i - 1] = f[i - 1]
          BY <3>1, <2>1, <1>7
    <3>4. QED
          BY <3>2, <3>3
  <2>2. CASE i = m + 1
    <3>1. /\ 1 \in 1..n /\ i - m = 1 /\ i - 1 = m /\ i \in 0..(m + n)
          /\ i \in (m + 1)..(m + n) /\ m \in 0..(m + n) /\ ~(i <= m) /\ m <= m
          BY <2>2, <1>3
    <3>2. h[i] = f[m] \o g[1] /\ h[i - 1] = f[m] /\ c[i] = b[1]
          BY <3>1, <1>7, <1>4
    <3>3. 1 - 1 = 0
          OBVIOUS
    <3>4. g[1] = g[0] \o b[1] /\ b[1] \in Seq(T)
          BY <3>1, <3>3, <1>10, Zenon
    <3>5. g[1] = b[1]
          BY <3>4, <1>10, ConcatEmptySeq, Zenon
    <3>6. QED
          BY <3>2, <3>5
  <2>3. CASE i > m + 1
    <3>1. /\ i - m \in 1..n /\ (i - m) - 1 \in 0..n /\ (i - 1) - m = (i - m) - 1
          /\ ~(i <= m) /\ ~(i - 1 <= m) /\ i - 1 \in 0..(m + n) /\ i \in 0..(m + n)
          /\ i \in (m + 1)..(m + n) /\ m \in 0..m
          BY <2>3, <1>3
    <3>2. g[i - m] = g[(i - m) - 1] \o b[i - m] /\ b[i - m] \in Seq(T)
          BY <3>1, <1>10
    <3>3. c[i] = b[i - m]
          BY <3>1, <1>4
    <3>4. h[i] = f[m] \o g[i - m] /\ h[i - 1] = f[m] \o g[(i - m) - 1]
          BY <3>1, <1>7
    <3>5. f[m] \in Seq(T) /\ g[(i - m) - 1] \in Seq(T)
          BY <3>1, <1>5, <1>6
    <3>6. \A x, y, z \in Seq(T) : x \o (y \o z) = (x \o y) \o z
          BY Associative
    <3>7. f[m] \o (g[(i - m) - 1] \o b[i - m]) = (f[m] \o g[(i - m) - 1]) \o b[i - m]
          BY <3>2, <3>5, <3>6, Zenon
    <3>8. h[i] = f[m] \o (g[(i - m) - 1] \o b[i - m])
          BY <3>2, <3>4, Zenon
    <3>9. h[i - 1] \o c[i] = (f[m] \o g[(i - m) - 1]) \o b[i - m]
          BY <3>3, <3>4, Zenon
    <3>10. QED
           BY <3>7, <3>8, <3>9, Zenon
  <2>4. i <= m \/ i = m + 1 \/ i > m + 1
        BY <1>3
  <2>5. QED
        BY <2>1, <2>2, <2>3, <2>4
<1>12. Runs(h, c, T)
  <2>1. h[0] = <<>>
        BY <1>3, <1>7, <1>10
  <2>2. h \in [0..(m + n) -> Seq(T)]
        BY <1>8, <1>9
  <2>3. QED
        BY <1>3, <1>11, <2>1, <2>2 DEF Runs
<1>13. FlattenSeq(c) = h[m + n]
       BY <1>3, <1>12, FlattenIs
<1>14. FlattenSeq(a) = f[m] /\ FlattenSeq(b) = g[n]
       BY <1>1, <1>2, FlattenIs DEF m, n
<1>15. h[m + n] = f[m] \o g[n]
  <2>1. CASE n = 0
    <3>1. f[m] \in Seq(T) /\ m + n \in 0..(m + n) /\ m + n <= m /\ m + n = m
          BY <2>1, <1>3, <1>5
    <3>2. h[m + n] = f[m]
          BY <3>1, <1>7
    <3>3. QED
          BY <2>1, <3>1, <3>2, <1>10, ConcatEmptySeq
  <2>2. CASE n # 0
    <3>1. m + n \in 0..(m + n) /\ ~(m + n <= m) /\ (m + n) - m = n
          BY <2>2, <1>3
    <3>2. QED
          BY <3>1, <1>7
  <2>3. QED
        BY <2>1, <2>2
<1>16. QED
       BY <1>13, <1>14, <1>15 DEF c

-----------------------------------------------------------------------------
(* UTF-8 *)

\* What is where in a sequence and in two of them together.
LEMMA SeqAt ==
    ASSUME NEW S, NEW s \in Seq(S)
    PROVE  /\ Len(s) \in Nat /\ DOMAIN s = 1..Len(s)
           /\ \A i \in 1..Len(s) : s[i] \in S
OBVIOUS

\* What is where in two sequences together.
LEMMA ConcatAt ==
    ASSUME NEW S, NEW a \in Seq(S), NEW b \in Seq(S)
    PROVE  /\ a \o b \in Seq(S)
           /\ Len(a) \in Nat /\ Len(b) \in Nat /\ Len(a \o b) = Len(a) + Len(b)
           /\ \A i \in 1..Len(a) : (a \o b)[i] = a[i]
           /\ \A i \in 1..Len(b) : (a \o b)[Len(a) + i] = b[i]
<1> DEFINE c == a \o b
           m == Len(a)
           n == Len(b)
<1>1. m \in Nat /\ n \in Nat
      OBVIOUS
<1>2. /\ c \in Seq(S) /\ Len(c) = m + n
      /\ \A i \in 1..(m + n) : c[i] = IF i <= m THEN a[i] ELSE b[i - m]
      BY ConcatProperties
<1> HIDE DEF c, m, n
<1>3. ASSUME NEW i \in 1..m PROVE c[i] = a[i]
      BY <1>1, <1>2
<1>4. ASSUME NEW i \in 1..n PROVE c[m + i] = b[i]
  <2>1. m + i \in 1..(m + n) /\ ~(m + i <= m) /\ (m + i) - m = i
        BY <1>1
  <2>2. QED
        BY <2>1, <1>2
<1>5. QED
      BY <1>1, <1>2, <1>3, <1>4 DEF c, m, n

Byte == 0..255
Ascii == 0..127

\* The ranges of bytes that Decode tells apart.
LEMMA Ranges ==
    /\ \A x \in Byte : x \in Nat /\ x <= 255
    /\ \A x \in Ascii : x \in Nat /\ x < 128 /\ x \in Byte /\ x \in 0..127
    /\ \A x \in 128..191 : x \in Nat /\ ~(x < 128) /\ x \notin 225..236
    /\ \A x \in 225..236 : x \in Nat /\ ~(x < 128) /\ x \notin 128..191
BY DEF Byte, Ascii

\* Every element of some bytes is a byte.
LEMMA ByteAt ==
    ASSUME NEW s \in Seq(Byte), NEW i \in 1..Len(s)
    PROVE  s[i] \in Byte /\ s[i] \in Nat /\ s[i] <= 255
<1>1. s[i] \in Byte
      BY SeqAt
<1>2. QED
      BY <1>1, Ranges, Zenon

\* One-element sequences taken together are the sequence of their elements.
LEMMA Singles ==
    ASSUME NEW T, NEW t \in Seq(T)
    PROVE  FlattenSeq([i \in DOMAIN t |-> <<t[i]>>]) = t
<1> DEFINE n == Len(t)
           seqs == [i \in DOMAIN t |-> <<t[i]>>]
           g == [i \in 0..n |-> SubSeq(t, 1, i)]
<1>1. n \in Nat /\ DOMAIN t = 1..n /\ t \in [1..n -> T]
      OBVIOUS
<1>2. \A i \in 1..n : <<t[i]>> \in Seq(T)
      BY <1>1
<1>3. seqs \in Seq(Seq(T)) /\ Len(seqs) = n
      BY <1>1, <1>2
<1>4. \A i \in 0..n : SubSeq(t, 1, i) \in Seq(T)
  <2> TAKE i \in 0..n
  <2>1. i \in Int /\ \A k \in 1..i : t[k] \in T
        BY <1>1
  <2>2. QED
        BY <2>1, SubSeqProperties
<1>5. SubSeq(t, 1, 0) = <<>>
      BY SubSeqEmpty
<1>6. \A i \in 1..n : SubSeq(t, 1, i) = SubSeq(t, 1, i - 1) \o <<t[i]>>
  <2> TAKE i \in 1..n
  <2>1. 1 \in 1..Len(t) /\ i \in 1..Len(t)
        BY <1>1
  <2>2. QED
        BY <2>1, SubSeqRecursiveSecond
<1>7. Runs(g, seqs, T)
  <2>1. g \in [0..n -> Seq(T)] /\ g[0] = <<>>
        BY <1>1, <1>4, <1>5
  <2>2. ASSUME NEW i \in 1..n PROVE g[i] = g[i - 1] \o seqs[i]
    <3>1. i \in 0..n /\ i - 1 \in 0..n
          BY <1>1
    <3>2. g[i] = SubSeq(t, 1, i) /\ g[i - 1] = SubSeq(t, 1, i - 1)
          BY <3>1, Zenon
    <3>3. seqs[i] = <<t[i]>>
          BY <1>1
    <3>4. QED
          BY <3>2, <3>3, <1>6, Zenon
  <2>3. QED
        BY <1>3, <2>1, <2>2, Zenon DEF Runs
<1>8. FlattenSeq(seqs) = g[n]
      BY <1>3, <1>7, FlattenIs
<1>9. g[n] = t
      BY <1>1, SubSeqFull
<1>10. QED
       BY <1>8, <1>9

\* ASCII is encoded as itself.
LEMMA EncodeAscii ==
    ASSUME NEW t \in Seq(Ascii)
    PROVE  Encode(t) = t
<1>1. \A i \in DOMAIN t : t[i] \in Ascii
      BY SeqAt
<1>2. \A i \in DOMAIN t : Utf8(t[i]) = <<t[i]>>
  <2> TAKE i \in DOMAIN t
  <2>1. t[i] < 128
        BY <1>1, Ranges, Zenon
  <2>2. QED
        BY <2>1, Zenon DEF Utf8
<1>3. [i \in DOMAIN t |-> Utf8(t[i])] = [i \in DOMAIN t |-> <<t[i]>>]
      BY <1>2, Zenon
<1>4. QED
      BY <1>3, Singles DEF Encode

\* A character is encoded as one to three bytes.
LEMMA Utf8Type ==
    ASSUME NEW c \in Nat
    PROVE  Utf8(c) \in Seq(Nat) /\ Len(Utf8(c)) \in 1..3
BY DEF Utf8

\* A text may be encoded in parts.
LEMMA EncodeConcat ==
    ASSUME NEW a \in Seq(Nat), NEW b \in Seq(Nat)
    PROVE  Encode(a \o b) = Encode(a) \o Encode(b)
<1> DEFINE f(t) == [i \in DOMAIN t |-> Utf8(t[i])]
           c == a \o b
<1>1. \A t \in Seq(Nat) : /\ f(t) \in Seq(Seq(Nat)) /\ Len(f(t)) = Len(t)
                          /\ \A i \in 1..Len(t) : f(t)[i] = Utf8(t[i])
  <2> TAKE t \in Seq(Nat)
  <2>1. \A i \in 1..Len(t) : Utf8(t[i]) \in Seq(Nat)
        BY Utf8Type, SeqAt
  <2>2. DOMAIN t = 1..Len(t) /\ Len(t) \in Nat
        OBVIOUS
  <2>3. QED
        BY <2>1, <2>2
<1>2. c \in Seq(Nat) /\ Len(c) = Len(a) + Len(b) /\ Len(a) \in Nat /\ Len(b) \in Nat
      BY ConcatProperties
<1>3. f(a) \in Seq(Seq(Nat)) /\ f(b) \in Seq(Seq(Nat)) /\ f(c) \in Seq(Seq(Nat))
      BY <1>1, <1>2, Zenon
<1>4. Len(f(a)) = Len(a) /\ Len(f(b)) = Len(b) /\ Len(f(c)) = Len(a) + Len(b)
      BY <1>1, <1>2, Zenon
<1>5. ASSUME NEW i \in 1..(Len(a) + Len(b)) PROVE f(c)[i] = (f(a) \o f(b))[i]
  <2>1. f(c)[i] = Utf8(c[i])
        BY <1>1, <1>2, Zenon
  <2>2. CASE i <= Len(a)
    <3>1. i \in 1..Len(a)
          BY <2>2
    <3>2. c[i] = a[i]
          BY <3>1, ConcatProperties
    <3>3. f(a)[i] = Utf8(a[i])
          BY <1>1, <3>1, Zenon
    <3> HIDE DEF f
    <3>4. (f(a) \o f(b))[i] = f(a)[i]
          BY <1>3, <1>4, <2>2, ConcatProperties
    <3>5. QED
          BY <2>1, <3>2, <3>3, <3>4, Zenon
  <2>3. CASE ~(i <= Len(a))
    <3>1. i - Len(a) \in 1..Len(b)
          BY <2>3, <1>2
    <3>2. c[i] = b[i - Len(a)]
          BY <2>3, ConcatProperties
    <3>3. f(b)[i - Len(a)] = Utf8(b[i - Len(a)])
          BY <1>1, <3>1, Zenon
    <3>6. Len(a) + (i - Len(a)) = i
          BY <1>2
    <3> HIDE DEF f
    <3>4. (f(a) \o f(b))[i] = f(b)[i - Len(a)]
      <4>1. \A j \in 1..Len(f(b)) : (f(a) \o f(b))[Len(f(a)) + j] = f(b)[j]
            BY <1>3, ConcatAt
      <4>2. QED
            BY <1>4, <3>1, <3>6, <4>1, Zenon
    <3>5. QED
          BY <2>1, <3>2, <3>3, <3>4, Zenon
  <2>4. QED
        BY <2>2, <2>3
<1>6. f(c) = f(a) \o f(b)
  <2> HIDE DEF f
  <2>1. f(a) \o f(b) \in Seq(Seq(Nat)) /\ Len(f(a) \o f(b)) = Len(a) + Len(b)
        BY <1>3, <1>4, ConcatProperties
  <2>2. QED
        BY <1>3, <1>4, <1>5, <2>1, SeqEqual
<1>7. FlattenSeq(f(a) \o f(b)) = FlattenSeq(f(a)) \o FlattenSeq(f(b))
  <2> HIDE DEF f
  <2>1. QED
        BY <1>3, FlattenConcat
<1>8. QED
      BY <1>6, <1>7 DEF Encode

\* What a byte alone is decoded to.
Alone(byte) == IF byte < 128 THEN byte ELSE Replacement

\* The text two halves of some bytes are decoded to, if no character goes across.
Apart(a, b) == \/ a = <<>> \/ b = <<>>
               \/ b[1] \notin 128..191
               \/ a[Len(a)] < 128

\* The wide character that begins at i.
WideAt(bytes, i) == 4096 * (bytes[i] - 224) + 64 * (bytes[i + 1] - 128)
                    + (bytes[i + 2] - 128)

\* The four cases of decoding at one place.
LEMMA CharsCases ==
    ASSUME NEW bytes, NEW i
    PROVE  /\ IsInside(bytes, i) => CharsAt(bytes, i) = <<>>
           /\ ~IsInside(bytes, i) /\ bytes[i] < 128 => CharsAt(bytes, i) = <<bytes[i]>>
           /\ ~IsInside(bytes, i) /\ ~(bytes[i] < 128) /\ IsWhole(bytes, i)
                 => CharsAt(bytes, i) = <<WideAt(bytes, i)>>
           /\ ~IsInside(bytes, i) /\ ~(bytes[i] < 128) /\ ~IsWhole(bytes, i)
                 => CharsAt(bytes, i) = <<Replacement>>
BY DEF CharsAt, WideAt

\* What is decoded at one place; an ASCII character only from its own byte.
LEMMA CharsType ==
    ASSUME NEW bytes \in Seq(Byte), NEW i \in 1..Len(bytes)
    PROVE  /\ CharsAt(bytes, i) \in Seq(Nat)
           /\ bytes[i] < 128 => CharsAt(bytes, i) = <<bytes[i]>>
           /\ \A k \in DOMAIN CharsAt(bytes, i) :
                 CharsAt(bytes, i)[k] < 128 => CharsAt(bytes, i)[k] = bytes[i]
<1> DEFINE c == CharsAt(bytes, i)
           x == bytes[i]
           y == bytes[i + 1]
           z == bytes[i + 2]
           wide == WideAt(bytes, i)
<1>1. x \in Nat
      BY ByteAt
<1>2. x < 128 => ~IsInside(bytes, i)
  <2>1. IsInside(bytes, i) => x \in 128..191
        BY Zenon DEF Continues, IsInside
  <2>2. QED
        BY <2>1, Ranges, Zenon
<1>3. IsWhole(bytes, i) => x \in 225..236 /\ y \in 128..191 /\ z \in 128..191
      BY DEF IsWhole, Begins, Continues
<1>4. CASE IsInside(bytes, i)
  <2>1. c = <<>> /\ ~(x < 128)
        BY <1>2, <1>4, CharsCases, Zenon
  <2> HIDE DEF c, x
  <2>2. c \in Seq(Nat) /\ \A k \in DOMAIN c : c[k] < 128 => c[k] = x
        BY <2>1
  <2>3. QED
        BY <2>1, <2>2 DEF c, x
<1>5. CASE ~IsInside(bytes, i) /\ x < 128
  <2>1. c = <<x>>
        BY <1>5, CharsCases, Zenon
  <2> HIDE DEF c, x
  <2>2. c \in Seq(Nat) /\ \A k \in DOMAIN c : c[k] < 128 => c[k] = x
        BY <1>1, <2>1
  <2>3. QED
        BY <2>1, <2>2 DEF c, x
<1>6. CASE ~IsInside(bytes, i) /\ ~(x < 128) /\ IsWhole(bytes, i)
  <2>1. c = <<wide>>
        BY <1>6, CharsCases, Zenon
  <2> HIDE DEF c, x, y, z
  <2>2. x \in 225..236 /\ y \in 128..191 /\ z \in 128..191
        BY <1>3, <1>6
  <2>3. wide \in Nat /\ ~(wide < 128)
    <3>1. wide = 4096 * (x - 224) + 64 * (y - 128) + (z - 128)
          BY Zenon DEF wide, WideAt, x, y, z
    <3> HIDE DEF wide
    <3>2. QED
          BY <2>2, <3>1
  <2> HIDE DEF wide
  <2>4. c \in Seq(Nat) /\ \A k \in DOMAIN c : c[k] < 128 => c[k] = x
        BY <2>1, <2>3
  <2>5. QED
        BY <1>6, <2>4 DEF c, x
<1>7. CASE ~IsInside(bytes, i) /\ ~(x < 128) /\ ~IsWhole(bytes, i)
  <2>1. c = <<Replacement>>
        BY <1>7, CharsCases, Zenon
  <2>2. Replacement \in Nat /\ ~(Replacement < 128)
        BY DEF Replacement
  <2> HIDE DEF c, x, y, z
  <2>3. c \in Seq(Nat) /\ \A k \in DOMAIN c : c[k] < 128 => c[k] = x
        BY <2>1, <2>2
  <2>4. QED
        BY <1>7, <2>3 DEF c, x
<1>8. QED
      BY <1>4, <1>5, <1>6, <1>7, Zenon

\* What is where in two halves of some bytes.
LEMMA BytesTogether ==
    ASSUME NEW a \in Seq(Byte), NEW b \in Seq(Byte)
    PROVE  /\ Len(a) \in Nat /\ Len(b) \in Nat /\ DOMAIN (a \o b) = 1..(Len(a) + Len(b))
           /\ DOMAIN a = 1..Len(a) /\ DOMAIN b = 1..Len(b)
           /\ \A j \in 1..Len(a) : (a \o b)[j] = a[j] /\ a[j] \in Nat
           /\ \A j \in 1..Len(b) : (a \o b)[Len(a) + j] = b[j] /\ b[j] \in Nat
<1>1. a \o b \in Seq(Byte) /\ Len(a \o b) = Len(a) + Len(b)
      BY ConcatAt
<1>2. DOMAIN (a \o b) = 1..(Len(a) + Len(b))
      BY <1>1, SeqAt
<1>3. \A j \in 1..Len(a) : (a \o b)[j] = a[j] /\ a[j] \in Nat
      BY ConcatAt, ByteAt
<1>4. \A j \in 1..Len(b) : (a \o b)[Len(a) + j] = b[j] /\ b[j] \in Nat
      BY ConcatAt, ByteAt
<1>5. QED
      BY <1>2, <1>3, <1>4, SeqAt

\* The bytes of a wide character are beyond ASCII.
LEMMA Marks ==
    ASSUME NEW bytes, NEW i
    PROVE  Begins(bytes, i) \/ Continues(bytes, i) =>
              i \in DOMAIN bytes /\ bytes[i] \in Nat /\ ~(bytes[i] < 128)
BY DEF Begins, Continues

\* The left half is decoded as it is alone if no character goes across.
LEMMA CharsLeft ==
    ASSUME NEW a \in Seq(Byte), NEW b \in Seq(Byte), Apart(a, b), NEW i \in 1..Len(a)
    PROVE  CharsAt(a \o b, i) = CharsAt(a, i)
<1> DEFINE c == a \o b
           m == Len(a)
           n == Len(b)
<1>1. /\ m \in Nat /\ n \in Nat /\ DOMAIN c = 1..(m + n) /\ DOMAIN a = 1..m
      /\ \A j \in 1..m : c[j] = a[j] /\ a[j] \in Nat
      /\ \A j \in 1..n : c[m + j] = b[j] /\ b[j] \in Nat
      BY BytesTogether
<1>2. n = 0 \/ b[1] \notin 128..191 \/ a[m] < 128
      BY <1>1 DEF Apart
<1> HIDE DEF c, m, n
<1>3. i \in 1..m /\ c[i] = a[i]
      BY <1>1 DEF m
<1>4. ASSUME NEW j \in Int, j <= m
      PROVE  (Begins(c, j) <=> Begins(a, j)) /\ (Continues(c, j) <=> Continues(a, j))
  <2>1. j \in DOMAIN c <=> j \in DOMAIN a
        BY <1>1, <1>4
  <2>2. j \in DOMAIN a => c[j] = a[j]
        BY <1>1
  <2>3. QED
        BY <2>1, <2>2, Zenon DEF Begins, Continues
<1>5. ASSUME NEW j \in Int, j > m
      PROVE  ~Begins(a, j) /\ ~Continues(a, j)
      BY <1>1, <1>5 DEF Begins, Continues
<1>6. Continues(c, m + 1) => a[m] < 128
  <2>1. Continues(c, m + 1) => 1 \in 1..n /\ c[m + 1] \in 128..191
        BY <1>1 DEF Continues
  <2>2. QED
        BY <2>1, <1>1, <1>2
<1>7. IsWhole(c, i) <=> IsWhole(a, i)
  <2>1. CASE i + 2 <= m
    <3>1. /\ i \in Int /\ i <= m /\ i + 1 \in Int /\ i + 1 <= m
          /\ i + 2 \in Int
          BY <2>1, <1>1, <1>3
    <3>2. QED
          BY <2>1, <3>1, <1>4 DEF IsWhole
  <2>2. CASE i + 1 = m
    <3>1. Continues(c, m) => ~(a[m] < 128)
      <4>1. c[m] = a[m] /\ a[m] \in Nat
            BY <1>1, <1>3
      <4>2. QED
            BY <4>1, Marks, Zenon
    <3>2. ~IsWhole(c, i)
          BY <2>2, <3>1, <1>6 DEF IsWhole
    <3>3. ~IsWhole(a, i)
          BY <2>2, <1>5, <1>3 DEF IsWhole
    <3>4. QED
          BY <3>2, <3>3
  <2>3. CASE i = m
    <3>1. Begins(c, m) => ~(a[m] < 128)
      <4>1. c[m] = a[m] /\ a[m] \in Nat
            BY <1>1, <1>3
      <4>2. QED
            BY <4>1 DEF Begins
    <3>2. ~IsWhole(c, i)
          BY <2>3, <3>1, <1>6 DEF IsWhole
    <3>3. ~IsWhole(a, i)
          BY <2>3, <1>5, <1>3 DEF IsWhole
    <3>4. QED
          BY <3>2, <3>3
  <2>4. QED
        BY <1>1, <1>3, <2>1, <2>2, <2>3
<1>8. IsWhole(a, i) => i + 1 \in 1..m /\ i + 2 \in 1..m
      BY <1>1 DEF IsWhole, Continues
<1>9. IsWhole(a, i) => c[i + 1] = a[i + 1] /\ c[i + 2] = a[i + 2]
      BY <1>1, <1>8
<1>10. IsInside(c, i) <=> IsInside(a, i)
  <2>1. i \in Int /\ i <= m /\ i - 1 \in Int /\ i - 1 <= m /\ i - 2 \in Int /\ i - 2 <= m
        BY <1>1, <1>3
  <2>2. QED
        BY <2>1, <1>4 DEF IsInside
<1>11. CharsAt(c, i) = CharsAt(a, i)
  <2>1. IsWhole(a, i) => WideAt(c, i) = WideAt(a, i)
        BY <1>3, <1>9 DEF WideAt
  <2>2. QED
        BY <1>3, <1>7, <1>10, <2>1, CharsCases, Zenon
<1>12. QED
       BY <1>11 DEF c

\* So is the right half.
LEMMA CharsRight ==
    ASSUME NEW a \in Seq(Byte), NEW b \in Seq(Byte), Apart(a, b), NEW i \in 1..Len(b)
    PROVE  CharsAt(a \o b, Len(a) + i) = CharsAt(b, i)
<1> DEFINE c == a \o b
           m == Len(a)
           n == Len(b)
<1>1. /\ m \in Nat /\ n \in Nat /\ DOMAIN c = 1..(m + n) /\ DOMAIN b = 1..n
      /\ \A j \in 1..m : c[j] = a[j] /\ a[j] \in Nat
      /\ \A j \in 1..n : c[m + j] = b[j] /\ b[j] \in Nat
      BY BytesTogether
<1>2. m = 0 \/ b[1] \notin 128..191 \/ a[m] < 128
      BY <1>1 DEF Apart
<1> HIDE DEF c, m, n
<1>3. i \in 1..n /\ c[m + i] = b[i]
      BY <1>1 DEF n
<1>4. ASSUME NEW j \in Int, j >= 1
      PROVE  /\ Begins(c, m + j) <=> Begins(b, j)
             /\ Continues(c, m + j) <=> Continues(b, j)
  <2>1. m + j \in DOMAIN c <=> j \in DOMAIN b
        BY <1>1, <1>4
  <2>2. j \in DOMAIN b => c[m + j] = b[j]
        BY <1>1
  <2>3. QED
        BY <2>1, <2>2, Zenon DEF Begins, Continues
<1>5. ASSUME NEW j \in Int, j < 1
      PROVE  ~Begins(b, j) /\ ~Continues(b, j)
      BY <1>1, <1>5 DEF Begins, Continues
<1>6. Continues(b, 1) => ~Begins(c, m) /\ ~Continues(c, m)
  <2>1. Continues(b, 1) => b[1] \in 128..191
        BY DEF Continues
  <2>2. Begins(c, m) \/ Continues(c, m) => m # 0 /\ ~(a[m] < 128)
    <3>1. m \in DOMAIN c => m # 0 /\ m \in 1..m
          BY <1>1
    <3>2. m \in DOMAIN c => c[m] = a[m] /\ a[m] \in Nat
          BY <3>1, <1>1
    <3>3. QED
          BY <3>1, <3>2, Marks, Zenon
  <2>3. QED
        BY <2>1, <2>2, <1>2
<1>7. IsWhole(c, m + i) <=> IsWhole(b, i)
  <2>1. /\ i \in Int /\ i >= 1 /\ i + 1 \in Int /\ i + 1 >= 1 /\ i + 2 \in Int /\ i + 2 >= 1
        /\ (m + i) + 1 = m + (i + 1) /\ (m + i) + 2 = m + (i + 2)
        BY <1>1, <1>3
  <2>2. QED
        BY <2>1, <1>4 DEF IsWhole
<1>8. IsWhole(b, i) => c[(m + i) + 1] = b[i + 1] /\ c[(m + i) + 2] = b[i + 2]
  <2>1. IsWhole(b, i) => i + 1 \in 1..n /\ i + 2 \in 1..n
        BY <1>1 DEF IsWhole, Continues
  <2>2. (m + i) + 1 = m + (i + 1) /\ (m + i) + 2 = m + (i + 2)
        BY <1>1, <1>3
  <2>3. QED
        BY <2>1, <2>2, <1>1
<1>9. IsInside(c, m + i) <=> IsInside(b, i)
  <2>1. i \in Int /\ i >= 1 /\ i - 1 \in Int /\ i - 2 \in Int
        BY <1>3
  <2>2. Continues(c, m + i) <=> Continues(b, i)
        BY <2>1, <1>4
  <2>3. CASE i = 1
    <3>1. (m + i) - 1 = m /\ ~Begins(b, i - 1) /\ ~Continues(b, i - 1)
          BY <2>1, <2>3, <1>1, <1>5
    <3>2. QED
          BY <3>1, <2>2, <2>3, <1>6 DEF IsInside
  <2>4. CASE i = 2
    <3>1. (m + i) - 1 = m + 1 /\ i - 1 = 1 /\ (m + i) - 2 = m /\ ~Begins(b, i - 2)
          BY <2>1, <2>4, <1>1, <1>5
    <3>2. (Begins(c, m + 1) <=> Begins(b, 1)) /\ (Continues(c, m + 1) <=> Continues(b, 1))
          BY <1>4
    <3>3. QED
          BY <3>1, <3>2, <2>2, <1>6 DEF IsInside
  <2>5. CASE i > 2
    <3>1. /\ (m + i) - 1 = m + (i - 1) /\ (m + i) - 2 = m + (i - 2)
          /\ i - 1 >= 1 /\ i - 2 >= 1
          BY <2>1, <2>5, <1>1
    <3>2. QED
          BY <3>1, <2>1, <2>2, <1>4 DEF IsInside
  <2>6. QED
        BY <2>1, <2>3, <2>4, <2>5
<1>10. CharsAt(c, m + i) = CharsAt(b, i)
  <2>1. IsWhole(b, i) => WideAt(c, m + i) = WideAt(b, i)
        BY <1>3, <1>8 DEF WideAt
  <2>2. QED
        BY <1>3, <1>7, <1>9, <2>1, CharsCases, Zenon
<1>11. QED
       BY <1>10 DEF c, m

\* Bytes may be decoded in parts where no character goes across.
LEMMA DecodeConcat ==
    ASSUME NEW a \in Seq(Byte), NEW b \in Seq(Byte), Apart(a, b)
    PROVE  Decode(a \o b) = Decode(a) \o Decode(b)
<1> DEFINE f(t) == [i \in DOMAIN t |-> CharsAt(t, i)]
           c == a \o b
           m == Len(a)
           n == Len(b)
<1>1. /\ c \in Seq(Byte) /\ Len(c) = m + n /\ m \in Nat /\ n \in Nat
      BY ConcatAt
<1>2. \A t \in Seq(Byte) : /\ f(t) \in Seq(Seq(Nat)) /\ Len(f(t)) = Len(t)
                           /\ \A i \in 1..Len(t) : f(t)[i] = CharsAt(t, i)
  <2> TAKE t \in Seq(Byte)
  <2>1. \A i \in 1..Len(t) : CharsAt(t, i) \in Seq(Nat)
        BY CharsType
  <2>2. DOMAIN t = 1..Len(t) /\ Len(t) \in Nat
        OBVIOUS
  <2>3. QED
        BY <2>1, <2>2
<1>3. /\ f(a) \in Seq(Seq(Nat)) /\ f(b) \in Seq(Seq(Nat)) /\ f(c) \in Seq(Seq(Nat))
      /\ Len(f(a)) = m /\ Len(f(b)) = n /\ Len(f(c)) = m + n
      BY <1>1, <1>2, Zenon
<1>4. /\ \A i \in 1..m : f(c)[i] = f(a)[i]
      /\ \A i \in 1..n : f(c)[m + i] = f(b)[i]
  <2>1. ASSUME NEW i \in 1..m PROVE f(c)[i] = f(a)[i]
    <3>1. i \in 1..(m + n)
          BY <1>1
    <3>2. f(c)[i] = CharsAt(c, i) /\ f(a)[i] = CharsAt(a, i)
          BY <3>1, <1>1, <1>2, Zenon
    <3>3. QED
          BY <3>2, CharsLeft, Zenon
  <2>2. ASSUME NEW i \in 1..n PROVE f(c)[m + i] = f(b)[i]
    <3>1. m + i \in 1..(m + n)
          BY <1>1
    <3>2. f(c)[m + i] = CharsAt(c, m + i) /\ f(b)[i] = CharsAt(b, i)
          BY <3>1, <1>1, <1>2, Zenon
    <3>3. QED
          BY <3>2, CharsRight, Zenon
  <2>3. QED
        BY <2>1, <2>2
<1> HIDE DEF f
<1>5. f(c) = f(a) \o f(b)
  <2> DEFINE d == f(a) \o f(b)
  <2>1. /\ d \in Seq(Seq(Nat)) /\ Len(d) = m + n
        /\ \A i \in 1..m : d[i] = f(a)[i]
        /\ \A i \in 1..n : d[m + i] = f(b)[i]
    <3>1. \A u, v \in Seq(Seq(Nat)) :
             /\ u \o v \in Seq(Seq(Nat)) /\ Len(u \o v) = Len(u) + Len(v)
             /\ \A i \in 1..Len(u) : (u \o v)[i] = u[i]
             /\ \A i \in 1..Len(v) : (u \o v)[Len(u) + i] = v[i]
          BY ConcatAt
    <3>2. /\ d \in Seq(Seq(Nat)) /\ Len(d) = Len(f(a)) + Len(f(b))
          /\ \A i \in 1..Len(f(a)) : d[i] = f(a)[i]
          /\ \A i \in 1..Len(f(b)) : d[Len(f(a)) + i] = f(b)[i]
          BY <1>3, <3>1, Zenon
    <3> HIDE DEF d, m, n
    <3>3. QED
          BY <3>2, <1>3
  <2> HIDE DEF d, m, n
  <2>2. ASSUME NEW i \in 1..(m + n) PROVE f(c)[i] = d[i]
    <3>1. CASE i <= m
          BY <3>1, <2>1, <1>1, <1>4
    <3>2. CASE i > m
      <4>1. i - m \in 1..n /\ m + (i - m) = i
            BY <3>2, <1>1
      <4>2. QED
            BY <4>1, <2>1, <1>4
    <3>3. QED
          BY <3>1, <3>2, <1>1
  <2>3. f(c) = d
        BY <1>3, <2>1, <2>2, SeqEqual
  <2>4. QED
        BY <2>3 DEF d
<1>6. FlattenSeq(f(a) \o f(b)) = FlattenSeq(f(a)) \o FlattenSeq(f(b))
      BY <1>3, FlattenConcat
<1>7. QED
      BY <1>5, <1>6 DEF f, Decode

\* A text comes of the decoding, with no ASCII character that was not among the bytes.
LEMMA DecodeType ==
    ASSUME NEW bytes \in Seq(Byte)
    PROVE  /\ Decode(bytes) \in Seq(Nat)
           /\ \A c \in ToSet(Decode(bytes)) : c < 128 => c \in ToSet(bytes)
<1> DEFINE T == {c \in Nat : c < 128 => c \in ToSet(bytes)}
           seqs == [i \in DOMAIN bytes |-> CharsAt(bytes, i)]
<1>1. DOMAIN bytes = 1..Len(bytes) /\ Len(bytes) \in Nat
      OBVIOUS
<1>2. \A i \in 1..Len(bytes) : CharsAt(bytes, i) \in Seq(T)
  <2> TAKE i \in 1..Len(bytes)
  <2> DEFINE s == CharsAt(bytes, i)
  <2>1. s \in Seq(Nat) /\ \A k \in DOMAIN s : s[k] < 128 => s[k] = bytes[i]
        BY CharsType
  <2>2. bytes[i] \in ToSet(bytes)
        BY <1>1 DEF ToSet
  <2> HIDE DEF s
  <2>3. \A k \in DOMAIN s : s[k] \in T
        BY <2>1, <2>2
  <2>4. DOMAIN s = 1..Len(s) /\ Len(s) \in Nat /\ s = [k \in 1..Len(s) |-> s[k]]
        BY <2>1
  <2> HIDE DEF T
  <2>5. s \in Seq(T)
        BY <2>3, <2>4
  <2>6. QED
        BY <2>5 DEF s
<1>3. seqs \in Seq(Seq(T))
  <2> HIDE DEF T
  <2>1. QED
        BY <1>1, <1>2
<1>4. Decode(bytes) \in Seq(T)
  <2> HIDE DEF T
  <2>1. QED
        BY <1>3, FlattenType DEF Decode
<1> DEFINE d == Decode(bytes)
<1>5. DOMAIN d = 1..Len(d) /\ Len(d) \in Nat /\ \A k \in DOMAIN d : d[k] \in T
  <2> HIDE DEF T, d
  <2>1. d \in Seq(T)
        BY <1>4 DEF d
  <2>2. QED
        BY <2>1
<1>6. d \in Seq(Nat)
  <2> HIDE DEF d
  <2>1. \A k \in DOMAIN d : d[k] \in Nat
        BY <1>5
  <2>2. d = [k \in 1..Len(d) |-> d[k]]
        BY <1>4, <1>5 DEF d
  <2>3. QED
        BY <2>1, <2>2, <1>5
<1>7. QED
      BY <1>5, <1>6 DEF ToSet

\* ASCII is decoded as itself.
LEMMA DecodeAscii ==
    ASSUME NEW t \in Seq(Ascii)
    PROVE  Decode(t) = t
<1>1. DOMAIN t = 1..Len(t) /\ \A i \in DOMAIN t : t[i] \in Ascii
      BY SeqAt
<1>2. t \in Seq(Byte)
  <2>1. t = [i \in 1..Len(t) |-> t[i]] /\ Len(t) \in Nat
        BY <1>1
  <2>2. \A i \in 1..Len(t) : t[i] \in Byte
    <3>1. \A x \in Ascii : x \in Byte
          BY DEF Ascii, Byte
    <3>2. QED
          BY ONLY <1>1, <3>1
  <2>3. QED
        BY <2>1, <2>2
<1>3. \A i \in DOMAIN t : CharsAt(t, i) = <<t[i]>>
  <2> TAKE i \in DOMAIN t
  <2>1. i \in 1..Len(t) /\ t[i] < 128
    <3>1. \A x \in Ascii : x < 128
          BY DEF Ascii
    <3>2. i \in 1..Len(t) /\ t[i] \in Ascii
          BY ONLY <1>1, i \in DOMAIN t
    <3>3. QED
          BY ONLY <3>1, <3>2
  <2>2. QED
        BY <1>2, <2>1, CharsType
<1>4. [i \in DOMAIN t |-> CharsAt(t, i)] = [i \in DOMAIN t |-> <<t[i]>>]
      BY <1>3, Zenon
<1>5. QED
      BY <1>4, Singles DEF Decode

\* One byte alone is decoded as itself or as the replacement character.
LEMMA DecodeAlone ==
    ASSUME NEW byte \in Byte
    PROVE  Decode(<<byte>>) = <<Alone(byte)>>
<1> DEFINE s == <<byte>>
<1>1. DOMAIN s = {1} /\ s[1] = byte /\ byte \in 0..255
      BY DEF Byte
<1>2. ~IsInside(s, 1) /\ ~IsWhole(s, 1)
      BY <1>1 DEF IsInside, IsWhole, Begins, Continues
<1> HIDE DEF s
<1>3. CharsAt(s, 1) = <<Alone(byte)>>
      BY <1>1, <1>2, CharsCases, Zenon DEF Alone
<1>4. [i \in DOMAIN s |-> CharsAt(s, i)] = [i \in DOMAIN <<Alone(byte)>> |-> <<<<Alone(byte)>>[i]>>]
      BY <1>1, <1>3
<1>5. <<Alone(byte)>> \in Seq(Nat)
      BY DEF Alone, Replacement, Byte
<1>6. QED
      BY <1>4, <1>5, Singles DEF Decode, s

-----------------------------------------------------------------------------
(* Texts: pieces, lines, stripping *)

\* What is where in a part of a sequence.
LEMMA SubSeqAt ==
    ASSUME NEW T, NEW s \in Seq(T), NEW a \in Nat, NEW b \in Nat,
           1 <= a, a <= b + 1, b <= Len(s)
    PROVE  /\ SubSeq(s, a, b) \in Seq(T)
           /\ Len(SubSeq(s, a, b)) = b - a + 1
           /\ DOMAIN SubSeq(s, a, b) = 1..(b - a + 1)
           /\ \A i \in 1..(b - a + 1) : SubSeq(s, a, b)[i] = s[a + i - 1]
<1>1. \A i \in a..b : s[i] \in T
  <2>1. \A i \in a..b : i \in 1..Len(s)
        OBVIOUS
  <2>2. QED
        BY <2>1, SeqAt
<1> DEFINE u == SubSeq(s, a, b)
<1>2. /\ u \in Seq(T) /\ Len(u) = IF a <= b THEN b - a + 1 ELSE 0
      /\ \A i \in 1..(b - a + 1) : u[i] = s[a + i - 1]
      BY <1>1, SubSeqProperties
<1>3. DOMAIN u = 1..Len(u)
      BY <1>2, SeqAt
<1> HIDE DEF u
<1>4. Len(u) = b - a + 1
      BY <1>2
<1>5. QED
      BY <1>2, <1>3, <1>4 DEF u

\* Where a text is cut.
Cuts(text, separators) == {i \in DOMAIN text : text[i] \in separators}

\* The piece after one cut, or the beginning, up to the next, or the end.
IsPiece(text, separators, b, e) ==
    /\ b \in {0} \cup Cuts(text, separators)
    /\ e \in Cuts(text, separators) \cup {Len(text) + 1}
    /\ b < e
    /\ \A i \in Cuts(text, separators) : ~(b < i /\ i < e)

\* The piece after a cut is what is up to the next.
LEMMA PieceIs ==
    ASSUME NEW text \in Seq(Nat), NEW separators, NEW b, NEW e, IsPiece(text, separators, b, e)
    PROVE  /\ b \in DOMAIN Pieces(text, separators)
           /\ Pieces(text, separators)[b] = SubSeq(text, b + 1, e - 1)
<1> DEFINE cuts == Cuts(text, separators)
           later == {i \in cuts : i > b} \cup {Len(text) + 1}
<1>1. DOMAIN text = 1..Len(text) /\ Len(text) \in Nat
      OBVIOUS
<1>2. cuts \subseteq 1..Len(text)
      BY <1>1 DEF Cuts
<1>3. b \in {0} \cup cuts /\ e \in cuts \cup {Len(text) + 1} /\ b < e
      /\ \A i \in cuts : ~(b < i /\ i < e)
      BY DEF IsPiece
<1>4. Pieces(text, separators)[b] = SubSeq(text, b + 1, Min(later) - 1)
      /\ b \in DOMAIN Pieces(text, separators)
      BY <1>3 DEF Pieces, Cuts
<1> HIDE DEF cuts
<1>5. e \in later /\ \A i \in later : i \in Nat /\ e <= i
  <2>1. \A i \in cuts : i \in Nat /\ i <= Len(text)
        BY <1>1, <1>2
  <2>2. e \in Nat /\ b \in Nat
        BY <1>1, <1>3, <2>1
  <2>3. e \in later
        BY <1>3
  <2>4. \A i \in cuts : i > b => e <= i
        BY <1>3, <2>1, <2>2
  <2>5. e <= Len(text) + 1
        BY <1>1, <1>3, <2>1
  <2>6. QED
        BY <1>1, <2>1, <2>3, <2>4, <2>5
<1> HIDE DEF later
<1>6. Min(later) \in later /\ \A i \in later : Min(later) <= i
  <2>1. later \in SUBSET Nat /\ later # {}
        BY <1>5
  <2>2. QED
        BY <2>1, MinIs
<1>7. Min(later) = e
  <2>1. Min(later) <= e /\ e <= Min(later) /\ e \in Nat /\ Min(later) \in Nat
        BY <1>5, <1>6, Zenon
  <2>2. QED
        BY <2>1
<1>8. QED
      BY <1>4, <1>7

\* The same at line feeds.
LEMMA FeedPieceIs ==
    ASSUME NEW text \in Seq(Nat), NEW b, NEW e, IsPiece(text, {LF}, b, e)
    PROVE  Pieces(text, {LF})[b] = SubSeq(text, b + 1, e - 1)
<1> DEFINE feeds == {LF}
<1>1. IsPiece(text, feeds, b, e)
      OBVIOUS
<1> HIDE DEF feeds
<1>2. Pieces(text, feeds)[b] = SubSeq(text, b + 1, e - 1)
      BY <1>1, PieceIs
<1>3. QED
      BY <1>2 DEF feeds

\* There is a next cut, or the end.
LEMMA PieceExists ==
    ASSUME NEW text \in Seq(Nat), NEW separators, NEW b \in DOMAIN Pieces(text, separators)
    PROVE  \E e : IsPiece(text, separators, b, e)
<1> DEFINE cuts == Cuts(text, separators)
           later == {i \in cuts : i > b} \cup {Len(text) + 1}
<1>1. DOMAIN text = 1..Len(text) /\ Len(text) \in Nat
      OBVIOUS
<1>2. cuts \subseteq 1..Len(text)
      BY <1>1 DEF Cuts
<1>3. b \in {0} \cup cuts
      BY DEF Pieces, Cuts
<1> HIDE DEF cuts
<1>4. later \in SUBSET Nat /\ later # {}
  <2>1. \A i \in cuts : i \in Nat
        BY <1>1, <1>2
  <2>2. Len(text) + 1 \in Nat
        BY <1>1
  <2>3. QED
        BY <2>1, <2>2
<1>5. PICK e \in later : \A i \in later : e <= i
  <2> HIDE DEF later
  <2>1. QED
        BY <1>4, MinIs
<1>6. e \in cuts \cup {Len(text) + 1} /\ b < e /\ \A i \in cuts : ~(b < i /\ i < e)
      BY <1>1, <1>2, <1>3, <1>5
<1>7. QED
      BY <1>3, <1>6, Zenon DEF IsPiece, cuts

\* There is a piece after each cut and at the beginning.
LEMMA PiecesDomain ==
    ASSUME NEW text, NEW separators
    PROVE  DOMAIN Pieces(text, separators) = {0} \cup Cuts(text, separators)
BY DEF Pieces, Cuts

\* The lines that a read takes in, and what it leaves.
CompleteLines(text) == Lines(Ended(Pieces(text, {LF})))
RestOf(text) == Remainder(Pieces(text, {LF}))

\* The line that the line feed at e ends.
IsLine(text, b, e) == IsPiece(text, {LF}, b, e) /\ e \in DOMAIN text

\* The last piece is ended by nothing.
LEMMA LastCut ==
    ASSUME NEW text \in Seq(Nat), NEW separators
    PROVE  LET m == Max(DOMAIN Pieces(text, separators))
           IN  /\ m \in {0} \cup Cuts(text, separators)
               /\ \A i \in Cuts(text, separators) : i <= m
               /\ IsPiece(text, separators, m, Len(text) + 1)
<1> DEFINE cuts == Cuts(text, separators)
           m == Max({0} \cup cuts)
<1>1. DOMAIN text = 1..Len(text) /\ Len(text) \in Nat
      OBVIOUS
<1>2. cuts \subseteq 1..Len(text)
      BY <1>1 DEF Cuts
<1> HIDE DEF cuts
<1>3. {0} \cup cuts \in SUBSET (0..Len(text)) /\ {0} \cup cuts # {}
      BY <1>1, <1>2
<1>4. m \in {0} \cup cuts /\ \A i \in {0} \cup cuts : i <= m
      BY <1>1, <1>3, MaxIs
<1> HIDE DEF m
<1>5. m < Len(text) + 1 /\ \A i \in cuts : ~(m < i /\ i < Len(text) + 1)
      BY <1>1, <1>2, <1>4
<1>6. IsPiece(text, separators, m, Len(text) + 1)
      BY <1>4, <1>5, Zenon DEF IsPiece, cuts
<1>7. m = Max(DOMAIN Pieces(text, separators))
      BY PiecesDomain DEF m, cuts
<1>8. QED
      BY <1>4, <1>6, <1>7 DEF cuts

\* The pieces that are ended are those before a cut.
LEMMA EndedAre ==
    ASSUME NEW text \in Seq(Nat), NEW separators
    PROVE  LET pieces == Pieces(text, separators)
           IN  /\ \A b \in DOMAIN Ended(pieces) :
                     /\ b \in DOMAIN pieces /\ Ended(pieces)[b] = pieces[b]
                     /\ \E e : IsPiece(text, separators, b, e) /\ e \in DOMAIN text
               /\ \A b, e : IsPiece(text, separators, b, e) /\ e \in DOMAIN text =>
                     b \in DOMAIN Ended(pieces)
<1> DEFINE pieces == Pieces(text, separators)
           cuts == Cuts(text, separators)
           m == Max(DOMAIN pieces)
<1>1. DOMAIN text = 1..Len(text) /\ Len(text) \in Nat /\ cuts \subseteq 1..Len(text)
      BY DEF Cuts
<1>2. m \in {0} \cup cuts /\ \A i \in cuts : i <= m
      BY LastCut
<1>3. DOMAIN Ended(pieces) = DOMAIN pieces \ {m}
      BY DEF Ended, Restrict
<1>4. \A b \in DOMAIN Ended(pieces) : b \in DOMAIN pieces /\ Ended(pieces)[b] = pieces[b]
      BY DEF Ended, Restrict
<1>5. DOMAIN pieces = {0} \cup cuts
      BY PiecesDomain
<1>6. ASSUME NEW b \in DOMAIN pieces, b # m
      PROVE  \E e : IsPiece(text, separators, b, e) /\ e \in DOMAIN text
  <2>1. PICK e : IsPiece(text, separators, b, e)
        BY PieceExists
  <2>2. /\ b \in {0} \cup cuts /\ e \in cuts \cup {Len(text) + 1} /\ b < e
        /\ \A i \in cuts : ~(b < i /\ i < e)
        BY <2>1 DEF IsPiece
  <2> HIDE DEF m, cuts, pieces
  <2>3. e # Len(text) + 1
    <3>0. SUFFICES ASSUME e = Len(text) + 1 PROVE FALSE
          OBVIOUS
    <3>1. \A i \in cuts : i \in Nat /\ i <= Len(text) /\ 0 < i
          BY <1>1
    <3>2. b < m /\ m \in cuts
          BY <3>1, <1>2, <1>6, <2>2
    <3>3. m < e
          BY <3>0, <3>1, <3>2, <1>1
    <3>4. QED
          BY <3>2, <3>3, <2>2
  <2>4. QED
        BY <2>1, <2>2, <2>3, <1>1
<1>7. ASSUME NEW b, NEW e, IsPiece(text, separators, b, e), e \in DOMAIN text
      PROVE  b \in DOMAIN Ended(pieces)
  <2>1. b \in {0} \cup cuts /\ e \in cuts /\ b < e
        BY <1>1, <1>7 DEF IsPiece
  <2> HIDE DEF m, cuts, pieces
  <2>2. b # m
        BY <1>1, <1>2, <2>1
  <2>3. QED
        BY <2>1, <2>2, <1>3, <1>5
<1>8. QED
      BY <1>3, <1>4, <1>6, <1>7, Zenon

\* The lines are the pieces that a line feed ends, stripped and not blank.
LEMMA LinesAre ==
    ASSUME NEW text \in Seq(Nat), NEW line
    PROVE  line \in CompleteLines(text) <=>
               /\ line # <<>>
               /\ \E b, e : IsLine(text, b, e) /\ line = Strip(SubSeq(text, b + 1, e - 1))
<1> DEFINE pieces == Pieces(text, {LF})
<1>1. /\ \A b \in DOMAIN Ended(pieces) :
            /\ b \in DOMAIN pieces /\ Ended(pieces)[b] = pieces[b]
            /\ \E e : IsPiece(text, {LF}, b, e) /\ e \in DOMAIN text
      /\ \A b, e : IsPiece(text, {LF}, b, e) /\ e \in DOMAIN text =>
            b \in DOMAIN Ended(pieces)
      BY EndedAre
<1>2. \A b, e : IsPiece(text, {LF}, b, e) => pieces[b] = SubSeq(text, b + 1, e - 1)
  <2> TAKE b, e
  <2> HAVE IsPiece(text, {LF}, b, e)
  <2>1. QED
        BY FeedPieceIs, Zenon
<1> HIDE DEF pieces
<1>3. line \in Lines(Ended(pieces)) <=>
         line # <<>> /\ \E b \in DOMAIN Ended(pieces) : line = Strip(Ended(pieces)[b])
      BY Zenon DEF Lines
<1>4. line \in Lines(Ended(pieces)) <=>
         line # <<>> /\ \E b, e : /\ IsPiece(text, {LF}, b, e) /\ e \in DOMAIN text
                                  /\ line = Strip(SubSeq(text, b + 1, e - 1))
  <2>1. ASSUME NEW b \in DOMAIN Ended(pieces), line = Strip(Ended(pieces)[b])
        PROVE  \E c, e : /\ IsPiece(text, {LF}, c, e) /\ e \in DOMAIN text
                         /\ line = Strip(SubSeq(text, c + 1, e - 1))
        BY <1>1, <1>2, <2>1, Zenon
  <2>2. ASSUME NEW b, NEW e, IsPiece(text, {LF}, b, e), e \in DOMAIN text,
               line = Strip(SubSeq(text, b + 1, e - 1))
        PROVE  \E c \in DOMAIN Ended(pieces) : line = Strip(Ended(pieces)[c])
        BY <1>1, <1>2, <2>2, Zenon
  <2>3. QED
        BY <1>3, <2>1, <2>2, Zenon
<1>5. QED
      BY <1>4, Zenon DEF CompleteLines, IsLine, pieces

\* What is left is what is after the last line feed.
LEMMA RestIs ==
    ASSUME NEW text \in Seq(Nat), NEW b \in {0} \cup Cuts(text, {LF}),
           \A i \in Cuts(text, {LF}) : i <= b
    PROVE  RestOf(text) = SubSeq(text, b + 1, Len(text))
<1> DEFINE pieces == Pieces(text, {LF})
           cuts == Cuts(text, {LF})
           m == Max(DOMAIN pieces)
<1>1. /\ m \in {0} \cup cuts
      /\ \A i \in cuts : i <= m
      /\ IsPiece(text, {LF}, m, Len(text) + 1)
      BY LastCut
<1>2. cuts \subseteq Nat /\ Len(text) \in Nat
      BY DEF Cuts
<1> HIDE DEF m
<1>3. pieces[m] = SubSeq(text, m + 1, (Len(text) + 1) - 1)
  <2>1. IsPiece(text, {LF}, m, Len(text) + 1)
        BY <1>1
  <2>2. QED
        BY <2>1, FeedPieceIs, Zenon
<1> HIDE DEF cuts, m, pieces
<1>4. b \in {0} \cup cuts /\ \A i \in cuts : i <= b
      BY DEF cuts
<1>5. m = b
      BY <1>1, <1>2, <1>4
<1>6. (Len(text) + 1) - 1 = Len(text)
      BY <1>2
<1>7. QED
      BY <1>3, <1>5, <1>6, Zenon DEF RestOf, Remainder, m, pieces

\* A text without a line feed is no line yet.
LEMMA NoFeed ==
    ASSUME NEW text \in Seq(Nat), LF \notin ToSet(text)
    PROVE  CompleteLines(text) = {} /\ RestOf(text) = text
<1>1. Cuts(text, {LF}) = {}
      BY DEF Cuts, ToSet
<1>2. ASSUME NEW line \in CompleteLines(text) PROVE FALSE
  <2>1. PICK b, e : IsLine(text, b, e)
        BY <1>2, LinesAre
  <2>2. e \in Cuts(text, {LF}) \cup {Len(text) + 1} /\ e \in DOMAIN text
        BY <2>1 DEF IsLine, IsPiece
  <2>3. DOMAIN text = 1..Len(text) /\ Len(text) \in Nat
        OBVIOUS
  <2>4. Len(text) + 1 \notin 1..Len(text)
        BY <2>3
  <2>5. QED
        BY <2>2, <2>3, <2>4, <1>1, Zenon
<1>3. RestOf(text) = SubSeq(text, 0 + 1, Len(text))
      BY <1>1, RestIs
<1>4. QED
      BY <1>2, <1>3, SubSeqFull

-----------------------------------------------------------------------------
(* What is left of a text without the blanks around it *)

\* Nothing is left of blanks.
LEMMA StripBlank ==
    ASSUME NEW text, \A i \in DOMAIN text : text[i] \in White
    PROVE  Strip(text) = <<>>
<1>1. {i \in DOMAIN text : text[i] \notin White} = {}
      OBVIOUS
<1>2. QED
      BY <1>1, Zenon DEF Strip

\* The text without the blanks around it goes from a to b.
Spans(text, a, b) ==
    /\ a \in DOMAIN text /\ b \in DOMAIN text /\ a <= b
    /\ text[a] \notin White /\ text[b] \notin White
    /\ \A i \in DOMAIN text : i < a \/ b < i => text[i] \in White

\* A text that is not blank has such a part, and it is what Strip leaves.
LEMMA StripSpan ==
    ASSUME NEW text \in Seq(Nat)
    PROVE  (\A i \in DOMAIN text : text[i] \in White)
           \/ \E a, b : Spans(text, a, b) /\ Strip(text) = SubSeq(text, a, b)
<1> DEFINE kept == {i \in DOMAIN text : text[i] \notin White}
           a == Min(kept)
           b == Max(kept)
<1>1. DOMAIN text = 1..Len(text) /\ Len(text) \in Nat
      OBVIOUS
<1>2. kept \subseteq 1..Len(text)
      BY <1>1
<1>3. SUFFICES ASSUME kept # {}
               PROVE  Spans(text, a, b) /\ Strip(text) = SubSeq(text, a, b)
  <2>1. kept = {} => \A i \in DOMAIN text : text[i] \in White
        OBVIOUS
  <2> HIDE DEF kept
  <2>2. QED
        BY <2>1
<1>4. kept \in SUBSET Nat /\ kept \in SUBSET (0..Len(text))
  <2> HIDE DEF kept
  <2>1. QED
        BY <1>1, <1>2
<1>5. a \in kept /\ b \in kept /\ \A i \in kept : a <= i /\ i <= b
  <2> HIDE DEF kept
  <2>1. Min(kept) \in kept /\ \A i \in kept : Min(kept) <= i
        BY <1>3, <1>4, MinIs
  <2>2. Max(kept) \in kept /\ \A i \in kept : i <= Max(kept)
        BY <1>1, <1>3, <1>4, MaxIs
  <2>3. QED
        BY <2>1, <2>2
<1>6. Strip(text) = SubSeq(text, a, b)
      BY <1>3, Zenon DEF Strip
<1> HIDE DEF a, b
<1>7. /\ a \in DOMAIN text /\ b \in DOMAIN text
      /\ text[a] \notin White /\ text[b] \notin White /\ a <= b
      BY <1>5
<1>8. \A i \in DOMAIN text : i < a \/ b < i => text[i] \in White
  <2> TAKE i \in DOMAIN text
  <2>1. i \in Int /\ a \in Int /\ b \in Int
        BY <1>1, <1>7
  <2>2. i \in kept => ~(i < a) /\ ~(b < i)
        BY <1>5, <2>1
  <2>3. QED
        BY <2>2
<1>9. QED
      BY <1>6, <1>7, <1>8, Zenon DEF Spans

\* There is only one.
LEMMA StripIs ==
    ASSUME NEW text \in Seq(Nat), NEW a, NEW b, Spans(text, a, b)
    PROVE  Strip(text) = SubSeq(text, a, b)
<1>1. DOMAIN text = 1..Len(text) /\ Len(text) \in Nat
      OBVIOUS
<1>2. ~ \A i \in DOMAIN text : text[i] \in White
      BY Zenon DEF Spans
<1>3. PICK c, d : Spans(text, c, d) /\ Strip(text) = SubSeq(text, c, d)
      BY <1>2, StripSpan, Zenon
<1>4. a \in Int /\ b \in Int /\ c \in Int /\ d \in Int
      BY <1>1, <1>3 DEF Spans
<1>5. ~(a < c) /\ ~(d < a) /\ ~(b < c) /\ ~(d < b)
      BY <1>3, Zenon DEF Spans
<1>6. ~(c < a) /\ ~(b < c) /\ ~(d < a) /\ ~(b < d)
      BY <1>3, Zenon DEF Spans
<1>7. a = c /\ b = d
      BY <1>4, <1>5, <1>6
<1>8. QED
      BY <1>3, <1>7

\* Strip adds nothing, and begins with what is no blank.
LEMMA StripType ==
    ASSUME NEW text \in Seq(Nat)
    PROVE  /\ Strip(text) \in Seq(Nat)
           /\ ToSet(Strip(text)) \subseteq ToSet(text)
           /\ (\E i \in DOMAIN text : text[i] \notin White) =>
                 Strip(text) # <<>> /\ Strip(text)[1] \notin White
<1>1. DOMAIN text = 1..Len(text) /\ Len(text) \in Nat
      OBVIOUS
<1>2. CASE \A i \in DOMAIN text : text[i] \in White
  <2>1. Strip(text) = <<>>
        BY <1>2, StripBlank
  <2>2. QED
        BY <2>1, <1>2 DEF ToSet
<1>3. ASSUME NEW a, NEW b, Spans(text, a, b), Strip(text) = SubSeq(text, a, b)
      PROVE  /\ Strip(text) \in Seq(Nat)
             /\ ToSet(Strip(text)) \subseteq ToSet(text)
             /\ Strip(text) # <<>> /\ Strip(text)[1] \notin White
  <2> DEFINE s == SubSeq(text, a, b)
  <2>1. /\ a \in 1..Len(text) /\ b \in 1..Len(text) /\ a <= b /\ text[a] \notin White
        BY <1>1, <1>3 DEF Spans
  <2>2. a \in Nat /\ b \in Nat /\ 1 <= a /\ a <= b + 1 /\ b <= Len(text)
        BY <2>1, <1>1
  <2>3. /\ s \in Seq(Nat) /\ Len(s) = b - a + 1 /\ DOMAIN s = 1..(b - a + 1)
        /\ \A i \in 1..(b - a + 1) : s[i] = text[a + i - 1]
        BY <2>2, SubSeqAt
  <2> HIDE DEF s
  <2>4. ASSUME NEW i \in DOMAIN s PROVE s[i] \in ToSet(text)
    <3>1. i \in 1..(b - a + 1)
          BY <2>3
    <3>2. a + i - 1 \in 1..Len(text)
          BY <3>1, <2>2, <1>1
    <3>3. QED
          BY <3>1, <3>2, <2>3, <1>1 DEF ToSet
  <2>5. ToSet(s) \subseteq ToSet(text)
        BY <2>4 DEF ToSet
  <2>6. s # <<>> /\ s[1] \notin White
    <3>1. 1 \in 1..(b - a + 1) /\ a + 1 - 1 = a
          BY <2>1, <2>2
    <3>2. QED
          BY <3>1, <2>1, <2>3
  <2>7. QED
        BY <2>3, <2>5, <2>6, <1>3 DEF s
<1>4. QED
      BY <1>2, <1>3, StripSpan

\* A frame holds both delimiters, and begins with the first.
LEMMA FrameHolds ==
    ASSUME NEW line \in Seq(Nat), IsFrame(line)
    PROVE  line[1] = Dollar /\ Dollar \in ToSet(line) /\ Star \in ToSet(line)
<1> DEFINE stars == {i \in DOMAIN line : line[i] = Star}
<1>1. DOMAIN line = 1..Len(line) /\ Len(line) \in Nat
      OBVIOUS
<1>2. line # <<>> /\ line[1] = Dollar /\ EndOf(line) > 2
      BY DEF IsFrame
<1>3. 1 \in DOMAIN line
      BY <1>1, <1>2, EmptySeq
<1>4. stars # {}
  <2>1. SUFFICES ASSUME stars = {} PROVE FALSE
        OBVIOUS
  <2>2. EndOf(line) = Max({0})
    <3>1. {0} \cup stars = {0}
          BY <2>1
    <3>2. QED
          BY <3>1, Zenon DEF EndOf
  <2>3. {0} \in SUBSET (0..0) /\ {0} # {}
        OBVIOUS
  <2>4. Max({0}) \in {0}
        BY <2>3, MaxIs
  <2>5. QED
        BY <2>2, <2>4, <1>2
<1>5. QED
      BY <1>2, <1>3, <1>4 DEF ToSet

-----------------------------------------------------------------------------
(* The checksum *)

\* The bytes of a payload that have a bit, and the parity of their number.
Having(payload, bit) ==
    {at \in (DOMAIN payload) \X (1..3) :
        LET bytes == Utf8(payload[at[1]])
        IN  at[2] <= Len(bytes) /\ (bytes[at[2]] \div bit) % 2 = 1}

Parity(payload, bit) == Cardinality(Having(payload, bit)) % 2

\* The checksum is made of the parities.
LEMMA ChecksumIs ==
    ASSUME NEW payload
    PROVE  Checksum(payload) =
               Parity(payload, 1) + 2 * Parity(payload, 2) + 4 * Parity(payload, 4)
               + 8 * Parity(payload, 8) + 16 * Parity(payload, 16)
               + 32 * Parity(payload, 32) + 64 * Parity(payload, 64)
               + 128 * Parity(payload, 128)
BY Zenon DEF Checksum, Parity, Having

\* There are only so many.
LEMMA HavingFinite ==
    ASSUME NEW payload \in Seq(Nat), NEW bit
    PROVE  /\ IsFiniteSet(Having(payload, bit))
           /\ Cardinality(Having(payload, bit)) \in Nat
<1>1. DOMAIN payload = 1..Len(payload) /\ Len(payload) \in Nat
      OBVIOUS
<1>2. IsFiniteSet(DOMAIN payload) /\ IsFiniteSet(1..3)
  <2>1. \A a, b \in Int : IsFiniteSet(a..b)
        BY FS_Interval
  <2>2. 1 \in Int /\ 3 \in Int /\ Len(payload) \in Int
        BY <1>1
  <2>3. QED
        BY <1>1, <2>1, <2>2, Zenon
<1>3. IsFiniteSet((DOMAIN payload) \X (1..3))
      BY <1>2, FS_Product
<1>4. Having(payload, bit) \in SUBSET ((DOMAIN payload) \X (1..3))
      BY DEF Having
<1>5. IsFiniteSet(Having(payload, bit))
      BY <1>3, <1>4, FS_Subset
<1>6. QED
      BY <1>5, FS_CardinalityType

\* A parity is 0 or 1.
LEMMA ParityType ==
    ASSUME NEW payload \in Seq(Nat), NEW bit
    PROVE  Parity(payload, bit) \in 0..1
BY HavingFinite DEF Parity

\* A checksum is a byte.
LEMMA ChecksumType ==
    ASSUME NEW payload \in Seq(Nat)
    PROVE  Checksum(payload) \in 0..255
<1>1. \A bit : Parity(payload, bit) \in 0..1
      BY ParityType
<1> DEFINE a1 == Parity(payload, 1)
           a2 == Parity(payload, 2)
           a4 == Parity(payload, 4)
           a8 == Parity(payload, 8)
           a16 == Parity(payload, 16)
           a32 == Parity(payload, 32)
           a64 == Parity(payload, 64)
           a128 == Parity(payload, 128)
<1>2. /\ a1 \in 0..1 /\ a2 \in 0..1 /\ a4 \in 0..1 /\ a8 \in 0..1
      /\ a16 \in 0..1 /\ a32 \in 0..1 /\ a64 \in 0..1 /\ a128 \in 0..1
      BY <1>1
<1>3. Checksum(payload) = a1 + 2 * a2 + 4 * a4 + 8 * a8 + 16 * a16 + 32 * a32
                          + 64 * a64 + 128 * a128
      BY ChecksumIs, Zenon
<1> HIDE DEF a1, a2, a4, a8, a16, a32, a64, a128
<1>4. QED
      BY <1>2, <1>3

\* If one more byte has the bit, the parity is another.
LEMMA OneMore ==
    ASSUME NEW p \in Seq(Nat), NEW q \in Seq(Nat), NEW bit, NEW x,
           x \notin Having(p, bit), Having(q, bit) = Having(p, bit) \cup {x}
    PROVE  Parity(q, bit) # Parity(p, bit)
<1> DEFINE n == Cardinality(Having(p, bit))
<1>1. n \in Nat /\ Cardinality(Having(q, bit)) = n + 1
      BY HavingFinite, FS_AddElement
<1> HIDE DEF n
<1>2. (n + 1) % 2 # n % 2
      BY <1>1
<1>3. QED
      BY <1>1, <1>2 DEF Parity, n

\* Two texts of the same length that differ in one character.
Differ(p, q, k) ==
    /\ Len(p) = Len(q) /\ k \in DOMAIN p
    /\ \A i \in DOMAIN p : i # k => p[i] = q[i]

\* When a byte has the bit.
LEMMA HavingAt ==
    ASSUME NEW p, NEW bit, NEW i, NEW j
    PROVE  <<i, j>> \in Having(p, bit) <=>
               /\ i \in DOMAIN p /\ j \in 1..3
               /\ j <= Len(Utf8(p[i])) /\ (Utf8(p[i])[j] \div bit) % 2 = 1
BY DEF Having

\* Which bytes have a bit depends on the character only.
LEMMA HavingSame ==
    ASSUME NEW p, NEW q, NEW bit, NEW i, NEW j, i \in DOMAIN p, i \in DOMAIN q, p[i] = q[i]
    PROVE  <<i, j>> \in Having(p, bit) <=> <<i, j>> \in Having(q, bit)
<1> DEFINE u == Utf8(p[i])
           v == Utf8(q[i])
<1>1. u = v
      OBVIOUS
<1>2. <<i, j>> \in Having(p, bit) <=> j \in 1..3 /\ j <= Len(u) /\ (u[j] \div bit) % 2 = 1
      BY HavingAt
<1>3. <<i, j>> \in Having(q, bit) <=> j \in 1..3 /\ j <= Len(v) /\ (v[j] \div bit) % 2 = 1
      BY HavingAt
<1> HIDE DEF u, v
<1>4. QED
      BY <1>1, <1>2, <1>3

\* The set holds pairs of a place and one of its bytes.
LEMMA HavingPairs ==
    ASSUME NEW p, NEW bit, NEW x \in Having(p, bit)
    PROVE  \E i \in DOMAIN p, j \in 1..3 : x = <<i, j>>
BY DEF Having

\* One character that gains a bit changes its parity.
LEMMA BitLost ==
    ASSUME NEW p \in Seq(Nat), NEW q \in Seq(Nat), NEW k, Differ(p, q, k), NEW bit,
           p[k] < 128, q[k] < 128,
           (p[k] \div bit) % 2 # 1, (q[k] \div bit) % 2 = 1
    PROVE  Parity(q, bit) # Parity(p, bit)
<1>1. DOMAIN p = DOMAIN q
  <2>1. DOMAIN p = 1..Len(p) /\ DOMAIN q = 1..Len(q)
        OBVIOUS
  <2>2. QED
        BY <2>1, Zenon DEF Differ
<1>2. k \in DOMAIN p /\ \A i \in DOMAIN p : i # k => p[i] = q[i]
      BY Zenon DEF Differ
<1>3. Utf8(p[k]) = <<p[k]>> /\ Utf8(q[k]) = <<q[k]>>
      BY Zenon DEF Utf8
<1>4. \A j \in 1..3 : <<k, j>> \notin Having(p, bit)
  <2> TAKE j \in 1..3
  <2>1. CASE j = 1
        BY <2>1, <1>3, HavingAt
  <2>2. CASE j # 1
    <3>1. ~(j <= 1) /\ Len(<<p[k]>>) = 1
          BY <2>2
    <3>2. QED
          BY <3>1, <1>3, HavingAt
  <2>3. QED
        BY <2>1, <2>2
<1>5. <<k, 1>> \in Having(q, bit) /\ \A j \in 1..3 : <<k, j>> \in Having(q, bit) => j = 1
  <2>1. <<q[k]>>[1] = q[k] /\ Len(<<q[k]>>) = 1
        OBVIOUS
  <2>2. <<k, 1>> \in Having(q, bit)
    <3>1. /\ 1 \in 1..3 /\ k \in DOMAIN q /\ 1 <= Len(Utf8(q[k]))
          /\ (Utf8(q[k])[1] \div bit) % 2 = 1
          BY <2>1, <1>1, <1>2, <1>3
    <3>2. QED
          BY <3>1, HavingAt
  <2>3. ASSUME NEW j \in 1..3, <<k, j>> \in Having(q, bit) PROVE j = 1
    <3>1. j <= Len(Utf8(q[k]))
          BY <2>3, HavingAt
    <3>2. QED
          BY <3>1, <2>1, <1>3
  <2>4. QED
        BY <2>2, <2>3
<1>6. \A i \in DOMAIN p, j \in 1..3 :
         i # k => (<<i, j>> \in Having(p, bit) <=> <<i, j>> \in Having(q, bit))
  <2> TAKE i \in DOMAIN p, j \in 1..3
  <2> HAVE i # k
  <2>1. p[i] = q[i]
        BY <1>2
  <2>2. QED
        BY <2>1, <1>1, HavingSame
<1>7. ASSUME NEW x PROVE x \in Having(q, bit) <=> x \in Having(p, bit) \cup {<<k, 1>>}
  <2>1. ASSUME x \in Having(q, bit) PROVE x \in Having(p, bit) \cup {<<k, 1>>}
    <3>1. PICK i \in DOMAIN q, j \in 1..3 : x = <<i, j>>
          BY <2>1, HavingPairs
    <3>2. CASE i = k
          BY <3>1, <3>2, <2>1, <1>5
    <3>3. CASE i # k
          BY <3>1, <3>3, <2>1, <1>1, <1>6
    <3>4. QED
          BY <3>2, <3>3
  <2>2. ASSUME x \in Having(p, bit) PROVE x \in Having(q, bit)
    <3>1. PICK i \in DOMAIN p, j \in 1..3 : x = <<i, j>>
          BY <2>2, HavingPairs
    <3>2. i # k
          BY <3>1, <2>2, <1>4
    <3>3. QED
          BY <3>1, <3>2, <2>2, <1>6
  <2>3. QED
        BY <2>1, <2>2, <1>5
<1>8. Having(q, bit) = Having(p, bit) \cup {<<k, 1>>} /\ <<k, 1>> \notin Having(p, bit)
      BY <1>4, <1>7
<1>9. QED
      BY <1>8, OneMore

\* A character of ASCII is the sum of its bits.
LEMMA BitsOf ==
    ASSUME NEW c \in 0..127
    PROVE  c = ((c \div 1) % 2) + 2 * ((c \div 2) % 2) + 4 * ((c \div 4) % 2)
               + 8 * ((c \div 8) % 2) + 16 * ((c \div 16) % 2)
               + 32 * ((c \div 32) % 2) + 64 * ((c \div 64) % 2)
OBVIOUS

\* The bits of ASCII.
Bits == {1, 2, 4, 8, 16, 32, 64}

\* Two different characters differ in one of them.
LEMMA SomeBit ==
    ASSUME NEW c \in 0..127, NEW d \in 0..127, c # d
    PROVE  \E bit \in Bits :
               \/ (c \div bit) % 2 # 1 /\ (d \div bit) % 2 = 1
               \/ (d \div bit) % 2 # 1 /\ (c \div bit) % 2 = 1
<1> DEFINE b(x, bit) == (x \div bit) % 2
<1>1. \A x \in 0..127 : \A bit \in Bits : b(x, bit) = 0 \/ b(x, bit) = 1
      BY DEF Bits
<1>2. \A x \in 0..127 : x = b(x, 1) + 2 * b(x, 2) + 4 * b(x, 4) + 8 * b(x, 8)
                            + 16 * b(x, 16) + 32 * b(x, 32) + 64 * b(x, 64)
      BY BitsOf
<1> HIDE DEF b
<1>3. SUFFICES ASSUME \A bit \in Bits : b(c, bit) = b(d, bit)
               PROVE  FALSE
  <2>1. ASSUME \E bit \in Bits : b(c, bit) # b(d, bit)
        PROVE  \E bit \in Bits :
                 \/ b(c, bit) # 1 /\ b(d, bit) = 1
                 \/ b(d, bit) # 1 /\ b(c, bit) = 1
    <3>1. PICK bit \in Bits : b(c, bit) # b(d, bit)
          BY <2>1
    <3>2. (b(c, bit) = 0 \/ b(c, bit) = 1) /\ (b(d, bit) = 0 \/ b(d, bit) = 1)
          BY <1>1, Zenon
    <3>3. \/ b(c, bit) # 1 /\ b(d, bit) = 1
          \/ b(d, bit) # 1 /\ b(c, bit) = 1
          BY <3>1, <3>2
    <3>4. QED
          BY <3>3, Zenon
  <2>2. QED
        BY <2>1 DEF b
<1>4. /\ b(c, 1) = b(d, 1) /\ b(c, 2) = b(d, 2) /\ b(c, 4) = b(d, 4) /\ b(c, 8) = b(d, 8)
      /\ b(c, 16) = b(d, 16) /\ b(c, 32) = b(d, 32) /\ b(c, 64) = b(d, 64)
      BY <1>3 DEF Bits
<1>5. c = d
      BY <1>2, <1>4, Zenon
<1>6. QED
      BY <1>5

\* The lowest digits are the same and so are the rest.
LEMMA Halves ==
    ASSUME NEW a \in 0..1, NEW b \in 0..1, NEW m \in Nat, NEW n \in Nat,
           a + 2 * m = b + 2 * n
    PROVE  a = b /\ m = n
OBVIOUS

\* Equal checksums have equal parities.
LEMMA ParitiesTell ==
    ASSUME NEW p \in Seq(Nat), NEW q \in Seq(Nat), Checksum(p) = Checksum(q),
           NEW bit \in {1, 2, 4, 8, 16, 32, 64, 128}
    PROVE  Parity(p, bit) = Parity(q, bit)
<1> DEFINE a1 == Parity(p, 1)
           a2 == Parity(p, 2)
           a4 == Parity(p, 4)
           a8 == Parity(p, 8)
           a16 == Parity(p, 16)
           a32 == Parity(p, 32)
           a64 == Parity(p, 64)
           a128 == Parity(p, 128)
           b1 == Parity(q, 1)
           b2 == Parity(q, 2)
           b4 == Parity(q, 4)
           b8 == Parity(q, 8)
           b16 == Parity(q, 16)
           b32 == Parity(q, 32)
           b64 == Parity(q, 64)
           b128 == Parity(q, 128)
<1>1. \A b : Parity(p, b) \in 0..1 /\ Parity(q, b) \in 0..1
      BY ParityType
<1>2. /\ a1 \in 0..1 /\ a2 \in 0..1 /\ a4 \in 0..1 /\ a8 \in 0..1
      /\ a16 \in 0..1 /\ a32 \in 0..1 /\ a64 \in 0..1 /\ a128 \in 0..1
      BY <1>1
<1>3. /\ b1 \in 0..1 /\ b2 \in 0..1 /\ b4 \in 0..1 /\ b8 \in 0..1
      /\ b16 \in 0..1 /\ b32 \in 0..1 /\ b64 \in 0..1 /\ b128 \in 0..1
      BY <1>1
<1>4. Checksum(p) = a1 + 2 * a2 + 4 * a4 + 8 * a8 + 16 * a16 + 32 * a32
                    + 64 * a64 + 128 * a128
      BY ChecksumIs, Zenon
<1>5. Checksum(q) = b1 + 2 * b2 + 4 * b4 + 8 * b8 + 16 * b16 + 32 * b32
                    + 64 * b64 + 128 * b128
      BY ChecksumIs, Zenon
<1> HIDE DEF a1, a2, a4, a8, a16, a32, a64, a128, b1, b2, b4, b8, b16, b32, b64, b128
<1>6. /\ a1 = b1 /\ a2 = b2 /\ a4 = b4 /\ a8 = b8
      /\ a16 = b16 /\ a32 = b32 /\ a64 = b64 /\ a128 = b128
  <2> DEFINE m64 == a64 + 2 * a128
             m32 == a32 + 2 * m64
             m16 == a16 + 2 * m32
             m8 == a8 + 2 * m16
             m4 == a4 + 2 * m8
             m2 == a2 + 2 * m4
             n64 == b64 + 2 * b128
             n32 == b32 + 2 * n64
             n16 == b16 + 2 * n32
             n8 == b8 + 2 * n16
             n4 == b4 + 2 * n8
             n2 == b2 + 2 * n4
  <2>1. /\ m64 \in Nat /\ m32 \in Nat /\ m16 \in Nat
        /\ m8 \in Nat /\ m4 \in Nat /\ m2 \in Nat
        BY <1>2
  <2>2. /\ n64 \in Nat /\ n32 \in Nat /\ n16 \in Nat
        /\ n8 \in Nat /\ n4 \in Nat /\ n2 \in Nat
        BY <1>3
  <2>3. Checksum(p) = a1 + 2 * m2
        BY <1>2, <1>4
  <2>4. Checksum(q) = b1 + 2 * n2
        BY <1>3, <1>5
  <2>5. a1 = b1 /\ m2 = n2
    <3>1. a1 + 2 * m2 = b1 + 2 * n2
          BY <2>3, <2>4
    <3> HIDE DEF m2, n2
    <3>2. QED
          BY <1>2, <1>3, <2>1, <2>2, <3>1, Halves
  <2>6. a2 = b2 /\ m4 = n4
        BY <1>2, <1>3, <2>1, <2>2, <2>5, Halves
  <2>7. a4 = b4 /\ m8 = n8
        BY <1>2, <1>3, <2>1, <2>2, <2>6, Halves
  <2>8. a8 = b8 /\ m16 = n16
        BY <1>2, <1>3, <2>1, <2>2, <2>7, Halves
  <2>9. a16 = b16 /\ m32 = n32
        BY <1>2, <1>3, <2>1, <2>2, <2>8, Halves
  <2>10. a32 = b32 /\ m64 = n64
         BY <1>2, <1>3, <2>1, <2>2, <2>9, Halves
  <2>11. a64 = b64 /\ a128 = b128
         BY <1>2, <1>3, <2>10
  <2>12. QED
         BY <2>5, <2>6, <2>7, <2>8, <2>9, <2>10, <2>11
<1>7. QED
      BY <1>6 DEF a1, a2, a4, a8, a16, a32, a64, a128, b1, b2, b4, b8, b16, b32, b64, b128

\* A damaged character shows: the checksum tells an ASCII character from every
\* other ...
LEMMA AsciiDamageShows ==
    ASSUME NEW p \in Seq(Nat), NEW q \in Seq(Nat), NEW k, Differ(p, q, k),
           p[k] \in Ascii, q[k] \in Ascii, p[k] # q[k]
    PROVE  Checksum(p) # Checksum(q)
<1>1. p[k] < 128 /\ q[k] < 128 /\ p[k] \in 0..127 /\ q[k] \in 0..127
      BY Ranges, Zenon
<1>2. PICK bit \in Bits :
         \/ (p[k] \div bit) % 2 # 1 /\ (q[k] \div bit) % 2 = 1
         \/ (q[k] \div bit) % 2 # 1 /\ (p[k] \div bit) % 2 = 1
      BY <1>1, SomeBit
<1>3. Differ(q, p, k)
  <2>1. DOMAIN p = 1..Len(p) /\ DOMAIN q = 1..Len(q)
        OBVIOUS
  <2>2. QED
        BY <2>1 DEF Differ
<1>4. Parity(p, bit) # Parity(q, bit)
  <2>1. CASE (p[k] \div bit) % 2 # 1 /\ (q[k] \div bit) % 2 = 1
        BY <2>1, <1>1, BitLost
  <2>2. CASE (q[k] \div bit) % 2 # 1 /\ (p[k] \div bit) % 2 = 1
        BY <2>2, <1>1, <1>3, BitLost
  <2>3. QED
        BY <1>2, <2>1, <2>2
<1>5. QED
      BY <1>4, ParitiesTell DEF Bits

\* ... and from the replacement character, each of whose three bytes has the
\* highest bit.
LEMMA ReplacementShows ==
    ASSUME NEW p \in Seq(Nat), NEW q \in Seq(Nat), NEW k, Differ(p, q, k),
           p[k] \in Ascii, q[k] = Replacement
    PROVE  Checksum(p) # Checksum(q)
<1>1. DOMAIN p = DOMAIN q
  <2>1. DOMAIN p = 1..Len(p) /\ DOMAIN q = 1..Len(q)
        OBVIOUS
  <2>2. QED
        BY <2>1, Zenon DEF Differ
<1>2. k \in DOMAIN p /\ \A i \in DOMAIN p : i # k => p[i] = q[i]
      BY Zenon DEF Differ
<1>3. p[k] \in 0..127 /\ Utf8(p[k]) = <<p[k]>>
  <2>1. p[k] \in 0..127 /\ p[k] < 128
        BY Ranges, Zenon
  <2>2. QED
        BY <2>1, Zenon DEF Utf8
<1>4. Utf8(q[k]) = <<239, 191, 189>>
      BY DEF Utf8, Replacement
<1>5. \A j \in 1..3 : <<k, j>> \notin Having(p, 128)
  <2> TAKE j \in 1..3
  <2>1. CASE j = 1
    <3>0. \A x \in 0..127 : (x \div 128) % 2 = 0
      <4>1. \A x \in 0..127 : x \div 128 = 0
            OBVIOUS
      <4>2. 0 % 2 = 0
            OBVIOUS
      <4>3. QED
            BY <4>1, <4>2, Zenon
    <3>1. (p[k] \div 128) % 2 = 0 /\ <<p[k]>>[1] = p[k]
          BY <3>0, <1>3
    <3>2. QED
          BY <2>1, <3>1, <1>3, HavingAt
  <2>2. CASE j # 1
    <3>1. ~(j <= 1) /\ Len(<<p[k]>>) = 1
          BY <2>2
    <3>2. QED
          BY <3>1, <1>3, HavingAt
  <2>3. QED
        BY <2>1, <2>2
<1>6. \A j \in 1..3 : <<k, j>> \in Having(q, 128)
  <2>1. /\ Len(<<239, 191, 189>>) = 3
        /\ (<<239, 191, 189>>[1] \div 128) % 2 = 1
        /\ (<<239, 191, 189>>[2] \div 128) % 2 = 1
        /\ (<<239, 191, 189>>[3] \div 128) % 2 = 1
        OBVIOUS
  <2> TAKE j \in 1..3
  <2>2. j = 1 \/ j = 2 \/ j = 3
        OBVIOUS
  <2>3. j <= 3
        OBVIOUS
  <2>4. /\ k \in DOMAIN q /\ j <= Len(Utf8(q[k]))
        /\ (Utf8(q[k])[j] \div 128) % 2 = 1
        BY <2>1, <2>2, <2>3, <1>1, <1>2, <1>4
  <2>5. QED
        BY <2>4, HavingAt
<1>7. \A i \in DOMAIN p, j \in 1..3 :
         i # k => (<<i, j>> \in Having(p, 128) <=> <<i, j>> \in Having(q, 128))
  <2> TAKE i \in DOMAIN p, j \in 1..3
  <2> HAVE i # k
  <2>1. p[i] = q[i]
        BY <1>2
  <2>2. QED
        BY <2>1, <1>1, HavingSame
<1> DEFINE S0 == Having(p, 128)
           S1 == S0 \cup {<<k, 1>>}
           S2 == S1 \cup {<<k, 2>>}
           S3 == S2 \cup {<<k, 3>>}
<1>8. ASSUME NEW x PROVE x \in Having(q, 128) <=> x \in S3
  <2>1. ASSUME x \in Having(q, 128) PROVE x \in S3
    <3>1. PICK i \in DOMAIN q, j \in 1..3 : x = <<i, j>>
          BY <2>1, HavingPairs
    <3>2. j = 1 \/ j = 2 \/ j = 3
          OBVIOUS
    <3>3. CASE i = k
          BY <3>1, <3>2, <3>3
    <3>4. CASE i # k
          BY <3>1, <3>4, <2>1, <1>1, <1>7
    <3>5. QED
          BY <3>3, <3>4
  <2>2. ASSUME x \in S3 PROVE x \in Having(q, 128)
    <3>1. CASE x \in S0
      <4>1. PICK i \in DOMAIN p, j \in 1..3 : x = <<i, j>>
            BY <3>1, HavingPairs
      <4>2. i # k
            BY <4>1, <3>1, <1>5
      <4>3. QED
            BY <4>1, <4>2, <3>1, <1>7
    <3>2. CASE x \notin S0
      <4>1. 1 \in 1..3 /\ 2 \in 1..3 /\ 3 \in 1..3
            OBVIOUS
      <4>2. CASE x \in {<<k, 1>>, <<k, 2>>, <<k, 3>>}
            BY <4>1, <4>2, <1>6
      <4>3. QED
            BY <3>2, <2>2, <4>2
    <3>3. QED
          BY <3>1, <3>2
  <2>3. QED
        BY <2>1, <2>2
<1>9. Having(q, 128) = S3
      BY <1>8
<1>10. <<k, 1>> \notin S0 /\ <<k, 2>> \notin S1 /\ <<k, 3>> \notin S2
       BY <1>5
<1> DEFINE n == Cardinality(S0)
<1>11. n \in Nat /\ IsFiniteSet(S0)
       BY HavingFinite
<1> HIDE DEF S0
<1>12. IsFiniteSet(S1) /\ Cardinality(S1) = n + 1
       BY <1>10, <1>11, FS_AddElement
<1> HIDE DEF S1
<1>13. IsFiniteSet(S2) /\ Cardinality(S2) = (n + 1) + 1
       BY <1>10, <1>12, FS_AddElement
<1> HIDE DEF S2
<1>14. Cardinality(S3) = ((n + 1) + 1) + 1
       BY <1>10, <1>13, FS_AddElement
<1> HIDE DEF S3, n
<1>15. (((n + 1) + 1) + 1) % 2 # n % 2
       BY <1>11
<1>16. Parity(q, 128) # Parity(p, 128)
       BY <1>9, <1>14, <1>15 DEF Parity, n, S0
<1>17. QED
       BY <1>16, ParitiesTell

-----------------------------------------------------------------------------
(* Hexadecimal digits *)

\* The upper-case digits.
HexDigits == (48..57) \cup (65..70)

\* Digits are digits, and different for different numbers.
LEMMA HexDigitIs ==
    /\ \A n \in 0..15 : HexDigit(n) \in HexDigits
    /\ \A m, n \in 0..15 : HexDigit(m) = HexDigit(n) => m = n
BY DEF HexDigit, HexDigits

\* A checksum is written with two digits.
LEMMA HexIs ==
    ASSUME NEW n \in 0..255
    PROVE  /\ Hex(n) = <<Hex(n)[1], Hex(n)[2]>>
           /\ Hex(n)[1] \in HexDigits /\ Hex(n)[2] \in HexDigits
<1>1. n \div 16 \in 0..15 /\ n % 16 \in 0..15
      OBVIOUS
<1>2. HexDigit(n \div 16) \in HexDigits /\ HexDigit(n % 16) \in HexDigits
      BY <1>1, HexDigitIs, Zenon
<1>3. Hex(n)[1] = HexDigit(n \div 16) /\ Hex(n)[2] = HexDigit(n % 16)
      BY DEF Hex
<1>4. Hex(n) = <<HexDigit(n \div 16), HexDigit(n % 16)>>
      BY Zenon DEF Hex
<1>5. QED
      BY <1>2, <1>3, <1>4

\* Digits are no marks, no blanks, and their own upper case.
LEMMA HexDigitsAre ==
    \A c \in HexDigits : /\ c \in Nat /\ c < 128 /\ c \in Ascii /\ c \notin White
                        /\ c # Star /\ c # Dollar /\ c # LF /\ c # CR
                        /\ (IF c \in 97..122 THEN c - 32 ELSE c) = c
BY DEF HexDigits, White, Star, Dollar, LF, CR, Ascii

\* Two checksums that are written alike are one.
LEMMA HexTells ==
    ASSUME NEW m \in 0..255, NEW n \in 0..255, Hex(m) = Hex(n)
    PROVE  m = n
<1>1. m \div 16 \in 0..15 /\ m % 16 \in 0..15 /\ n \div 16 \in 0..15 /\ n % 16 \in 0..15
      OBVIOUS
<1>2. HexDigit(m \div 16) = HexDigit(n \div 16) /\ HexDigit(m % 16) = HexDigit(n % 16)
      BY DEF Hex
<1>3. m \div 16 = n \div 16 /\ m % 16 = n % 16
      BY <1>1, <1>2, HexDigitIs
<1>4. QED
      BY <1>3

-----------------------------------------------------------------------------
(* Frames *)

\* The payload ends at the last star.
LEMMA EndOfIs ==
    ASSUME NEW line \in Seq(Nat), NEW k \in DOMAIN line, line[k] = Star,
           \A i \in DOMAIN line : i > k => line[i] # Star
    PROVE  EndOf(line) = k
<1> DEFINE stars == {i \in DOMAIN line : line[i] = Star}
           T == {0} \cup stars
<1>1. DOMAIN line = 1..Len(line) /\ Len(line) \in Nat
      OBVIOUS
<1>2. \A i \in T : i \in 0..Len(line) /\ i <= k
      BY <1>1
<1>3. k \in T /\ k \in Nat
      BY <1>1
<1>4. EndOf(line) = Max(T)
      BY Zenon DEF EndOf
<1> HIDE DEF T
<1>5. T \in SUBSET (0..Len(line)) /\ T # {}
      BY <1>2, <1>3
<1>6. Max(T) \in T /\ \A i \in T : i <= Max(T)
      BY <1>1, <1>5, MaxIs
<1>7. Max(T) <= k /\ k <= Max(T) /\ Max(T) \in 0..Len(line)
      BY <1>2, <1>3, <1>6, Zenon
<1>8. Max(T) = k
      BY <1>3, <1>7
<1>9. QED
      BY <1>4, <1>8

\* The end of a line that has a star is the last of them.
LEMMA EndOfStar ==
    ASSUME NEW line \in Seq(Nat)
    PROVE  \/ EndOf(line) = 0 /\ \A i \in DOMAIN line : line[i] # Star
           \/ /\ EndOf(line) \in DOMAIN line /\ line[EndOf(line)] = Star
              /\ \A i \in DOMAIN line : i > EndOf(line) => line[i] # Star
<1> DEFINE stars == {i \in DOMAIN line : line[i] = Star}
           T == {0} \cup stars
<1>1. DOMAIN line = 1..Len(line) /\ Len(line) \in Nat
      OBVIOUS
<1>2. \A i \in T : i \in 0..Len(line)
      BY <1>1
<1>3. EndOf(line) = Max(T)
      BY Zenon DEF EndOf
<1>4. Max(T) \in T /\ \A i \in T : i <= Max(T)
  <2>1. 0 \in T
        OBVIOUS
  <2> HIDE DEF T
  <2>2. T \in SUBSET (0..Len(line)) /\ T # {}
        BY <1>2, <2>1
  <2>3. QED
        BY <1>1, <2>2, MaxIs
<1>5. EndOf(line) \in T /\ \A i \in T : i <= EndOf(line)
      BY <1>3, <1>4, Zenon
<1> DEFINE k == EndOf(line)
<1> HIDE DEF k
<1>6. k \in T /\ \A i \in T : i <= k
      BY <1>5 DEF k
<1>7. CASE k \in stars
  <2>1. \A i \in DOMAIN line : i > k => line[i] # Star
        BY <1>1, <1>6, <1>7
  <2>2. QED
        BY <1>7, <2>1 DEF k
<1>8. CASE k \notin stars
  <2>1. k = 0
        BY <1>6, <1>8
  <2>2. \A i \in DOMAIN line : line[i] # Star
        BY <1>1, <1>6, <2>1
  <2>3. QED
        BY <2>1, <2>2 DEF k
<1>9. QED
      BY <1>7, <1>8

\* The star is the third character from the end of every frame.
LEMMA FrameShape ==
    ASSUME NEW line \in Seq(Nat), IsFrame(line)
    PROVE  /\ Len(line) > 4 /\ line[1] = Dollar
           /\ EndOf(line) = Len(line) - 2 /\ line[Len(line) - 2] = Star
           /\ line[Len(line) - 1] # Star /\ line[Len(line)] # Star
           /\ ChecksumsAgree(<<line[Len(line) - 1], line[Len(line)]>>,
                             Hex(Checksum(PayloadOf(line))))
<1> DEFINE k == EndOf(line)
           n == Len(line)
           given == SubSeq(line, k + 1, n)
<1>1. n \in Nat /\ DOMAIN line = 1..n
      OBVIOUS
<1>2. line[1] = Dollar /\ k > 2 /\ Upper(given) = Hex(Checksum(PayloadOf(line)))
      BY Zenon DEF IsFrame, ChecksumsAgree, GivenOf
<1>3. k \in DOMAIN line /\ line[k] = Star /\ \A i \in DOMAIN line : i > k => line[i] # Star
  <2>1. k # 0
        BY <1>2
  <2>2. QED
        BY <2>1, EndOfStar, Zenon
<1> HIDE DEF k
<1>4. k + 1 \in Nat /\ 1 <= k + 1 /\ k + 1 <= n + 1
      BY <1>1, <1>3
<1>5. /\ given \in Seq(Nat) /\ Len(given) = n - (k + 1) + 1
      /\ DOMAIN given = 1..(n - (k + 1) + 1)
      /\ \A i \in 1..(n - (k + 1) + 1) : given[i] = line[(k + 1) + i - 1]
  <2>1. n <= Len(line) /\ k + 1 \in Nat /\ n \in Nat
        BY <1>1, <1>4
  <2>2. QED
        BY <1>4, <2>1, SubSeqAt
<1>6. DOMAIN Upper(given) = DOMAIN given
      BY DEF Upper
<1>7. DOMAIN Hex(Checksum(PayloadOf(line))) = 1..2
      BY DEF Hex
<1> HIDE DEF given, n
<1>8. n - k = 2
  <2>1. 1..(n - (k + 1) + 1) = 1..2
        BY <1>2, <1>5, <1>6, <1>7
  <2>2. n \in Nat /\ k \in Nat /\ k <= n
        BY <1>1, <1>3
  <2>3. n - (k + 1) + 1 = n - k
        BY <2>2
  <2> DEFINE d == n - k
  <2>4. d \in Nat /\ 1..d = 1..2
        BY <2>1, <2>2, <2>3
  <2> HIDE DEF d
  <2>5. d = 2
    <3>0. 2 \in 1..2 /\ ~(3 \in 1..2)
          OBVIOUS
    <3>1. 2 \in 1..d
          BY <2>4, <3>0, Zenon
    <3>2. ~(3 \in 1..d)
          BY <2>4, <3>0, Zenon
    <3>3. d \in Nat
          BY <2>4
    <3>4. QED
          BY <3>1, <3>2, <3>3
  <2>6. QED
        BY <2>5 DEF d
<1>9. k = n - 2 /\ n > 4 /\ n - 1 \in 1..n /\ n \in 1..n /\ n - 1 > k /\ n > k
      BY <1>1, <1>2, <1>3, <1>8
<1>10. given = <<line[n - 1], line[n]>>
  <2>1. Len(given) = 2 /\ 1 \in 1..(n - (k + 1) + 1) /\ 2 \in 1..(n - (k + 1) + 1)
        BY <1>1, <1>5, <1>9
  <2>2. (k + 1) + 1 - 1 = n - 1 /\ (k + 1) + 2 - 1 = n
        BY <1>1, <1>9
  <2>3. given[1] = line[n - 1] /\ given[2] = line[n]
        BY <2>1, <2>2, <1>5
  <2>4. QED
        BY <2>1, <2>3, <1>5
<1>11. line[n - 2] = Star /\ line[n - 1] # Star /\ line[n] # Star
       BY <1>1, <1>3, <1>9
<1>12. ChecksumsAgree(<<line[n - 1], line[n]>>, Hex(Checksum(PayloadOf(line))))
       BY <1>2, <1>10, Zenon DEF ChecksumsAgree
<1>13. QED
       BY <1>2, <1>9, <1>11, <1>12 DEF k, n

\* A line in this shape is a frame if the digits are those of the checksum.
LEMMA FrameIs ==
    ASSUME NEW line \in Seq(Nat), NEW n \in Nat, n > 4, Len(line) = n,
           line[1] = Dollar, line[n - 2] = Star, line[n - 1] # Star, line[n] # Star
    PROVE  /\ EndOf(line) = n - 2
           /\ PayloadOf(line) = SubSeq(line, 2, n - 3)
           /\ IsFrame(line) <=>
                 Upper(<<line[n - 1], line[n]>>) = Hex(Checksum(SubSeq(line, 2, n - 3)))
<1>1. DOMAIN line = 1..n
      OBVIOUS
<1>2. n - 2 \in DOMAIN line /\ \A i \in DOMAIN line : i > n - 2 => line[i] # Star
  <2>1. \A i \in 1..n : i > n - 2 => i = n - 1 \/ i = n
        OBVIOUS
  <2>2. QED
        BY <1>1, <2>1
<1>3. EndOf(line) = n - 2
      BY <1>2, EndOfIs
<1>4. (n - 2) - 1 = n - 3 /\ (n - 2) + 1 = n - 1 /\ n - 2 > 2 /\ line # <<>>
      BY <1>1
<1>5. PayloadOf(line) = SubSeq(line, 2, n - 3)
      BY <1>3, <1>4 DEF PayloadOf
<1>6. GivenOf(line) = <<line[n - 1], line[n]>>
  <2> DEFINE given == SubSeq(line, n - 1, n)
  <2>1. n - 1 \in Nat /\ 1 <= n - 1 /\ n - 1 <= n + 1 /\ n - (n - 1) + 1 = 2
        /\ (n - 1) + 1 - 1 = n - 1 /\ (n - 1) + 2 - 1 = n
        OBVIOUS
  <2>2. /\ given \in Seq(Nat) /\ Len(given) = 2
        /\ \A i \in 1..2 : given[i] = line[(n - 1) + i - 1]
        BY <2>1, SubSeqAt
  <2>3. GivenOf(line) = given
        BY <1>3, <1>4 DEF GivenOf
  <2> HIDE DEF given
  <2>4. 1 \in 1..2 /\ 2 \in 1..2
        OBVIOUS
  <2>5. given[1] = line[n - 1] /\ given[2] = line[n]
        BY <2>1, <2>2, <2>4
  <2>6. QED
        BY <2>2, <2>3, <2>5
<1>7. IsFrame(line) <=>
         Upper(<<line[n - 1], line[n]>>) = Hex(Checksum(SubSeq(line, 2, n - 3)))
      BY <1>3, <1>4, <1>5, <1>6, Zenon DEF IsFrame, ChecksumsAgree
<1>8. QED
      BY <1>3, <1>5, <1>7

-----------------------------------------------------------------------------
(* A line that was built *)

\* What is where in a line that was built.
LEMMA LineAt ==
    ASSUME NEW p \in Seq(Nat)
    PROVE  LET t == BuildLine(p)
               n == Len(p)
           IN  /\ t \in Seq(Nat) /\ n \in Nat /\ Len(t) = n + 6
               /\ t[1] = Dollar /\ t[n + 2] = Star /\ t[n + 5] = CR /\ t[n + 6] = LF
               /\ \A i \in 1..n : t[1 + i] = p[i]
               /\ t[n + 3] = Hex(Checksum(p))[1] /\ t[n + 4] = Hex(Checksum(p))[2]
               /\ Hex(Checksum(p)) = <<t[n + 3], t[n + 4]>>
               /\ t[n + 3] \in HexDigits /\ t[n + 4] \in HexDigits
<1> DEFINE n == Len(p)
           h == Hex(Checksum(p))
           a == <<Dollar>>
           b == a \o p
           c == b \o <<Star>>
           d == c \o h
           t == d \o <<CR, LF>>
<1>1. n \in Nat
      OBVIOUS
<1>2. /\ h = <<h[1], h[2]>> /\ h[1] \in HexDigits /\ h[2] \in HexDigits
      BY ChecksumType, HexIs
<1>3. h \in Seq(Nat) /\ Len(h) = 2
  <2> HIDE DEF h
  <2>1. h[1] \in Nat /\ h[2] \in Nat
        BY <1>2, HexDigitsAre, Zenon
  <2> DEFINE x == h[1]
             y == h[2]
  <2>2. h = <<x, y>> /\ x \in Nat /\ y \in Nat
        BY <1>2, <2>1
  <2> HIDE DEF x, y
  <2>3. QED
        BY <2>2
<1>4. a \in Seq(Nat) /\ Len(a) = 1 /\ a[1] = Dollar
      BY DEF Dollar
<1>5. <<Star>> \in Seq(Nat) /\ Len(<<Star>>) = 1 /\ <<Star>>[1] = Star
      BY DEF Star
<1>6. /\ <<CR, LF>> \in Seq(Nat) /\ Len(<<CR, LF>>) = 2
      /\ <<CR, LF>>[1] = CR /\ <<CR, LF>>[2] = LF
      BY DEF CR, LF
<1>7. \A u, v \in Seq(Nat) :
         /\ u \o v \in Seq(Nat) /\ Len(u \o v) = Len(u) + Len(v)
         /\ \A i \in 1..Len(u) : (u \o v)[i] = u[i]
         /\ \A i \in 1..Len(v) : (u \o v)[Len(u) + i] = v[i]
      BY ConcatAt
<1>8. BuildLine(p) = t
      BY DEF BuildLine
<1> DEFINE s == <<Star>>
           f == <<CR, LF>>
<1>9. b \in Seq(Nat) /\ Len(b) = n + 1 /\ b[1] = Dollar /\ \A i \in 1..n : b[1 + i] = p[i]
  <2>1. /\ b \in Seq(Nat) /\ Len(b) = Len(a) + Len(p)
        /\ \A i \in 1..Len(a) : b[i] = a[i]
        /\ \A i \in 1..Len(p) : b[Len(a) + i] = p[i]
        BY <1>4, <1>7, Zenon
  <2> HIDE DEF a, b
  <2>2. QED
        BY <1>1, <1>4, <2>1
<1> HIDE DEF b
<1>10. /\ c \in Seq(Nat) /\ Len(c) = n + 2 /\ c[1] = Dollar /\ c[n + 2] = Star
       /\ \A i \in 1..n : c[1 + i] = p[i]
  <2>1. /\ c \in Seq(Nat) /\ Len(c) = Len(b) + Len(s)
        /\ \A i \in 1..Len(b) : c[i] = b[i]
        /\ \A i \in 1..Len(s) : c[Len(b) + i] = s[i]
        BY <1>5, <1>7, <1>9, Zenon
  <2>2. Len(s) = 1 /\ s[1] = Star
        BY <1>5
  <2> HIDE DEF c, s, n
  <2>3. 1 \in 1..Len(b) /\ (\A i \in 1..n : 1 + i \in 1..Len(b)) /\ 1 \in 1..Len(s)
        /\ Len(b) + 1 = n + 2
        BY <1>1, <1>9, <2>2
  <2>4. QED
        BY <1>1, <1>9, <2>1, <2>2, <2>3
<1> HIDE DEF c, n, h
<1>11. /\ d \in Seq(Nat) /\ Len(d) = n + 4 /\ d[1] = Dollar /\ d[n + 2] = Star
       /\ \A i \in 1..n : d[1 + i] = p[i]
       /\ d[n + 3] = h[1] /\ d[n + 4] = h[2]
  <2>1. /\ d \in Seq(Nat) /\ Len(d) = Len(c) + Len(h)
        /\ \A i \in 1..Len(c) : d[i] = c[i]
        /\ \A i \in 1..Len(h) : d[Len(c) + i] = h[i]
        BY <1>3, <1>7, <1>10, Zenon
  <2> HIDE DEF d
  <2>2. /\ 1 \in 1..Len(c) /\ n + 2 \in 1..Len(c) /\ (\A i \in 1..n : 1 + i \in 1..Len(c))
        /\ 1 \in 1..Len(h) /\ 2 \in 1..Len(h)
        /\ Len(c) + 1 = n + 3 /\ Len(c) + 2 = n + 4
        BY <1>1, <1>3, <1>10
  <2>3. QED
        BY <1>1, <1>3, <1>10, <2>1, <2>2
<1> HIDE DEF d
<1>12. /\ t \in Seq(Nat) /\ Len(t) = n + 6 /\ t[1] = Dollar /\ t[n + 2] = Star
       /\ \A i \in 1..n : t[1 + i] = p[i]
       /\ t[n + 3] = h[1] /\ t[n + 4] = h[2] /\ t[n + 5] = CR /\ t[n + 6] = LF
  <2>1. /\ t \in Seq(Nat) /\ Len(t) = Len(d) + Len(f)
        /\ \A i \in 1..Len(d) : t[i] = d[i]
        /\ \A i \in 1..Len(f) : t[Len(d) + i] = f[i]
        BY <1>6, <1>7, <1>11, Zenon
  <2>2. Len(f) = 2 /\ f[1] = CR /\ f[2] = LF
        BY <1>6
  <2> HIDE DEF t, f
  <2>3. /\ 1 \in 1..Len(d) /\ n + 2 \in 1..Len(d) /\ (\A i \in 1..n : 1 + i \in 1..Len(d))
        /\ n + 3 \in 1..Len(d) /\ n + 4 \in 1..Len(d)
        /\ 1 \in 1..Len(f) /\ 2 \in 1..Len(f)
        /\ Len(d) + 1 = n + 5 /\ Len(d) + 2 = n + 6
    <3>1. n \in Nat /\ Len(d) = n + 4 /\ Len(f) = 2
          BY <1>1, <1>11, <2>2
    <3>2. QED
          BY <3>1
  <2>4. QED
        BY <1>1, <1>11, <2>1, <2>2, <2>3
<1> HIDE DEF t
<1>13. QED
       BY <1>1, <1>2, <1>8, <1>12 DEF n, h

\* The marks are different; those of the end of line are blanks.
LEMMA Marked ==
    /\ Dollar \in Nat /\ Star \in Nat /\ LF \in Nat /\ CR \in Nat
    /\ Dollar \notin White /\ Star \notin White /\ CR \in White /\ LF \in White
    /\ Dollar # Star /\ Dollar # LF /\ Dollar # CR /\ Star # LF /\ Star # CR /\ CR # LF
BY DEF Dollar, Star, LF, CR, White

\* The beginning of a text, up to the blanks that end it.
LEMMA StripStart ==
    ASSUME NEW u \in Seq(Nat), NEW m \in Nat, NEW z \in 1..m, m <= Len(u),
           u[1] \notin White, u[z] \notin White, \A i \in (z + 1)..m : u[i] \in White
    PROVE  Strip(SubSeq(u, 1, m)) = SubSeq(u, 1, z)
<1> DEFINE s == SubSeq(u, 1, m)
           v == SubSeq(s, 1, z)
           w == SubSeq(u, 1, z)
<1>1. z \in Nat /\ 1 <= z /\ z <= m /\ Len(u) \in Nat /\ 1 <= m + 1 /\ 1 <= z + 1
      /\ m - 1 + 1 = m /\ z - 1 + 1 = z /\ z <= Len(u)
      OBVIOUS
<1>2. \A i \in Nat : 1 + i - 1 = i
      OBVIOUS
<1>3. /\ s \in Seq(Nat) /\ Len(s) = m /\ DOMAIN s = 1..m
      /\ \A i \in 1..m : s[i] = u[i]
  <2>1. /\ s \in Seq(Nat) /\ Len(s) = m - 1 + 1 /\ DOMAIN s = 1..(m - 1 + 1)
        /\ \A i \in 1..(m - 1 + 1) : s[i] = u[1 + i - 1]
        BY <1>1, SubSeqAt
  <2> HIDE DEF s
  <2>2. QED
        BY <2>1, <1>1, <1>2
<1> HIDE DEF s
<1>4. /\ v \in Seq(Nat) /\ Len(v) = z
      /\ \A i \in 1..z : v[i] = s[i]
  <2>1. /\ v \in Seq(Nat) /\ Len(v) = z - 1 + 1
        /\ \A i \in 1..(z - 1 + 1) : v[i] = s[1 + i - 1]
        BY <1>1, <1>3, SubSeqAt
  <2> HIDE DEF v
  <2>2. QED
        BY <2>1, <1>1, <1>2
<1>5. /\ w \in Seq(Nat) /\ Len(w) = z
      /\ \A i \in 1..z : w[i] = u[i]
  <2>1. /\ w \in Seq(Nat) /\ Len(w) = z - 1 + 1
        /\ \A i \in 1..(z - 1 + 1) : w[i] = u[1 + i - 1]
        BY <1>1, SubSeqAt
  <2> HIDE DEF w
  <2>2. QED
        BY <2>1, <1>1, <1>2
<1>6. Spans(s, 1, z)
  <2>1. 1 \in 1..m /\ z \in 1..m
        BY <1>1
  <2>2. \A i \in 1..m : i < 1 \/ z < i => i \in (z + 1)..m
        BY <1>1
  <2>3. QED
        BY <1>1, <1>3, <2>1, <2>2 DEF Spans
<1>7. Strip(s) = v
      BY <1>3, <1>6, StripIs
<1> HIDE DEF v, w
<1>8. v = w
  <2>1. ASSUME NEW i \in 1..z PROVE v[i] = w[i]
    <3>1. i \in 1..m
          BY <1>1
    <3>2. QED
          BY <3>1, <1>3, <1>4, <1>5
  <2>2. QED
        BY <2>1, <1>4, <1>5, SeqEqual
<1>9. QED
      BY <1>7, <1>8 DEF s, w

\* What is between the first of the characters and the last three.
LEMMA Middle ==
    ASSUME NEW line \in Seq(Nat), NEW p \in Seq(Nat), Len(line) = Len(p) + 4,
           \A i \in 1..Len(p) : line[1 + i] = p[i]
    PROVE  SubSeq(line, 2, Len(p) + 1) = p
<1> DEFINE n == Len(p)
           q == SubSeq(line, 2, n + 1)
<1>1. n \in Nat
      OBVIOUS
<1>2. /\ q \in Seq(Nat) /\ Len(q) = (n + 1) - 2 + 1
      /\ \A i \in 1..((n + 1) - 2 + 1) : q[i] = line[2 + i - 1]
  <2> DEFINE a == 2
             z == n + 1
  <2>1. line \in Seq(Nat) /\ a \in Nat /\ z \in Nat /\ 1 <= a /\ a <= z + 1 /\ z <= Len(line)
        BY <1>1
  <2> HIDE DEF a, z
  <2>2. /\ SubSeq(line, a, z) \in Seq(Nat)
        /\ Len(SubSeq(line, a, z)) = z - a + 1
        /\ DOMAIN SubSeq(line, a, z) = 1..(z - a + 1)
        /\ \A i \in 1..(z - a + 1) : SubSeq(line, a, z)[i] = line[a + i - 1]
        BY ONLY <2>1, SubSeqAt
  <2>3. QED
        BY <2>2 DEF a, z
<1> HIDE DEF q
<1>3. (n + 1) - 2 + 1 = n /\ \A i \in 1..n : 2 + i - 1 = 1 + i
      BY <1>1
<1>4. q \in Seq(Nat) /\ Len(q) = n /\ \A i \in 1..n : q[i] = p[i]
      BY <1>2, <1>3
<1>5. q = p
      BY <1>4, SeqEqual
<1>6. QED
      BY <1>5 DEF q

\* A line with this payload between its delimiters.
LEMMA LineFrame ==
    ASSUME NEW u \in Seq(Nat), NEW p \in Seq(Nat), p # <<>>,
           Len(p) + 4 <= Len(u),
           u[1] = Dollar, \A i \in 1..Len(p) : u[1 + i] = p[i],
           u[Len(p) + 2] = Star, u[Len(p) + 3] # Star, u[Len(p) + 4] # Star
    PROVE  LET line == SubSeq(u, 1, Len(p) + 4)
           IN  /\ line \in Seq(Nat) /\ Len(line) = Len(p) + 4 /\ line # <<>>
               /\ PayloadOf(line) = p
               /\ IsFrame(line) <=> Upper(<<u[Len(p) + 3], u[Len(p) + 4]>>)
                                    = Hex(Checksum(p))
<1> DEFINE n == Len(p)
           m == n + 4
           line == SubSeq(u, 1, m)
           q == SubSeq(line, 2, m - 3)
<1>1. n \in Nat /\ n > 0 /\ Len(u) \in Nat
      BY EmptySeq
<1>2. \A i \in Nat : 1 + i - 1 = i
      OBVIOUS
<1> HIDE DEF n
<1>3. /\ line \in Seq(Nat) /\ Len(line) = m /\ DOMAIN line = 1..m
      /\ \A i \in 1..m : line[i] = u[i]
  <2> DEFINE a == 1
  <2>1. /\ a \in Nat /\ m \in Nat /\ 1 <= a /\ a <= m + 1 /\ m - a + 1 = m /\ m <= Len(u)
        /\ \A i \in 1..m : a + i - 1 = i
        BY <1>1 DEF n
  <2> HIDE DEF a, m
  <2>2. /\ SubSeq(u, a, m) \in Seq(Nat) /\ Len(SubSeq(u, a, m)) = m - a + 1
        /\ DOMAIN SubSeq(u, a, m) = 1..(m - a + 1)
        /\ \A i \in 1..(m - a + 1) : SubSeq(u, a, m)[i] = u[a + i - 1]
        BY ONLY u \in Seq(Nat), <2>1, SubSeqAt
  <2>3. QED
        BY <2>1, <2>2 DEF a
<1>4. /\ line[1] = Dollar /\ line[m - 2] = Star /\ line[m - 1] # Star /\ line[m] # Star
  <2>1. /\ 1 \in 1..m /\ m - 2 \in 1..m /\ m - 1 \in 1..m /\ m \in 1..m
        /\ m - 2 = n + 2 /\ m - 1 = n + 3
        BY <1>1
  <2>2. u[n + 2] = Star /\ u[n + 3] # Star /\ u[n + 4] # Star
        BY DEF n
  <2> HIDE DEF line
  <2>3. QED
        BY <1>3, <2>1, <2>2
<1>5. m \in Nat /\ m > 4 /\ m - 3 = n + 1 /\ m - 2 = n + 2 /\ m - 1 = n + 3
      BY <1>1
<1> HIDE DEF line
<1>6. /\ PayloadOf(line) = q
      /\ IsFrame(line) <=> Upper(<<line[m - 1], line[m]>>) = Hex(Checksum(q))
  <2> HIDE DEF m
  <2>1. QED
        BY <1>3, <1>4, <1>5, FrameIs
<1>7. q = p
  <2>1. \A i \in 1..n : line[1 + i] = p[i]
    <3>1. ASSUME NEW i \in 1..n PROVE line[1 + i] = p[i]
      <4>1. 1 + i \in 1..m
            BY <1>1
      <4>2. u[1 + i] = p[i]
            BY DEF n
      <4>3. QED
            BY <4>1, <4>2, <1>3, Zenon
    <3>2. QED
          BY <3>1
  <2>2. SubSeq(line, 2, n + 1) = p
        BY <1>3, <2>1, Middle DEF n
  <2>3. QED
        BY <2>2, <1>5, Zenon
<1>8. line[m - 1] = u[n + 3] /\ line[m] = u[n + 4]
  <2>1. m - 1 \in 1..m /\ m \in 1..m
        BY <1>1
  <2>2. QED
        BY <2>1, <1>3, <1>5
<1>9. line # <<>>
      BY <1>3, <1>5, EmptySeq
<1>10. /\ line \in Seq(Nat) /\ Len(line) = n + 4
       /\ IsFrame(line) <=> Upper(<<u[n + 3], u[n + 4]>>) = Hex(Checksum(p))
  <2>1. IsFrame(line) <=> Upper(<<line[m - 1], line[m]>>) = Hex(Checksum(p))
        BY <1>6, <1>7, Zenon
  <2>2. QED
        BY <2>1, <1>3, <1>8, Zenon DEF m
<1>11. QED
       BY <1>6, <1>7, <1>9, <1>10, Zenon DEF n, line, m

\* The digits are their own upper case.
LEMMA UpperHex ==
    ASSUME NEW n \in 0..255
    PROVE  Upper(<<Hex(n)[1], Hex(n)[2]>>) = Hex(n)
<1> DEFINE x == Hex(n)[1]
           y == Hex(n)[2]
<1>1. Hex(n) = <<x, y>> /\ x \in HexDigits /\ y \in HexDigits
      BY HexIs
<1>2. (IF x \in 97..122 THEN x - 32 ELSE x) = x /\ (IF y \in 97..122 THEN y - 32 ELSE y) = y
      BY <1>1, HexDigitsAre
<1> HIDE DEF x, y
<1>3. Upper(<<x, y>>) = <<x, y>>
      BY <1>2 DEF Upper
<1>4. QED
      BY <1>1, <1>3 DEF x, y

\* Whatever follows of the line break, what was built is read.
LEMMA BuiltIsRead ==
    ASSUME NEW p \in Seq(Nat), p # <<>>, NEW m \in {Len(p) + 4, Len(p) + 5, Len(p) + 6}
    PROVE  LET line == Strip(SubSeq(BuildLine(p), 1, m))
           IN  /\ line = SubSeq(BuildLine(p), 1, Len(p) + 4) /\ line \in Seq(Nat)
               /\ line # <<>> /\ IsFrame(line) /\ PayloadOf(line) = p
<1> DEFINE t == BuildLine(p)
           n == Len(p)
           h == Hex(Checksum(p))
<1>1. /\ t \in Seq(Nat) /\ n \in Nat /\ Len(t) = n + 6
      /\ t[1] = Dollar /\ t[n + 2] = Star /\ t[n + 5] = CR /\ t[n + 6] = LF
      /\ \A i \in 1..n : t[1 + i] = p[i]
      /\ h = <<t[n + 3], t[n + 4]>> /\ h[1] = t[n + 3] /\ h[2] = t[n + 4]
      /\ t[n + 3] \in HexDigits /\ t[n + 4] \in HexDigits
      BY LineAt
<1>2. Upper(<<t[n + 3], t[n + 4]>>) = h
  <2>1. Checksum(p) \in 0..255
        BY ChecksumType
  <2>2. Upper(<<h[1], h[2]>>) = h
        BY <2>1, UpperHex
  <2> HIDE DEF t, h, n
  <2>3. QED
        BY <1>1, <2>2, Zenon
<1>3. /\ t[n + 3] # Star /\ t[n + 4] # Star /\ t[n + 4] \notin White
      BY <1>1, HexDigitsAre, Zenon
<1> HIDE DEF t
<1>4. Strip(SubSeq(t, 1, m)) = SubSeq(t, 1, n + 4)
  <2>1. /\ m \in Nat /\ n + 4 \in 1..m /\ m <= Len(t)
        /\ \A i \in ((n + 4) + 1)..m : i = n + 5 \/ i = n + 6
    <3>1. m = n + 4 \/ m = n + 5 \/ m = n + 6
          OBVIOUS
    <3>2. n \in Nat /\ Len(t) = n + 6
          BY <1>1
    <3> HIDE DEF n
    <3>3. QED
          BY <3>1, <3>2
  <2>2. t[1] \notin White /\ \A i \in ((n + 4) + 1)..m : t[i] \in White
        BY <1>1, <2>1, Marked, Zenon
  <2> HIDE DEF n
  <2>3. QED
        BY <1>1, <1>3, <2>1, <2>2, StripStart
<1>5. n + 4 <= Len(t)
      BY <1>1
<1>6. LET line == SubSeq(t, 1, n + 4)
      IN  /\ line \in Seq(Nat) /\ line # <<>>
          /\ PayloadOf(line) = p /\ IsFrame(line)
      BY <1>1, <1>2, <1>3, <1>5, LineFrame
<1>7. QED
      BY <1>4, <1>6 DEF t

-----------------------------------------------------------------------------
(* A line with one character damaged *)

\* A payload of printable ASCII without delimiters of its own.
Plain(p) == /\ p \in Seq(Ascii) /\ p # <<>>
            /\ \A i \in 1..Len(p) : p[i] # Dollar /\ p[i] # Star /\ ~IsControl(p[i])

\* ASCII is a text and bytes.
LEMMA AsciiSeq ==
    ASSUME NEW p \in Seq(Ascii)
    PROVE  p \in Seq(Nat) /\ p \in Seq(Byte)
<1>1. Len(p) \in Nat /\ p = [i \in 1..Len(p) |-> p[i]] /\ \A i \in 1..Len(p) : p[i] \in Ascii
      OBVIOUS
<1>2. \A i \in 1..Len(p) : p[i] \in Nat /\ p[i] \in Byte
      BY <1>1, Ranges, Zenon
<1>3. QED
      BY <1>1, <1>2

\* Where the delimiters and the line feed of a plain line are.
LEMMA LineMarks ==
    ASSUME NEW p, Plain(p)
    PROVE  LET t == BuildLine(p)
               n == Len(p)
           IN  \A i \in 1..(n + 6) : /\ t[i] = Dollar <=> i = 1
                                     /\ t[i] = Star <=> i = n + 2
                                     /\ t[i] = LF <=> i = n + 6
                                     /\ t[i] \in Ascii
<1> DEFINE t == BuildLine(p)
           n == Len(p)
<1>1. p \in Seq(Nat) /\ p \in Seq(Ascii)
      BY AsciiSeq DEF Plain
<1>2. /\ n \in Nat
      /\ t[1] = Dollar /\ t[n + 2] = Star /\ t[n + 5] = CR /\ t[n + 6] = LF
      /\ \A i \in 1..n : t[1 + i] = p[i]
      /\ t[n + 3] \in HexDigits /\ t[n + 4] \in HexDigits
      BY <1>1, LineAt
<1>3. \A i \in 1..n : p[i] # Dollar /\ p[i] # Star /\ p[i] # LF /\ p[i] \in Ascii
  <2> TAKE i \in 1..n
  <2>1. p[i] # Dollar /\ p[i] # Star /\ ~IsControl(p[i]) /\ p[i] \in Ascii
        BY <1>1, SeqAt, Zenon DEF Plain
  <2>2. IsControl(LF)
        BY DEF IsControl, LF
  <2>3. QED
        BY <2>1, <2>2, Zenon
<1>4. Dollar \in Ascii /\ Star \in Ascii /\ CR \in Ascii /\ LF \in Ascii
      BY DEF Dollar, Star, CR, LF, Ascii
<1> HIDE DEF t, n
<1>5. ASSUME NEW i \in 1..(n + 6)
      PROVE  /\ t[i] = Dollar <=> i = 1
             /\ t[i] = Star <=> i = n + 2
             /\ t[i] = LF <=> i = n + 6
             /\ t[i] \in Ascii
  <2>1. CASE i \in 2..(n + 1)
    <3>1. i - 1 \in 1..n /\ 1 + (i - 1) = i /\ i # 1 /\ i # n + 2 /\ i # n + 6
          BY <2>1, <1>2
    <3>2. t[i] = p[i - 1]
          BY <3>1, <1>2
    <3>3. QED
          BY <3>1, <3>2, <1>3
  <2>2. CASE i = 1
    <3>1. 1 # n + 2 /\ 1 # n + 6
          BY <1>2
    <3>2. QED
          BY <2>2, <3>1, <1>2, <1>4, Marked
  <2>3. CASE i = n + 2
    <3>1. n + 2 # 1 /\ n + 2 # n + 6
          BY <1>2
    <3>2. QED
          BY <2>3, <3>1, <1>2, <1>4, Marked
  <2>4. CASE i = n + 3 \/ i = n + 4
    <3>1. i # 1 /\ i # n + 2 /\ i # n + 6
          BY <2>4, <1>2
    <3>2. t[i] \in HexDigits
          BY <2>4, <1>2
    <3>3. QED
          BY <3>1, <3>2, HexDigitsAre
  <2>5. CASE i = n + 5
    <3>1. n + 5 # 1 /\ n + 5 # n + 2 /\ n + 5 # n + 6
          BY <1>2
    <3>2. QED
          BY <2>5, <3>1, <1>2, <1>4, Marked
  <2>6. CASE i = n + 6
    <3>1. n + 6 # 1 /\ n + 6 # n + 2
          BY <1>2
    <3>2. QED
          BY <2>6, <3>1, <1>2, <1>4, Marked
  <2>7. QED
        BY <1>2, <2>1, <2>2, <2>3, <2>4, <2>5, <2>6
<1>6. QED
      BY <1>5 DEF t, n

\* The line of a plain payload with one character damaged, and a line of it that
\* is a frame.
FrameOfDamaged(p, at, c, u, b, e) ==
    /\ Plain(p) /\ at \in 1..(Len(p) + 6) /\ c \in Ascii \cup {Replacement}
    /\ u = [BuildLine(p) EXCEPT ![at] = c]
    /\ IsLine(u, b, e) /\ IsFrame(Strip(SubSeq(u, b + 1, e - 1)))

\* If it is a frame it begins the line, and holds the payload that was sent.
LEMMA DamagedLine ==
    ASSUME NEW p, NEW at, NEW c, NEW u, NEW b, NEW e, FrameOfDamaged(p, at, c, u, b, e)
    PROVE  b = 0 /\ PayloadOf(Strip(SubSeq(u, b + 1, e - 1))) = p
<1> DEFINE t == BuildLine(p)
           n == Len(p)
           s == SubSeq(u, b + 1, e - 1)
           line == Strip(s)
<1>0. /\ Plain(p) /\ at \in 1..(n + 6) /\ c \in Ascii \cup {Replacement}
      /\ u = [t EXCEPT ![at] = c]
      /\ IsLine(u, b, e) /\ IsFrame(line)
      BY DEF FrameOfDamaged
<1>1. p \in Seq(Nat) /\ p \in Seq(Ascii) /\ p # <<>>
      BY <1>0, AsciiSeq DEF Plain
<1>n. n \in Nat
      BY <1>1, LineAt
<1>2. /\ t \in Seq(Nat) /\ n \in Nat /\ Len(t) = n + 6
      /\ t[1] = Dollar /\ t[n + 2] = Star /\ t[n + 5] = CR /\ t[n + 6] = LF
      /\ \A i \in 1..n : t[1 + i] = p[i]
      /\ t[n + 3] \in HexDigits /\ t[n + 4] \in HexDigits
      /\ Hex(Checksum(p)) = <<t[n + 3], t[n + 4]>>
      BY <1>1, LineAt
<1>t. t \in Seq(Nat)
      BY <1>2
<1>3. \A i \in 1..(n + 6) : /\ t[i] = Dollar <=> i = 1
                            /\ t[i] = Star <=> i = n + 2
                            /\ t[i] = LF <=> i = n + 6
      BY <1>0, LineMarks
<1>4. n > 0
      BY <1>1, EmptySeq
<1>5. c \in Nat
      BY <1>0, Ranges DEF Replacement
<1> HIDE DEF t, n
<1>6. /\ u \in Seq(Nat) /\ Len(u) = n + 6 /\ DOMAIN u = 1..(n + 6)
      /\ u[at] = c /\ at \in 1..(n + 6)
      /\ \A i \in 1..(n + 6) : i # at => u[i] = t[i]
  <2>1. u = [t EXCEPT ![at] = c] /\ at \in 1..(n + 6)
        BY <1>0
  <2>2. DOMAIN t = 1..(n + 6)
        BY <1>2, SeqAt
  <2>m. Len(t) = n + 6
        BY <1>2
  <2>l. at \in 1..Len(t)
        BY <2>1, <2>m
  <2>3. u \in Seq(Nat) /\ Len(u) = Len(t)
    <3>1. [t EXCEPT ![at] = c] \in Seq(Nat) /\ Len([t EXCEPT ![at] = c]) = Len(t)
          BY <2>l, <1>t, <1>5, ExceptSeq
    <3>2. QED
          BY <2>1, <3>1
  <2>4. DOMAIN u = DOMAIN t /\ u[at] = c /\ \A i \in DOMAIN t : i # at => u[i] = t[i]
        BY <2>1, <2>2
  <2>5. QED
        BY <2>1, <2>2, <2>3, <2>4, <1>2
<1>7. /\ e \in 1..(n + 6) /\ u[e] = LF /\ b < e
      /\ b = 0 \/ (b \in 1..(n + 6) /\ u[b] = LF)
  <2>1. /\ b \in {0} \cup Cuts(u, {LF}) /\ e \in Cuts(u, {LF}) \cup {Len(u) + 1} /\ b < e
        /\ e \in DOMAIN u
        BY <1>0 DEF IsLine, IsPiece
  <2>2. ~(e = Len(u) + 1)
        BY <2>1, <1>2, <1>6
  <2>3. \A i \in Cuts(u, {LF}) : i \in 1..(n + 6) /\ u[i] = LF
        BY <1>6 DEF Cuts
  <2> DEFINE C == Cuts(u, {LF})
  <2>5. /\ b \in {0} \cup C /\ e \in C \cup {Len(u) + 1} /\ b < e
        /\ \A i \in C : i \in 1..(n + 6) /\ u[i] = LF
        BY <2>1, <2>3
  <2> HIDE DEF C
  <2>6. e \in C /\ (b = 0 \/ b \in C)
        BY <2>2, <2>5
  <2>7. QED
        BY <2>5, <2>6
<1>en. e \in 1..(n + 6) /\ b < e /\ (b = 0 \/ b \in 1..(n + 6))
       BY <1>7
<1>8. /\ s \in Seq(Nat) /\ DOMAIN s = 1..(e - 1 - b)
      /\ \A i \in 1..(e - 1 - b) : s[i] = u[b + i] /\ b + i \in (b + 1)..(e - 1)
  <2>1. /\ b + 1 \in Nat /\ e - 1 \in Nat /\ 1 <= b + 1 /\ b + 1 <= (e - 1) + 1
        /\ e - 1 <= Len(u) /\ b \in Nat /\ e \in Nat
        BY <1>n, <1>en, <1>6
  <2>2. /\ s \in Seq(Nat) /\ DOMAIN s = 1..((e - 1) - (b + 1) + 1)
        /\ \A i \in 1..((e - 1) - (b + 1) + 1) : s[i] = u[(b + 1) + i - 1]
        BY <2>1, <1>6, SubSeqAt
  <2> HIDE DEF s
  <2>3. /\ (e - 1) - (b + 1) + 1 = e - 1 - b
        /\ \A i \in 1..(e - 1 - b) : (b + 1) + i - 1 = b + i /\ b + i \in (b + 1)..(e - 1)
        BY <2>1
  <2>4. QED
        BY <2>2, <2>3
<1> HIDE DEF s
<1>9. line \in Seq(Nat) /\ ToSet(line) \subseteq ToSet(s) /\ IsFrame(line)
      BY <1>0, <1>8, StripType DEF s
<1>10. (\E i \in (b + 1)..(e - 1) : u[i] = Dollar) /\ (\E i \in (b + 1)..(e - 1) : u[i] = Star)
  <2>1. Dollar \in ToSet(s) /\ Star \in ToSet(s)
        BY <1>9, FrameHolds
  <2>2. \A x \in ToSet(s) : \E i \in (b + 1)..(e - 1) : u[i] = x
    <3>1. ASSUME NEW k \in DOMAIN s PROVE \E i \in (b + 1)..(e - 1) : u[i] = s[k]
          BY <1>8
    <3>2. QED
          BY <3>1 DEF ToSet
  <2>3. QED
        BY <2>1, <2>2
<1> HIDE DEF line
<1>11. b = 0
  <2>1. SUFFICES ASSUME b # 0 PROVE FALSE
        OBVIOUS
  <2>2. b \in 1..(n + 6) /\ u[b] = LF /\ b # n + 6
        BY <2>1, <1>2, <1>7
  <2>3. b = at
        BY <2>2, <1>3, <1>6
  <2>4. PICK i \in (b + 1)..(e - 1) : u[i] = Dollar
        BY <1>10
  <2>5. i \in 1..(n + 6) /\ i # at /\ i # 1
        BY <2>2, <2>3, <1>n, <1>en
  <2>6. QED
        BY <2>4, <2>5, <1>3, <1>6
<1>12. s = SubSeq(u, 1, e - 1)
       BY <1>11 DEF s
\* The line ends with the last character that is not blank ...
<1>13. ASSUME NEW z \in 1..(e - 1), u[1] \notin White, u[z] \notin White,
              \A i \in (z + 1)..(e - 1) : u[i] \in White
       PROVE  /\ line = SubSeq(u, 1, z) /\ z > 4
              /\ u[z - 2] = Star /\ u[z - 1] # Star /\ u[z] # Star
  <2>0. Len(u) = n + 6
        BY <1>6
  <2>1. e - 1 \in Nat /\ e - 1 <= Len(u) /\ Len(u) \in Nat
        BY <2>0, <1>n, <1>en
  <2>2. line = SubSeq(u, 1, z)
        BY <2>1, <1>6, <1>12, <1>13, StripStart DEF line
  <2>3. /\ Len(line) = z /\ \A i \in 1..z : line[i] = u[i]
    <3>1. z \in Nat /\ 1 <= z + 1 /\ z <= Len(u) /\ z - 1 + 1 = z
          /\ \A i \in 1..z : 1 + i - 1 = i
          BY <2>1
    <3>2. /\ Len(SubSeq(u, 1, z)) = z - 1 + 1
          /\ \A i \in 1..(z - 1 + 1) : SubSeq(u, 1, z)[i] = u[1 + i - 1]
          BY <3>1, <1>6, SubSeqAt
    <3>3. QED
          BY <2>2, <3>1, <3>2
  <2>4. /\ Len(line) > 4 /\ line[Len(line) - 2] = Star
        /\ line[Len(line) - 1] # Star /\ line[Len(line)] # Star
        BY <1>9, FrameShape
  <2>5. z > 4
        BY <2>3, <2>4
  <2>6. z - 2 \in 1..z /\ z - 1 \in 1..z /\ z \in 1..z
        BY <2>5
  <2>7. QED
        BY <2>2, <2>3, <2>4, <2>5, <2>6
\* ... and if that is the second digit holds the payload, which then is p.
<1>14. ASSUME line = SubSeq(u, 1, n + 4), u[n + 3] # Star, u[n + 4] # Star,
              u[1] = Dollar, u[n + 2] = Star, at \notin 2..(n + 1)
       PROVE  PayloadOf(line) = p
  <2>1. \A i \in 1..n : u[1 + i] = p[i]
    <3>1. ASSUME NEW i \in 1..n PROVE u[1 + i] = p[i]
      <4>1. 1 + i \in 1..(n + 6) /\ 1 + i # at
            BY <1>n, <1>14
      <4>2. QED
            BY <4>1, <1>2, <1>6
    <3>2. QED
          BY <3>1
  <2>2. Len(p) + 4 <= Len(u)
        BY <1>2, <1>6 DEF n
  <2>3. QED
        BY <2>1, <2>2, <1>1, <1>6, <1>14, LineFrame DEF n
<1>15. PayloadOf(line) = p
  <2>0. /\ t[n + 3] # Star /\ t[n + 4] # Star /\ t[n + 3] \notin White /\ t[n + 4] \notin White
        BY <1>2, HexDigitsAre, Zenon
  <2>1. CASE c = t[at]
    <3>1. \A i \in 1..(n + 6) : u[i] = t[i]
          BY <1>6, <2>1
    <3>2. e = n + 6
          BY <3>1, <1>3, <1>7
    <3>3. /\ 1 \in 1..(n + 6) /\ n + 2 \in 1..(n + 6) /\ n + 3 \in 1..(n + 6)
          /\ n + 4 \in 1..(n + 6) /\ n + 5 \in 1..(n + 6)
          BY ONLY <1>n
    <3>4. u[1] = Dollar /\ u[n + 2] = Star /\ u[n + 3] = t[n + 3] /\ u[n + 4] = t[n + 4]
          /\ u[n + 5] = CR
          BY <3>1, <3>3, <1>2
    <3>5. n + 4 \in 1..(e - 1) /\ \A i \in ((n + 4) + 1)..(e - 1) : i = n + 5
          BY <1>n, <3>2
    <3>6. line = SubSeq(u, 1, n + 4)
      <4>1. \A i \in ((n + 4) + 1)..(e - 1) : u[i] \in White
            BY <3>4, <3>5, Marked
      <4>2. QED
            BY <3>4, <3>5, <4>1, <1>13, <2>0, Marked
    <3>7. \A i \in 1..n : u[1 + i] = p[i]
      <4>1. ASSUME NEW i \in 1..n PROVE u[1 + i] = p[i]
        <5>1. 1 + i \in 1..(n + 6)
              BY <1>2
        <5>2. QED
              BY <5>1, <3>1, <1>2
      <4>2. QED
            BY <4>1
    <3>8. Len(p) + 4 <= Len(u)
          BY <1>2, <1>6 DEF n
    <3>9. QED
          BY <3>4, <3>6, <3>7, <3>8, <2>0, <1>1, <1>6, LineFrame DEF n
  <2>2. CASE c # t[at]
    <3>1. at # 1 /\ at # n + 2
      <4>1. PICK i \in (b + 1)..(e - 1) : u[i] = Dollar
            BY <1>10
      <4>2. PICK j \in (b + 1)..(e - 1) : u[j] = Star
            BY <1>10
      <4>3. i \in 1..(n + 6) /\ j \in 1..(n + 6)
            BY <1>n, <1>en, <1>11
      <4>4. at # 1
            BY <4>1, <4>3, <2>2, <1>2, <1>3, <1>6
      <4>5. at # n + 2
            BY <4>2, <4>3, <2>2, <1>2, <1>3, <1>6
      <4>6. QED
            BY <4>4, <4>5
    <3>2. u[1] = Dollar /\ u[n + 2] = Star
      <4>1. 1 \in 1..(n + 6) /\ n + 2 \in 1..(n + 6)
            BY <1>2
      <4>2. QED
            BY <4>1, <3>1, <1>2, <1>6
    <3>3. u[1] \notin White /\ u[n + 2] \notin White
          BY <3>2, Marked
    <3>4. /\ n + 3 # at => u[n + 3] = t[n + 3]
          /\ n + 4 # at => u[n + 4] = t[n + 4]
          /\ n + 5 # at => u[n + 5] = CR
          /\ n + 1 # at => u[n + 1] # Star
      <4>1. /\ n + 3 \in 1..(n + 6) /\ n + 4 \in 1..(n + 6) /\ n + 5 \in 1..(n + 6)
            /\ n + 1 \in 1..(n + 6) /\ n + 1 # n + 2
            BY <1>n
      <4>2. QED
            BY <4>1, <1>2, <1>3, <1>6
    <3>5. e = at \/ (e = n + 6 /\ at # n + 6)
      <4>1. e # at => e = n + 6
            BY <1>3, <1>6, <1>7
      <4>2. CASE e = at
            BY <4>2
      <4>3. CASE e # at
            BY <4>1, <4>3
      <4>4. QED
            BY <4>2, <4>3
    <3>6. CASE e = at
      <4>0. at # n + 6
            BY <3>6, <2>2, <1>2, <1>6, <1>7
      <4>1. PICK j \in (b + 1)..(e - 1) : u[j] = Star
            BY <1>10
      <4>2. j \in 1..(n + 6) /\ j # at /\ j < at
            BY <3>6, <1>n, <1>en, <1>11
      <4>3. j = n + 2
            BY <4>1, <4>2, <1>3, <1>6
      <4>4. at = n + 3 \/ at = n + 4 \/ at = n + 5
            BY <4>0, <4>2, <4>3, <1>0, <1>n
      <4> DEFINE z == at - 1
      <4>5. /\ z \in 1..(e - 1) /\ \A i \in (z + 1)..(e - 1) : FALSE
            BY <4>4, <3>6, <1>n
      <4>6. u[z] \notin White
        <5>1. CASE at = n + 3
          <6>1. z = n + 2
                BY <5>1, <1>n
          <6>2. QED
                BY <6>1, <3>3
        <5>2. CASE at = n + 4
          <6>1. z = n + 3 /\ n + 3 # at
                BY <5>2, <1>n
          <6>2. QED
                BY <6>1, <3>4, <2>0
        <5>3. CASE at = n + 5
          <6>1. z = n + 4 /\ n + 4 # at
                BY <5>3, <1>n
          <6>2. QED
                BY <6>1, <3>4, <2>0
        <5>4. QED
              BY <4>4, <5>1, <5>2, <5>3
      <4> HIDE DEF z
      <4>7. line = SubSeq(u, 1, z) /\ z > 4 /\ u[z - 2] = Star /\ u[z - 1] # Star /\ u[z] # Star
            BY <4>5, <4>6, <3>3, <1>13
      <4>z. z > 4 /\ z \in Int
            BY <4>7, <4>4, <1>n DEF z
      <4>8. z = n + 4
        <5>1. z - 2 \in 1..(n + 6) /\ z - 2 # at
              BY <4>4, <4>z, <1>n DEF z
        <5>2. z - 2 = n + 2
              BY <5>1, <4>7, <1>3, <1>6
        <5>3. QED
              BY <5>2, <4>z, <1>n
      <4>9. z - 1 = n + 3 /\ at \notin 2..(n + 1)
            BY <4>4, <4>8, <1>n
      <4>10. QED
             BY <4>7, <4>8, <4>9, <3>2, <1>14
    <3>7. CASE e = n + 6 /\ at # n + 6
      <4>1. /\ n + 3 \in 1..(e - 1) /\ n + 4 \in 1..(e - 1) /\ n + 5 \in 1..(e - 1)
            /\ \A i \in ((n + 3) + 1)..(e - 1) : i = n + 4 \/ i = n + 5
            /\ \A i \in ((n + 4) + 1)..(e - 1) : i = n + 5
            /\ \A i \in ((n + 5) + 1)..(e - 1) : FALSE
            BY <3>7, <1>2
      <4>2. at \in 2..(n + 1) \/ at = n + 3 \/ at = n + 4 \/ at = n + 5
            BY <3>1, <3>7, <1>2, <1>6
      <4>3. CASE at \in 2..(n + 1)
        <5>1. n + 3 # at /\ n + 4 # at /\ n + 5 # at
              BY <4>3, <1>n
        <5>2. u[n + 3] = t[n + 3] /\ u[n + 4] = t[n + 4] /\ u[n + 5] \in White
              BY <5>1, <3>4, Marked
        <5>3. line = SubSeq(u, 1, n + 4)
          <6>1. \A i \in ((n + 4) + 1)..(e - 1) : u[i] \in White
                BY <4>1, <5>2
          <6>2. QED
                BY <4>1, <5>2, <6>1, <3>3, <2>0, <1>13
        <5> DEFINE k == at - 1
                   q == [p EXCEPT ![k] = c]
        <5>4. k \in 1..n /\ 1 + k = at
              BY <4>3, <1>n
        <5>5. /\ q \in Seq(Nat) /\ Len(q) = n /\ q[k] = c
              /\ \A i \in 1..n : i # k => q[i] = p[i]
          <6> HIDE DEF k
          <6>1. DOMAIN p = 1..n /\ Len(p) = n
                BY <1>1, SeqAt DEF n
          <6>2. q \in Seq(Nat) /\ Len(q) = Len(p)
                BY <6>1, <5>4, <1>1, <1>5, ExceptSeq
          <6>3. QED
                BY <6>1, <6>2, <5>4
        <5> HIDE DEF k, q
        <5>6. \A i \in 1..n : u[1 + i] = q[i]
          <6>1. ASSUME NEW i \in 1..n PROVE u[1 + i] = q[i]
            <7>1. 1 + i \in 1..(n + 6) /\ (1 + i = at <=> i = k)
                  BY <5>4, <1>n
            <7>2. CASE i = k
                  BY <7>1, <7>2, <5>4, <5>5, <1>6
            <7>3. CASE i # k
                  BY <7>1, <7>3, <5>5, <1>2, <1>6
            <7>4. QED
                  BY <7>2, <7>3
          <6>2. QED
                BY <6>1
        <5>7. Upper(<<u[n + 3], u[n + 4]>>) = Hex(Checksum(q))
          <6>1. /\ Len(q) + 4 <= Len(u) /\ q # <<>> /\ u[Len(q) + 2] = Star
                /\ u[Len(q) + 3] = t[n + 3] /\ u[Len(q) + 4] = t[n + 4]
                BY <5>2, <5>5, <3>2, <1>2, <1>4, <1>6, EmptySeq
          <6>2. \A i \in 1..Len(q) : u[1 + i] = q[i]
                BY <5>5, <5>6
          <6>3. SubSeq(u, 1, Len(q) + 4) = line
                BY <5>3, <5>5
          <6>4. IsFrame(line) <=> Upper(<<u[Len(q) + 3], u[Len(q) + 4]>>) = Hex(Checksum(q))
                BY <6>1, <6>2, <6>3, <5>5, <3>2, <2>0, <1>6, LineFrame
          <6>5. QED
                BY <6>4, <5>5, <1>9
        <5>8. Hex(Checksum(p)) = Hex(Checksum(q))
          <6>1. Upper(<<t[n + 3], t[n + 4]>>) = <<t[n + 3], t[n + 4]>>
            <7>1. Upper(<<Hex(Checksum(p))[1], Hex(Checksum(p))[2]>>) = Hex(Checksum(p))
                  BY <1>1, ChecksumType, UpperHex
            <7>2. Hex(Checksum(p))[1] = t[n + 3] /\ Hex(Checksum(p))[2] = t[n + 4]
                  BY <1>2
            <7>3. QED
                  BY <7>1, <7>2, <1>2
          <6>2. QED
                BY <6>1, <5>2, <5>7, <1>2
        <5>9. Checksum(p) = Checksum(q)
              BY <5>5, <5>8, <1>1, ChecksumType, HexTells
        <5>10. Differ(p, q, k)
          <6>1. DOMAIN p = 1..n /\ Len(p) = n
                BY <1>1, SeqAt DEF n
          <6>2. QED
                BY <6>1, <5>4, <5>5 DEF Differ
        <5>11. p[k] \in Ascii /\ p[k] # c
          <6>1. p[k] \in Ascii
                BY <5>4, <1>1, SeqAt DEF n
          <6>2. t[at] = p[k]
                BY <5>4, <1>2
          <6>3. QED
                BY <6>1, <6>2, <2>2
        <5>12. Checksum(p) # Checksum(q)
          <6>1. CASE c = Replacement
                BY <6>1, <5>5, <5>10, <5>11, <1>1, ReplacementShows
          <6>2. CASE c \in Ascii
                BY <6>2, <5>5, <5>10, <5>11, <1>1, AsciiDamageShows
          <6>3. QED
                BY <6>1, <6>2, <1>0
        <5>13. QED
               BY <5>9, <5>12
      <4>4. CASE at = n + 3
        <5>1. n + 4 # at /\ n + 5 # at /\ at \notin 2..(n + 1)
              BY <4>4, <1>2
        <5>2. u[n + 4] = t[n + 4] /\ u[n + 5] \in White
              BY <5>1, <3>4, Marked
        <5>3. \A i \in ((n + 4) + 1)..(e - 1) : u[i] \in White
              BY <4>1, <5>2
        <5>4. line = SubSeq(u, 1, n + 4) /\ u[(n + 4) - 1] # Star /\ u[n + 4] # Star
              BY <4>1, <5>2, <5>3, <3>3, <2>0, <1>13
        <5>5. (n + 4) - 1 = n + 3
              BY <1>2
        <5>6. QED
              BY <5>1, <5>4, <5>5, <3>2, <1>14
      <4>5. CASE at = n + 4
        <5>1. n + 3 # at /\ n + 5 # at /\ at \notin 2..(n + 1) /\ n + 1 # at
              BY <4>5, <1>2
        <5>2. u[n + 3] = t[n + 3] /\ u[n + 5] \in White /\ u[n + 1] # Star
              BY <5>1, <3>4, Marked
        <5>3. CASE u[n + 4] \in White
          <6>1. \A i \in ((n + 3) + 1)..(e - 1) : u[i] \in White
                BY <4>1, <5>2, <5>3
          <6>2. u[(n + 3) - 2] = Star
                BY <4>1, <5>2, <6>1, <3>3, <2>0, <1>13
          <6>3. (n + 3) - 2 = n + 1
                BY <1>2
          <6>4. QED
                BY <5>2, <6>2, <6>3
        <5>4. CASE u[n + 4] \notin White
          <6>1. \A i \in ((n + 4) + 1)..(e - 1) : u[i] \in White
                BY <4>1, <5>2
          <6>2. line = SubSeq(u, 1, n + 4) /\ u[(n + 4) - 1] # Star /\ u[n + 4] # Star
                BY <4>1, <5>4, <6>1, <3>3, <1>13
          <6>3. (n + 4) - 1 = n + 3
                BY <1>2
          <6>4. QED
                BY <5>1, <6>2, <6>3, <3>2, <1>14
        <5>5. QED
              BY <5>3, <5>4
      <4>6. CASE at = n + 5
        <5>1. n + 3 # at /\ n + 4 # at /\ at \notin 2..(n + 1)
              BY <4>6, <1>2
        <5>2. u[n + 3] = t[n + 3] /\ u[n + 4] = t[n + 4]
              BY <5>1, <3>4
        <5>3. CASE u[n + 5] \in White
          <6>1. \A i \in ((n + 4) + 1)..(e - 1) : u[i] \in White
                BY <4>1, <5>3
          <6>2. line = SubSeq(u, 1, n + 4)
                BY <4>1, <5>2, <6>1, <3>3, <2>0, <1>13
          <6>3. QED
                BY <5>1, <5>2, <6>2, <3>2, <2>0, <1>14
        <5>4. CASE u[n + 5] \notin White
          <6>1. \A i \in ((n + 5) + 1)..(e - 1) : u[i] \in White
                BY <4>1
          <6>2. u[(n + 5) - 2] = Star
                BY <4>1, <5>4, <6>1, <3>3, <1>13
          <6>3. (n + 5) - 2 = n + 3
                BY <1>2
          <6>4. QED
                BY <5>2, <6>2, <6>3, <2>0
        <5>5. QED
              BY <5>3, <5>4
      <4>7. QED
            BY <4>2, <4>3, <4>4, <4>5, <4>6
    <3>8. QED
          BY <3>5, <3>6, <3>7
  <2>3. QED
        BY <2>1, <2>2
<1>16. QED
       BY <1>11, <1>15 DEF line, s

-----------------------------------------------------------------------------
(* The command *)

\* With at most one byte beyond ASCII every byte is decoded alone.
LEMMA DecodeLone ==
    ASSUME NEW w \in Seq(Byte), NEW k, \A i \in 1..Len(w) : i # k => w[i] < 128
    PROVE  Decode(w) = [i \in DOMAIN w |-> Alone(w[i])]
<1> DEFINE t == [i \in DOMAIN w |-> Alone(w[i])]
<1>1. DOMAIN w = 1..Len(w) /\ Len(w) \in Nat /\ \A i \in 1..Len(w) : w[i] \in Nat
      BY SeqAt, ByteAt
<1>2. ASSUME NEW i \in 1..Len(w)
      PROVE  CharsAt(w, i) = <<Alone(w[i])>>
  <2>0. i \in Nat /\ i - 1 # i /\ i + 1 # i
        BY <1>1
  <2>1. \A j \in {i - 1, i + 1} : Continues(w, j) \/ Begins(w, j) => j = k
    <3>1. \A j : Continues(w, j) \/ Begins(w, j) => j \in 1..Len(w) /\ ~(w[j] < 128)
          BY <1>1, Marks, Zenon
    <3>2. QED
          BY <3>1
  <2>2. w[i] < 128 \/ i = k
        BY <1>2
  <2>3. ~IsInside(w, i)
    <3>1. SUFFICES ASSUME IsInside(w, i) PROVE FALSE
          OBVIOUS
    <3>2. Continues(w, i) /\ (Begins(w, i - 1) \/ Continues(w, i - 1))
          BY <3>1 DEF IsInside
    <3>3. ~(w[i] < 128)
          BY <3>2, Marks
    <3>4. QED
          BY <3>2, <3>3, <2>0, <2>1, <2>2
  <2>4. ~(w[i] < 128) => ~IsWhole(w, i)
        BY <2>0, <2>1, <2>2 DEF IsWhole
  <2>5. QED
        BY <2>3, <2>4, CharsCases DEF Alone
<1>3. [i \in DOMAIN w |-> CharsAt(w, i)] = [i \in DOMAIN t |-> <<t[i]>>]
      BY <1>1, <1>2
<1>4. t \in Seq(Nat)
  <2>1. \A i \in 1..Len(w) : Alone(w[i]) \in Nat
        BY <1>1 DEF Alone, Replacement
  <2>2. QED
        BY <1>1, <2>1
<1>5. QED
      BY <1>3, <1>4, Singles DEF Decode

\* A plain line with a byte damaged is the line with a character damaged.
LEMMA DamagedText ==
    ASSUME NEW p, Plain(p), NEW at \in DOMAIN Encode(BuildLine(p)), NEW byte \in Byte
    PROVE  /\ at \in 1..(Len(p) + 6)
           /\ Alone(byte) \in Ascii \cup {Replacement}
           /\ Decode([Encode(BuildLine(p)) EXCEPT ![at] = byte])
                = [BuildLine(p) EXCEPT ![at] = Alone(byte)]
<1> DEFINE t == BuildLine(p)
           w == [t EXCEPT ![at] = byte]
<1>1. t \in Seq(Nat) /\ Len(t) = Len(p) + 6 /\ DOMAIN t = 1..(Len(p) + 6) /\ DOMAIN t = 1..Len(t)
      BY AsciiSeq, LineAt, SeqAt DEF Plain
<1>2. \A i \in DOMAIN t : t[i] \in Ascii
      BY <1>1, LineMarks
<1>3. t \in Seq(Ascii)
      BY <1>1, <1>2
<1>4. Encode(t) = t
      BY <1>3, EncodeAscii
<1>5. at \in 1..Len(t) /\ at \in DOMAIN t
      BY <1>1, <1>4
<1>6. \A i \in DOMAIN t : t[i] \in Byte /\ t[i] < 128 /\ t[i] \in Nat
      BY <1>2, Ranges, Zenon
<1>7. t \in Seq(Byte)
      BY <1>1, <1>6
<1> HIDE DEF t
<1>8. w \in Seq(Byte) /\ Len(w) = Len(t)
      BY <1>5, <1>7, ExceptSeq
<1>9. DOMAIN w = DOMAIN t /\ w[at] = byte /\ \A i \in DOMAIN t : i # at => w[i] = t[i]
      BY <1>5
<1>10. Decode(w) = [i \in DOMAIN w |-> Alone(w[i])]
  <2>1. \A i \in 1..Len(w) : i # at => w[i] < 128
        BY <1>1, <1>6, <1>8, <1>9
  <2> HIDE DEF w
  <2>2. QED
        BY <1>8, <2>1, DecodeLone
<1>11. [i \in DOMAIN w |-> Alone(w[i])] = [t EXCEPT ![at] = Alone(byte)]
  <2>1. \A i \in DOMAIN t : i # at => Alone(w[i]) = t[i]
        BY <1>6, <1>9 DEF Alone
  <2> DEFINE x == [i \in DOMAIN w |-> Alone(w[i])]
  <2>2. DOMAIN x = DOMAIN t /\ \A i \in DOMAIN t : x[i] = IF i = at THEN Alone(byte) ELSE t[i]
        BY <1>9, <2>1
  <2>3. x = [i \in DOMAIN t |-> IF i = at THEN Alone(byte) ELSE t[i]]
        BY <2>2
  <2>4. QED
        BY <2>3
<1>12. Alone(byte) \in Ascii \cup {Replacement}
       BY Ranges DEF Alone, Ascii, Byte
<1>13. QED
       BY <1>1, <1>4, <1>5, <1>10, <1>11, <1>12 DEF t

Letters == (65..90) \cup {Comma}

\* Letters and commas are no control characters.
LEMMA LettersAre ==
    \A c \in Letters : c \in Nat /\ ~IsControl(c)
BY DEF Letters, Comma, IsControl

\* Words joined by a comma are over the same characters.
LEMMA JoinedLetters ==
    ASSUME NEW S, Comma \in S, NEW a \in Seq(S), NEW b \in Seq(S)
    PROVE  Joined(a, b) \in Seq(S) /\ Joined(a, b) # <<>>
<1>1. <<Comma>> \in Seq(S) /\ Len(<<Comma>>) = 1
      OBVIOUS
<1>2. a \o <<Comma>> \in Seq(S) /\ Len(a \o <<Comma>>) = Len(a) + 1 /\ Len(a) \in Nat
      BY <1>1, ConcatAt
<1>3. /\ (a \o <<Comma>>) \o b \in Seq(S)
      /\ Len((a \o <<Comma>>) \o b) = Len(a \o <<Comma>>) + Len(b) /\ Len(b) \in Nat
      BY <1>2, ConcatAt
<1>4. Len((a \o <<Comma>>) \o b) > 0
      BY <1>2, <1>3
<1>5. QED
      BY <1>3, <1>4, EmptySeq DEF Joined

\* The verb that is read out of a broken line is a text of the letters of a verb.
LEMMA SalvagedVerb ==
    ASSUME NEW line \in Seq(Nat), IsSalvageable(line)
    PROVE  VerbOfBrokenLine(line) \in Seq(Letters)
<1> DEFINE q == PayloadOf(line)
           v == VerbOfBrokenLine(line)
           n == EndOf(line)
<1>1. line[1] = Dollar /\ n > 0 /\ ToSet(v) \subseteq 65..90
      BY DEF IsSalvageable, IsVerb
<1>2. n \in DOMAIN line /\ line[n] = Star
      BY <1>1, EndOfStar
<1>3. DOMAIN line = 1..Len(line) /\ Len(line) \in Nat
      BY SeqAt
<1>4. n # 1
      BY <1>1, <1>2, Marked
<1>5. q \in Seq(Nat)
  <2> HIDE DEF n
  <2>1. 2 \in Nat /\ n - 1 \in Nat /\ 1 <= 2 /\ 2 <= (n - 1) + 1 /\ n - 1 <= Len(line)
        BY <1>2, <1>3, <1>4
  <2>2. SubSeq(line, 2, n - 1) \in Seq(Nat)
        BY <2>1, SubSeqAt
  <2>3. QED
        BY <2>2 DEF PayloadOf, n
<1> HIDE DEF q, v
<1>6. v \in Seq(Nat)
  <2> DEFINE S == {Comma}
  <2>0. v = Pieces(q, S)[0]
        BY DEF v, VerbOfBrokenLine, Tokens, q
  <2> HIDE DEF S
  <2>1. 0 \in DOMAIN Pieces(q, S)
        BY PiecesDomain
  <2>2. PICK e : IsPiece(q, S, 0, e)
        BY <1>5, <2>1, PieceExists
  <2>3. Pieces(q, S)[0] = SubSeq(q, 0 + 1, e - 1)
        BY <1>5, <2>2, PieceIs
  <2>4. Len(q) \in Nat /\ e \in 1..(Len(q) + 1)
    <3>1. DOMAIN q = 1..Len(q) /\ Len(q) \in Nat
          BY <1>5, SeqAt
    <3>2. e \in DOMAIN q \/ e = Len(q) + 1
          BY <2>2 DEF IsPiece, Cuts
    <3>3. QED
          BY <3>1, <3>2
  <2>5. 1 \in Nat /\ e - 1 \in Nat /\ 1 <= 1 /\ 1 <= (e - 1) + 1 /\ e - 1 <= Len(q)
        BY <2>4
  <2>6. SubSeq(q, 1, e - 1) \in Seq(Nat)
        BY <1>5, <2>5, SubSeqAt
  <2>7. QED
        BY <2>0, <2>3, <2>6
<1>7. /\ Len(v) \in Nat /\ v = [i \in 1..Len(v) |-> v[i]]
      /\ \A i \in 1..Len(v) : v[i] \in Letters
  <2>1. DOMAIN v = 1..Len(v) /\ Len(v) \in Nat
        BY <1>6, SeqAt
  <2>2. \A i \in DOMAIN v : v[i] \in 65..90
        BY <1>1 DEF ToSet
  <2>3. v = [i \in 1..Len(v) |-> v[i]]
        BY <1>6, <2>1
  <2>4. QED
        BY <2>1, <2>2, <2>3 DEF Letters
<1>8. QED
      BY <1>7 DEF v

\* A payload of such letters can be sent, and is read as a frame.
LEMMA LettersAreRead ==
    ASSUME NEW r \in Seq(Letters), r # <<>>
    PROVE  ~Malformed(r) /\ IsFrame(Strip(BuildLine(r)))
<1>1. DOMAIN r = 1..Len(r) /\ Len(r) \in Nat /\ \A i \in 1..Len(r) : r[i] \in Letters
      BY SeqAt
<1>2. \A i \in 1..Len(r) : r[i] \in Nat /\ ~IsControl(r[i])
      BY <1>1, LettersAre, Zenon
<1>3. ~Malformed(r)
      BY <1>1, <1>2 DEF Malformed
<1>4. r \in Seq(Nat)
      BY <1>1, <1>2
<1>5. IsFrame(Strip(SubSeq(BuildLine(r), 1, Len(r) + 6)))
      BY <1>4, BuiltIsRead
<1>6. BuildLine(r) \in Seq(Nat) /\ Len(BuildLine(r)) = Len(r) + 6
      BY <1>4, LineAt
<1>7. SubSeq(BuildLine(r), 1, Len(r) + 6) = BuildLine(r)
      BY <1>6
<1>8. QED
      BY <1>3, <1>5, <1>7

\* The refusal of a broken line can be built and parsed.
LEMMA RefusalIsRead ==
    ASSUME NEW line \in Seq(Nat), IsSalvageable(line)
    PROVE  ~Malformed(Refusal(line)) /\ IsFrame(Strip(BuildLine(Refusal(line))))
<1>1. Comma \in Letters /\ SACK \in Seq(Letters) /\ ERR \in Seq(Letters) /\ CHECKSUM \in Seq(Letters)
  <2>1. /\ 67 \in Letters /\ 65 \in Letters /\ 83 \in Letters /\ 75 \in Letters /\ 69 \in Letters
        /\ 82 \in Letters /\ 72 \in Letters /\ 77 \in Letters /\ 85 \in Letters /\ Comma \in Letters
        BY DEF Letters
  <2>2. QED
        BY <2>1 DEF SACK, ERR, CHECKSUM
<1>2. VerbOfBrokenLine(line) \in Seq(Letters)
      BY SalvagedVerb
<1>3. Refusal(line) \in Seq(Letters) /\ Refusal(line) # <<>>
      BY <1>1, <1>2, JoinedLetters DEF Refusal
<1>4. QED
      BY <1>3, LettersAreRead

\* A line is a text, and so is what Strip leaves of it.
LEMMA LineType ==
    ASSUME NEW u \in Seq(Nat), NEW b, NEW e, IsLine(u, b, e)
    PROVE  /\ SubSeq(u, b + 1, e - 1) \in Seq(Nat) /\ Strip(SubSeq(u, b + 1, e - 1)) \in Seq(Nat)
           /\ b \in 0..Len(u) /\ e \in 1..Len(u) /\ b < e
<1>1. DOMAIN u = 1..Len(u) /\ Len(u) \in Nat
      BY SeqAt
<1>2. /\ b \in {0} \cup DOMAIN u /\ e \in DOMAIN u /\ b < e
      BY DEF IsLine, IsPiece, Cuts
<1>3. b + 1 \in Nat /\ e - 1 \in Nat /\ 1 <= b + 1 /\ b + 1 <= (e - 1) + 1 /\ e - 1 <= Len(u)
      BY <1>1, <1>2
<1>4. SubSeq(u, b + 1, e - 1) \in Seq(Nat)
      BY <1>3, SubSeqAt
<1>5. Strip(SubSeq(u, b + 1, e - 1)) \in Seq(Nat)
      BY <1>4, StripType
<1>6. QED
      BY <1>1, <1>2, <1>4, <1>5

\* A damaged byte is a byte.
LEMMA DamageIsByte ==
    \A byte \in Damages : byte \in Byte
<1>1. \A byte \in Damages : byte \in (0..191) \cup (225..236)
      BY WireAssumption
<1>2. (0..191) \cup (225..236) \subseteq 0..255
      OBVIOUS
<1>3. QED
      BY <1>1, <1>2 DEF Byte

\* One damaged byte of a plain payload's line: it is heard as sent or not at all.
LEMMA PlainIsHeardOrRefused ==
    ASSUME NEW p, Plain(p)
    PROVE  HeardOrRefused(p)
<1> DEFINE t == BuildLine(p)
           w == Encode(t)
<1>1. SUFFICES ASSUME NEW at \in DOMAIN w, NEW byte \in Damages
               PROVE  LET pieces == ServerPieces([w EXCEPT ![at] = byte]) IN
                      /\ Frames(pieces) = {} \/ OnlyFrame(pieces, p)
                      /\ \A line \in Lines(pieces) : ~IsFrame(line) /\ IsSalvageable(line) =>
                            LET reply == Strip(BuildLine(Refusal(line)))
                            IN  ~Malformed(Refusal(line)) /\ IsFrame(reply)
      BY DEF HeardOrRefused
<1>2. byte \in Byte
      BY DamageIsByte
<1> DEFINE c == Alone(byte)
           u == [t EXCEPT ![at] = c]
           pieces == Ended(Pieces(u, {LF}))
<1>3. at \in 1..(Len(p) + 6) /\ c \in Ascii \cup {Replacement}
      /\ Decode([w EXCEPT ![at] = byte]) = u
      BY <1>2, DamagedText
<1>4. ServerPieces([w EXCEPT ![at] = byte]) = pieces
      BY <1>3 DEF ServerPieces
<1>5. u \in Seq(Nat)
  <2>1. t \in Seq(Nat) /\ Len(t) = Len(p) + 6
        BY AsciiSeq, LineAt DEF Plain
  <2>2. c \in Nat
        BY <1>3, Ranges DEF Replacement
  <2>3. at \in 1..Len(t)
        BY <1>3, <2>1
  <2> HIDE DEF t, c
  <2>4. QED
        BY <2>1, <2>2, <2>3, ExceptSeq
<1>6. \A b, e : IsLine(u, b, e) /\ IsFrame(Strip(SubSeq(u, b + 1, e - 1)))
                   => b = 0 /\ PayloadOf(Strip(SubSeq(u, b + 1, e - 1))) = p
  <2>1. SUFFICES ASSUME NEW b, NEW e, IsLine(u, b, e), IsFrame(Strip(SubSeq(u, b + 1, e - 1)))
                 PROVE  b = 0 /\ PayloadOf(Strip(SubSeq(u, b + 1, e - 1))) = p
        OBVIOUS
  <2>2. FrameOfDamaged(p, at, c, u, b, e)
        BY <1>3, <2>1 DEF FrameOfDamaged
  <2>3. QED
        BY <2>2, DamagedLine, Zenon
<1> HIDE DEF t, u, c
<1>7. \A b \in Frames(pieces) : b = 0 /\ PayloadOf(Strip(pieces[b])) = p
  <2>1. SUFFICES ASSUME NEW b \in Frames(pieces) PROVE b = 0 /\ PayloadOf(Strip(pieces[b])) = p
        OBVIOUS
  <2>2. b \in DOMAIN pieces /\ IsFrame(Strip(pieces[b]))
        BY <2>1 DEF Frames
  <2> DEFINE S == {LF}
             q == Pieces(u, S)
  <2>3. /\ q[b] = pieces[b]
        /\ \E e : IsPiece(u, S, b, e) /\ e \in DOMAIN u
    <3>1. b \in DOMAIN Ended(q) /\ pieces[b] = Ended(q)[b]
          BY <2>2
    <3> HIDE DEF S
    <3>2. QED
          BY <1>5, <3>1, EndedAre
  <2>4. PICK e : IsPiece(u, S, b, e) /\ e \in DOMAIN u
        BY <2>3
  <2>5. pieces[b] = SubSeq(u, b + 1, e - 1)
    <3>1. IsPiece(u, {LF}, b, e)
          BY <2>4
    <3>2. Pieces(u, {LF})[b] = SubSeq(u, b + 1, e - 1)
          BY <1>5, <3>1, FeedPieceIs
    <3>3. QED
          BY <2>3, <3>2
  <2>6. IsLine(u, b, e)
        BY <2>4 DEF IsLine
  <2>7. IsFrame(Strip(SubSeq(u, b + 1, e - 1)))
        BY <2>2, <2>5
  <2>8. QED
        BY <2>5, <2>6, <2>7, <1>6
<1>8. Frames(pieces) = {} \/ OnlyFrame(pieces, p)
  <2>1. SUFFICES ASSUME NEW b \in Frames(pieces) PROVE OnlyFrame(pieces, p)
        OBVIOUS
  <2>2. b \in DOMAIN pieces /\ b = 0 /\ PayloadOf(Strip(pieces[b])) = p
        BY <2>1, <1>7 DEF Frames
  <2>3. Frames(pieces) = {b}
        BY <2>1, <2>2, <1>7
  <2>4. QED
        BY <2>2, <2>3 DEF OnlyFrame
<1>9. ASSUME NEW line \in Lines(pieces), IsSalvageable(line)
      PROVE  ~Malformed(Refusal(line)) /\ IsFrame(Strip(BuildLine(Refusal(line))))
  <2>1. line \in CompleteLines(u)
        BY <1>9 DEF CompleteLines
  <2>2. PICK b, e : IsLine(u, b, e) /\ line = Strip(SubSeq(u, b + 1, e - 1))
        BY <2>1, <1>5, LinesAre
  <2>3. line \in Seq(Nat)
        BY <2>2, <1>5, LineType
  <2>4. QED
        BY <2>3, <1>9, RefusalIsRead
<1>10. QED
       BY <1>4, <1>8, <1>9

-----------------------------------------------------------------------------
(* One call, one line *)

\* A text without control characters is no line feed, and of the line breaks
\* only one of the separators.
LEMMA NoControl ==
    /\ \A c : c \in LineBreaks => IsControl(c) \/ c \in Separators
    /\ \A c : c \in Separators => c \in LineBreaks
    /\ IsControl(LF) /\ LF \in LineBreaks /\ CR \in LineBreaks
    /\ Dollar \notin LineBreaks /\ Star \notin LineBreaks
    /\ \A c \in HexDigits : c \notin LineBreaks
BY DEF LineBreaks, Separators, IsControl, LF, CR, Dollar, Star, HexDigits

\* What is in the line of a payload without control characters.
LEMMA WellFormedLine ==
    ASSUME NEW p \in Seq(Nat), p # <<>>, ~Malformed(p)
    PROVE  LET t == BuildLine(p)
               n == Len(p)
           IN  /\ t \in Seq(Nat) /\ n \in Nat /\ Len(t) = n + 6
               /\ t[n + 5] \in LineBreaks /\ t[n + 6] \in LineBreaks /\ t[n + 6] = LF
               /\ t[n + 5] # LF /\ t[n + 6] \in White
               /\ \A i \in 1..(n + 4) : /\ t[i] # LF
                                        /\ t[i] \in LineBreaks => t[i] \in ToSet(p) \cap Separators
<1> DEFINE t == BuildLine(p)
           n == Len(p)
<1>1. /\ t \in Seq(Nat) /\ n \in Nat /\ Len(t) = n + 6
      /\ t[1] = Dollar /\ t[n + 2] = Star /\ t[n + 5] = CR /\ t[n + 6] = LF
      /\ \A i \in 1..n : t[1 + i] = p[i]
      /\ t[n + 3] \in HexDigits /\ t[n + 4] \in HexDigits
      BY LineAt
<1>2. \A i \in 1..n : p[i] \in ToSet(p) /\ ~IsControl(p[i])
      BY SeqAt DEF Malformed, ToSet
<1> HIDE DEF t, n
<1>3. ASSUME NEW i \in 1..(n + 4)
      PROVE  t[i] # LF /\ (t[i] \in LineBreaks => t[i] \in ToSet(p) \cap Separators)
  <2>1. CASE i = 1
        BY <2>1, <1>1, Marked, NoControl
  <2>2. CASE i \in 2..(n + 1)
    <3>1. i - 1 \in 1..n /\ 1 + (i - 1) = i
          BY <2>2, <1>1
    <3>2. t[i] = p[i - 1]
          BY <3>1, <1>1
    <3>3. t[i] \in ToSet(p) /\ ~IsControl(t[i])
          BY <3>1, <3>2, <1>2
    <3>4. QED
          BY <3>3, NoControl
  <2>3. CASE i = n + 2
        BY <2>3, <1>1, Marked, NoControl
  <2>4. CASE i = n + 3 \/ i = n + 4
    <3>1. t[i] \in HexDigits
          BY <2>4, <1>1
    <3>2. QED
          BY <3>1, NoControl, HexDigitsAre
  <2>5. QED
        BY <1>1, <2>1, <2>2, <2>3, <2>4
<1>4. QED
      BY <1>1, <1>3, Marked, NoControl DEF t, n

\* The serial line of the board cuts it into the one line that was built ...
LEMMA SerialLine ==
    ASSUME NEW p \in Seq(Nat), p # <<>>, ~Malformed(p)
    PROVE  OnlyFrame(Ended(Pieces(BuildLine(p), {LF})), p)
<1> DEFINE t == BuildLine(p)
           n == Len(p)
           S == {LF}
           q == Pieces(t, S)
           pieces == Ended(q)
<1>1. /\ t \in Seq(Nat) /\ n \in Nat /\ Len(t) = n + 6
      /\ t[n + 5] # LF /\ t[n + 6] = LF
      /\ \A i \in 1..(n + 4) : t[i] # LF
      BY WellFormedLine
<1> HIDE DEF t, n
<1>t. t \in Seq(Nat)
      BY <1>1
<1>2. DOMAIN t = 1..(n + 6) /\ n + 6 \in 1..(n + 6)
      BY <1>1, SeqAt
<1>3. \A i \in 1..(n + 6) : t[i] = LF <=> i = n + 6
  <2>1. \A i \in 1..(n + 6) : i \in 1..(n + 4) \/ i = n + 5 \/ i = n + 6
        BY <1>1
  <2>2. QED
        BY <1>1, <2>1
<1>4. Cuts(t, S) = {n + 6}
      BY <1>2, <1>3 DEF Cuts
<1>5. IsPiece(t, S, 0, n + 6) /\ n + 6 \in DOMAIN t
  <2>1. \A i \in {n + 6} : ~(0 < i /\ i < n + 6)
        BY <1>1
  <2>2. 0 < n + 6
        BY <1>1
  <2>3. QED
        BY <1>2, <1>4, <2>1, <2>2 DEF IsPiece
<1>6. \A b, e : IsPiece(t, S, b, e) /\ e \in DOMAIN t => b = 0
  <2>1. SUFFICES ASSUME NEW b, NEW e, IsPiece(t, S, b, e), e \in DOMAIN t PROVE b = 0
        OBVIOUS
  <2>2. b \in {0} \cup {n + 6} /\ b < e /\ e \in 1..(n + 6)
        BY <2>1, <1>2, <1>4 DEF IsPiece
  <2>3. QED
        BY <2>2, <1>1
<1> HIDE DEF S
<1>7. DOMAIN pieces = {0} /\ pieces[0] = q[0]
  <2>1. 0 \in DOMAIN pieces
        BY <1>1, <1>5, EndedAre
  <2>2. \A b \in DOMAIN pieces : b = 0 /\ pieces[b] = q[b]
        BY <1>1, <1>6, EndedAre
  <2>3. QED
        BY <2>1, <2>2
<1>8. q[0] = SubSeq(t, 1, n + 5)
  <2>1. q[0] = SubSeq(t, 0 + 1, (n + 6) - 1)
    <3> DEFINE e == n + 6
    <3>1. IsPiece(t, S, 0, e)
          BY <1>5
    <3> HIDE DEF e
    <3>2. q[0] = SubSeq(t, 0 + 1, e - 1)
          BY <3>1, <1>t, PieceIs
    <3>3. QED
          BY <3>2 DEF e
  <2>2. 0 + 1 = 1 /\ (n + 6) - 1 = n + 5
        BY <1>1
  <2>3. QED
        BY <2>1, <2>2
<1>9. IsFrame(Strip(q[0])) /\ PayloadOf(Strip(q[0])) = p
  <2>1. n + 5 \in {Len(p) + 4, Len(p) + 5, Len(p) + 6}
        BY DEF n
  <2>2. /\ IsFrame(Strip(SubSeq(BuildLine(p), 1, n + 5)))
        /\ PayloadOf(Strip(SubSeq(BuildLine(p), 1, n + 5))) = p
        BY <2>1, BuiltIsRead
  <2>3. QED
        BY <1>8, <2>2 DEF t
<1> HIDE DEF q, pieces
<1>10. Frames(pieces) = {0}
       BY <1>7, <1>9 DEF Frames
<1>11. OnlyFrame(pieces, p)
       BY <1>7, <1>9, <1>10 DEF OnlyFrame
<1>12. QED
       BY <1>11 DEF pieces, q, S, t

\* ... and so does LoopbackTransport.write if it holds no separator, with two
\* empty lines after it.
LEMMA LoopbackLine ==
    ASSUME NEW p \in Seq(Nat), p # <<>>, ~Malformed(p), ToSet(p) \cap Separators = {}
    PROVE  OnlyFrame(Pieces(BuildLine(p), LineBreaks), p)
<1> DEFINE t == BuildLine(p)
           n == Len(p)
           pieces == Pieces(t, LineBreaks)
<1>1. /\ t \in Seq(Nat) /\ n \in Nat /\ Len(t) = n + 6
      /\ t[n + 5] \in LineBreaks /\ t[n + 6] \in LineBreaks /\ t[n + 6] \in White
      /\ \A i \in 1..(n + 4) : t[i] \notin LineBreaks
      BY WellFormedLine
<1> HIDE DEF t, n
<1>t. t \in Seq(Nat)
      BY <1>1
<1>2. DOMAIN t = 1..(n + 6) /\ n + 5 \in 1..(n + 6)
      BY <1>1, SeqAt
<1>3. \A i \in Cuts(t, LineBreaks) : i = n + 5 \/ i = n + 6
  <2>1. \A i \in 1..(n + 6) : i \in 1..(n + 4) \/ i = n + 5 \/ i = n + 6
        BY <1>1
  <2>2. QED
        BY <1>1, <1>2, <2>1 DEF Cuts
<1>4. n + 5 \in Cuts(t, LineBreaks)
      BY <1>1, <1>2 DEF Cuts
<1>5. DOMAIN pieces = {0} \cup Cuts(t, LineBreaks)
      BY PiecesDomain
<1>6. pieces[0] = SubSeq(t, 1, n + 4)
  <2>1. IsPiece(t, LineBreaks, 0, n + 5)
    <3>1. 0 < n + 5 /\ ~(n + 5 < n + 5) /\ ~(n + 6 < n + 5)
          BY <1>1
    <3>2. QED
          BY <1>3, <1>4, <3>1 DEF IsPiece
  <2>2. pieces[0] = SubSeq(t, 0 + 1, (n + 5) - 1)
    <3> DEFINE e == n + 5
    <3>1. IsPiece(t, LineBreaks, 0, e)
          BY <2>1
    <3> HIDE DEF e
    <3>2. pieces[0] = SubSeq(t, 0 + 1, e - 1)
          BY <3>1, <1>t, PieceIs
    <3>3. QED
          BY <3>2 DEF e
  <2>3. 0 + 1 = 1 /\ (n + 5) - 1 = n + 4
        BY <1>1
  <2>4. QED
        BY <2>2, <2>3
<1>7. IsFrame(Strip(pieces[0])) /\ PayloadOf(Strip(pieces[0])) = p
  <2>1. n + 4 \in {Len(p) + 4, Len(p) + 5, Len(p) + 6}
        BY DEF n
  <2>2. /\ IsFrame(Strip(SubSeq(BuildLine(p), 1, n + 4)))
        /\ PayloadOf(Strip(SubSeq(BuildLine(p), 1, n + 4))) = p
        BY <2>1, BuiltIsRead
  <2>3. QED
        BY <1>6, <2>2 DEF t
<1>8. ASSUME NEW b \in DOMAIN pieces, b # 0
      PROVE  ~IsFrame(Strip(pieces[b]))
  <2>1. PICK e : IsPiece(t, LineBreaks, b, e)
        BY <1>1, PieceExists
  <2>2. pieces[b] = SubSeq(t, b + 1, e - 1)
        BY <1>1, <2>1, PieceIs
  <2>3. b = n + 5 \/ b = n + 6
        BY <1>3, <1>5, <1>8
  <2>4. e \in 1..(n + 7) /\ b < e
    <3>1. b < e /\ (e \in Cuts(t, LineBreaks) \/ e = Len(t) + 1)
          BY <2>1 DEF IsPiece
    <3>2. e = n + 5 \/ e = n + 6 \/ e = n + 7
          BY <3>1, <1>1, <1>3
    <3>3. QED
          BY <3>1, <3>2, <1>1
  <2>5. /\ b + 1 \in Nat /\ e - 1 \in Nat /\ 1 <= b + 1 /\ b + 1 <= (e - 1) + 1
        /\ e - 1 <= Len(t)
        /\ \A i \in 1..((e - 1) - (b + 1) + 1) : (b + 1) + i - 1 = n + 6
        BY <2>3, <2>4, <1>1
  <2>6. /\ DOMAIN pieces[b] = 1..((e - 1) - (b + 1) + 1)
        /\ \A i \in 1..((e - 1) - (b + 1) + 1) : pieces[b][i] = t[(b + 1) + i - 1]
    <3> HIDE DEF pieces
    <3>1. Len(t) \in Nat /\ b + 1 \in Nat /\ e - 1 \in Nat /\ 1 <= b + 1 /\ b + 1 <= (e - 1) + 1
          /\ e - 1 <= Len(t)
          BY <2>5, <1>t
    <3> DEFINE x == b + 1
               y == e - 1
    <3> HIDE DEF x, y
    <3>2. /\ DOMAIN SubSeq(t, x, y) = 1..(y - x + 1)
          /\ \A i \in 1..(y - x + 1) : SubSeq(t, x, y)[i] = t[x + i - 1]
      <4>1. x \in Nat /\ y \in Nat /\ 1 <= x /\ x <= y + 1 /\ y <= Len(t)
            BY <3>1 DEF x, y
      <4>2. QED
            BY <4>1, <1>t, SubSeqAt
    <3>3. QED
          BY <3>2, <2>2 DEF x, y
  <2> DEFINE s == pieces[b]
  <2>7. \A i \in DOMAIN s : s[i] \in White
        BY <2>5, <2>6, <1>1
  <2> HIDE DEF s
  <2>8. Strip(s) = <<>>
        BY <2>7, StripBlank
  <2>9. QED
        BY <2>8 DEF IsFrame, s
<1> HIDE DEF pieces
<1>9. 0 \in DOMAIN pieces
      BY <1>5
<1>10. Frames(pieces) = {0}
       BY <1>7, <1>8, <1>9 DEF Frames
<1>11. OnlyFrame(pieces, p)
       BY <1>7, <1>9, <1>10 DEF OnlyFrame
<1>12. QED
       BY <1>11 DEF pieces, t

\* A sequence is one over any set that holds its elements.
LEMMA Retyped ==
    ASSUME NEW a \in Seq(Nat), NEW S, \A i \in DOMAIN a : a[i] \in S
    PROVE  a \in Seq(S)
<1>1. DOMAIN a = 1..Len(a) /\ Len(a) \in Nat /\ a = [i \in 1..Len(a) |-> a[i]]
      BY SeqAt
<1>2. QED
      BY <1>1

\* Joining adds a comma and nothing else.
LEMMA JoinedHolds ==
    ASSUME NEW a \in Seq(Nat), NEW b \in Seq(Nat)
    PROVE  /\ Joined(a, b) \in Seq(Nat) /\ Joined(a, b) # <<>>
           /\ ToSet(Joined(a, b)) \subseteq ToSet(a) \cup {Comma} \cup ToSet(b)
<1> DEFINE S == ToSet(a) \cup {Comma} \cup ToSet(b)
<1>1. Comma \in S /\ Comma \in Nat
      BY DEF Comma
<1>2. a \in Seq(S) /\ b \in Seq(S)
  <2>1. \A i \in DOMAIN a : a[i] \in S
        BY DEF ToSet
  <2>2. \A i \in DOMAIN b : b[i] \in S
        BY DEF ToSet
  <2> HIDE DEF S
  <2>3. QED
        BY <2>1, <2>2, Retyped
<1>3. Joined(a, b) \in Seq(Nat) /\ Joined(a, b) # <<>>
      BY <1>1, JoinedLetters
<1> HIDE DEF S
<1>4. Joined(a, b) \in Seq(S)
      BY <1>1, <1>2, JoinedLetters
<1> DEFINE w == Joined(a, b)
<1> HIDE DEF w
<1>5. \A x \in ToSet(w) : x \in S
      BY <1>4, SeqAt DEF ToSet, w
<1>6. QED
      BY <1>3, <1>5 DEF S, w

\* The verb is plain.
LEMMA VerbIs ==
    /\ CFG \in Seq(Nat) /\ CFG \in Seq(Ascii)
    /\ \A c \in ToSet(CFG) \cup {Comma} : /\ c \in Ascii /\ c \notin Separators
                                          /\ c # Dollar /\ c # Star
<1>1. 67 \in Ascii /\ 70 \in Ascii /\ 71 \in Ascii /\ Comma \in Ascii
      BY DEF Ascii, Comma
<1>2. CFG \in Seq(Nat) /\ CFG \in Seq(Ascii)
      BY <1>1 DEF CFG
<1>3. ToSet(CFG) = {67, 70, 71}
      BY DEF CFG, ToSet
<1>4. \A c \in {67, 70, 71, Comma} : c \notin Separators /\ c # Dollar /\ c # Star
      BY DEF Comma, Separators, Dollar, Star
<1>5. QED
      BY <1>1, <1>2, <1>3, <1>4

\* What Write notes of a command that can be built.
LEMMA WrittenIsHeard ==
    ASSUME NEW argument \in Arguments, ~Malformed(Joined(CFG, argument))
    PROVE  LET p == Joined(CFG, argument)
           IN  /\ OnlyFrame(Ended(Pieces(BuildLine(p), {LF})), p)
               /\ \/ OnlyFrame(Pieces(BuildLine(p), LineBreaks), p)
                  \/ ToSet(argument) \cap Separators # {}
               /\ IsPlain(argument) => HeardOrRefused(p)
<1> DEFINE p == Joined(CFG, argument)
<1>1. argument \in Seq(Nat)
  <2>1. argument \in Seq(Character)
        BY WireAssumption
  <2>2. \A c \in Character : c \in Nat
        BY DEF Character
  <2>3. QED
        BY <2>1, <2>2
<1>2. /\ p \in Seq(Nat) /\ p # <<>>
      /\ ToSet(p) \subseteq ToSet(CFG) \cup {Comma} \cup ToSet(argument)
      BY <1>1, VerbIs, JoinedHolds
<1> HIDE DEF p
<1>3. ~Malformed(p)
      BY DEF p
<1>4. OnlyFrame(Ended(Pieces(BuildLine(p), {LF})), p)
      BY <1>2, <1>3, SerialLine
<1>5. ToSet(argument) \cap Separators = {} => OnlyFrame(Pieces(BuildLine(p), LineBreaks), p)
  <2>1. ASSUME ToSet(argument) \cap Separators = {} PROVE ToSet(p) \cap Separators = {}
        BY <2>1, <1>2, VerbIs
  <2>2. QED
        BY <2>1, <1>2, <1>3, LoopbackLine
<1>6. IsPlain(argument) => Plain(p)
  <2>1. SUFFICES ASSUME IsPlain(argument) PROVE Plain(p)
        OBVIOUS
  <2>2. \A c \in ToSet(argument) : c \in Ascii /\ c # Dollar /\ c # Star
        BY <2>1 DEF IsPlain, IsAscii, Ascii
  <2>3. \A c \in ToSet(p) : c \in Ascii /\ c # Dollar /\ c # Star
        BY <1>2, <2>2, VerbIs
  <2>4. /\ DOMAIN p = 1..Len(p) /\ Len(p) \in Nat /\ p = [i \in 1..Len(p) |-> p[i]]
        /\ \A i \in 1..Len(p) : p[i] \in ToSet(p)
        BY <1>2, SeqAt DEF ToSet
  <2>5. \A i \in 1..Len(p) : p[i] \in Ascii /\ p[i] # Dollar /\ p[i] # Star /\ ~IsControl(p[i])
        BY <1>3, <2>3, <2>4 DEF Malformed
  <2>6. QED
        BY <1>2, <2>4, <2>5 DEF Plain
<1>7. IsPlain(argument) => HeardOrRefused(p)
      BY <1>6, PlainIsHeardOrRefused
<1>8. QED
      BY <1>4, <1>5, <1>7 DEF p

\* What is noted of a command that was written.
HeardRight == heard # None => /\ heard.serial
                              /\ heard.loopback \/ heard.separated
                              /\ heard.sound

\* Only Write sets it, and no step changes it.
LEMMA HeardStep == HeardRight /\ [Next]_vars => HeardRight'
<1> SUFFICES ASSUME HeardRight, [Next]_vars PROVE HeardRight'
    OBVIOUS
<1>1. CASE \E argument \in Arguments : Write(argument)
  <2>1. PICK argument \in Arguments : Write(argument)
        BY <1>1
  <2> DEFINE p == Joined(CFG, argument)
             h == [serial    |-> OnlyFrame(Ended(Pieces(BuildLine(p), {LF})), p),
                   loopback  |-> OnlyFrame(Pieces(BuildLine(p), LineBreaks), p),
                   separated |-> ToSet(argument) \cap Separators # {},
                   sound     |-> IsPlain(argument) => HeardOrRefused(p)]
  <2>2. heard' = heard \/ (~Malformed(p) /\ heard' = h)
        BY <2>1, Zenon DEF Write
  <2>3. ASSUME ~Malformed(p)
        PROVE  h.serial /\ (h.loopback \/ h.separated) /\ h.sound
        BY <2>3, WrittenIsHeard, Zenon
  <2> HIDE DEF h, p
  <2>4. QED
        BY <2>2, <2>3 DEF HeardRight
<1>2. CASE heard' = heard
      BY <1>2 DEF HeardRight
<1>3. HostStep \/ TimePasses \/ (\E count \in Bursts : BytesArrive(count)) \/ UNCHANGED vars
         => heard' = heard
      BY Zenon DEF HostStep, Look, Read, GiveUp, Sleep, Wake, TimePasses, BytesArrive, rest, vars
<1>4. QED
      BY <1>1, <1>2, <1>3 DEF Next

\* One call of build_line is one line of the board's serial port and, unless
\* the argument has a line separator of Unicode, one of the loopback; that line
\* is the command that was sent.
THEOREM OneCallOneLineHolds == Spec => []OneCallOneLine
<1>1. Init => HeardRight
      BY DEF Init, HeardRight
<1>2. HeardRight => OneCallOneLine
      BY DEF HeardRight, OneCallOneLine
<1>3. Spec => []HeardRight
      BY <1>1, HeardStep, PTL DEF Spec
<1>4. QED
      BY <1>2, <1>3, PTL

\* A command with one byte damaged is carried out as it was sent or refused,
\* and refusing it raises nothing, if its argument is plain.
THEOREM DamagedCommandRefusedHolds == Spec => []DamagedCommandRefused
<1>1. Init => HeardRight
      BY DEF Init, HeardRight
<1>2. HeardRight => DamagedCommandRefused
      BY DEF HeardRight, DamagedCommandRefused
<1>3. Spec => []HeardRight
      BY <1>1, HeardStep, PTL DEF Spec
<1>4. QED
      BY <1>2, <1>3, PTL

-----------------------------------------------------------------------------
(* Reading in parts *)

\* The line that the line feed at e ends, by the characters.
LEMMA LineIs ==
    ASSUME NEW text \in Seq(Nat), NEW b, NEW e
    PROVE  IsLine(text, b, e) <=>
               /\ b \in 0..Len(text) /\ e \in 1..Len(text) /\ b < e
               /\ b = 0 \/ text[b] = LF
               /\ text[e] = LF
               /\ \A i \in 1..Len(text) : b < i /\ i < e => text[i] # LF
<1> DEFINE n == Len(text)
           C == Cuts(text, {LF})
<1>1. n \in Nat /\ DOMAIN text = 1..n
      BY SeqAt
<1>2. \A i : i \in C <=> i \in 1..n /\ text[i] = LF
      BY <1>1 DEF Cuts
<1>3. IsLine(text, b, e) <=> /\ b \in {0} \cup C /\ e \in C \cup {n + 1} /\ b < e
                             /\ \A i \in C : ~(b < i /\ i < e)
                             /\ e \in 1..n
      BY <1>1 DEF IsLine, IsPiece
<1> HIDE DEF n, C
<1>4. 0 \in 0..n /\ n + 1 \notin 1..n /\ \A i \in 1..n : i \in 0..n /\ i # 0
      BY <1>1
<1>5. (b \in {0} \cup C) <=> (b \in 0..n /\ (b = 0 \/ text[b] = LF))
  <2>1. b \in 0..n => b = 0 \/ b \in 1..n
        BY <1>1
  <2>2. QED
        BY <2>1, <1>2, <1>4
<1>6. (e \in C \cup {n + 1} /\ e \in 1..n) <=> (e \in 1..n /\ text[e] = LF)
      BY <1>2, <1>4
<1>7. (\A i \in C : ~(b < i /\ i < e)) <=> (\A i \in 1..n : b < i /\ i < e => text[i] # LF)
      BY <1>2
<1>8. QED
      BY <1>3, <1>5, <1>6, <1>7 DEF n

\* The part of a sequence in between.
LEMMA Between ==
    ASSUME NEW T, NEW s \in Seq(T), NEW b \in 0..Len(s), NEW e \in 1..(Len(s) + 1), b < e
    PROVE  /\ SubSeq(s, b + 1, e - 1) \in Seq(T)
           /\ Len(SubSeq(s, b + 1, e - 1)) = e - 1 - b
           /\ \A i \in 1..(e - 1 - b) : SubSeq(s, b + 1, e - 1)[i] = s[b + i]
<1> DEFINE x == b + 1
           y == e - 1
<1>1. Len(s) \in Nat
      OBVIOUS
<1>2. /\ x \in Nat /\ y \in Nat /\ 1 <= x /\ x <= y + 1 /\ y <= Len(s)
      /\ y - x + 1 = e - 1 - b /\ \A i \in 1..(e - 1 - b) : x + i - 1 = b + i
      BY <1>1
<1> HIDE DEF x, y
<1>3. /\ SubSeq(s, x, y) \in Seq(T) /\ Len(SubSeq(s, x, y)) = y - x + 1
      /\ \A i \in 1..(y - x + 1) : SubSeq(s, x, y)[i] = s[x + i - 1]
      BY <1>2, SubSeqAt
<1>4. QED
      BY <1>2, <1>3 DEF x, y

\* What is between two places of a sequence.
Inner(s, b, e) == SubSeq(s, b + 1, e - 1)
Stretch(T, s, b, e) == /\ s \in Seq(T) /\ b \in 0..Len(s) /\ e \in 1..(Len(s) + 1) /\ b < e
Alike(s, b, e, u, a, f) == e - b = f - a /\ \A i \in 1..(e - 1 - b) : s[b + i] = u[a + i]

\* Parts of two sequences that agree in each place are the same.
LEMMA SameBetween ==
    ASSUME NEW T, NEW s, NEW b, NEW e, NEW u, NEW a, NEW f,
           Stretch(T, s, b, e), Stretch(T, u, a, f),
           Alike(s, b, e, u, a, f)
    PROVE  Inner(s, b, e) = Inner(u, a, f)
<1> DEFINE x == SubSeq(s, b + 1, e - 1)
           y == SubSeq(u, a + 1, f - 1)
<1>1. /\ x \in Seq(T) /\ Len(x) = e - 1 - b
      /\ \A i \in 1..(e - 1 - b) : x[i] = s[b + i]
      BY Between DEF Stretch
<1>2. /\ y \in Seq(T) /\ Len(y) = f - 1 - a
      /\ \A i \in 1..(f - 1 - a) : y[i] = u[a + i]
      BY Between DEF Stretch
<1>3. f - 1 - a = e - 1 - b
  <2>1. Len(s) \in Nat /\ Len(u) \in Nat
        BY DEF Stretch
  <2>2. QED
        BY <2>1 DEF Stretch, Alike
<1> HIDE DEF x, y
<1>4. Len(x) = Len(y) /\ \A i \in 1..Len(x) : x[i] = y[i]
      BY <1>1, <1>2, <1>3 DEF Alike
<1>5. x = y
      BY <1>1, <1>2, <1>4, SeqEqual
<1>6. QED
      BY <1>5 DEF x, y, Inner

\* Two texts, the first of which ends with a line feed, or is empty.
EndsLine(a) == a = <<>> \/ a[Len(a)] = LF

\* What is where in two texts together.
LEMMA Joint ==
    ASSUME NEW a \in Seq(Nat), NEW r \in Seq(Nat)
    PROVE  /\ a \o r \in Seq(Nat)
           /\ Len(a) \in Nat /\ Len(r) \in Nat /\ Len(a \o r) = Len(a) + Len(r)
           /\ \A i \in 1..Len(a) : (a \o r)[i] = a[i]
           /\ \A i \in 1..Len(r) : (a \o r)[Len(a) + i] = r[i]
BY ConcatAt

\* Three texts may be put together in either order.
LEMMA Regroup ==
    \A a, b, c \in Seq(Nat) : (a \o b) \o c = a \o (b \o c)
<1> TAKE a, b, c \in Seq(Nat)
<1>1. QED
      BY ConcatAssociative

\* What follows a line does not change it.
LEMMA LineLeft ==
    ASSUME NEW a \in Seq(Nat), NEW r \in Seq(Nat), NEW b, NEW e \in 1..Len(a)
    PROVE  /\ IsLine(a \o r, b, e) <=> IsLine(a, b, e)
           /\ IsLine(a, b, e) => SubSeq(a \o r, b + 1, e - 1) = SubSeq(a, b + 1, e - 1)
<1> DEFINE t == a \o r
           n == Len(a)
           m == Len(r)
<1>1. /\ t \in Seq(Nat) /\ n \in Nat /\ m \in Nat /\ Len(t) = n + m
      /\ \A i \in 1..n : t[i] = a[i]
      /\ e \in 1..n /\ a \in Seq(Nat)
      BY Joint
<1> HIDE DEF t, n, m
<1>2. IsLine(t, b, e) <=>
               /\ b \in 0..(n + m) /\ e \in 1..(n + m) /\ b < e
               /\ b = 0 \/ t[b] = LF
               /\ t[e] = LF
               /\ \A i \in 1..(n + m) : b < i /\ i < e => t[i] # LF
  <2>1. /\ t \in Seq(Nat) /\ Len(t) = n + m
        BY <1>1
  <2>2. IsLine(t, b, e) <=>
               /\ b \in 0..Len(t) /\ e \in 1..Len(t) /\ b < e
               /\ b = 0 \/ t[b] = LF
               /\ t[e] = LF
               /\ \A i \in 1..Len(t) : b < i /\ i < e => t[i] # LF
        BY <2>1, LineIs
  <2>3. QED
        BY <2>1, <2>2
<1>3. IsLine(a, b, e) <=>
               /\ b \in 0..n /\ e \in 1..n /\ b < e
               /\ b = 0 \/ a[b] = LF
               /\ a[e] = LF
               /\ \A i \in 1..n : b < i /\ i < e => a[i] # LF
      BY LineIs DEF n
<1>4. e \in 1..(n + m) /\ \A i \in 1..n : i \in 1..(n + m)
      BY <1>1
<1>5. (b \in 0..(n + m) /\ b < e) <=> (b \in 0..n /\ b < e)
      BY <1>1
<1>6. b \in 0..n /\ b < e => b = 0 \/ (b \in 1..n /\ t[b] = a[b])
  <2>1. b \in 0..n => b = 0 \/ b \in 1..n
        BY <1>1
  <2>2. QED
        BY <2>1, <1>1
<1>7. (\A i \in 1..(n + m) : b < i /\ i < e => t[i] # LF)
         <=> (\A i \in 1..n : b < i /\ i < e => a[i] # LF)
  <2>1. \A i \in 1..(n + m) : i < e => i \in 1..n
        BY <1>1
  <2>2. QED
        BY <2>1, <1>1, <1>4
<1>8. IsLine(t, b, e) <=> IsLine(a, b, e)
      BY <1>1, <1>2, <1>3, <1>4, <1>5, <1>6, <1>7
<1>s. t \in Seq(Nat)
      BY <1>1
<1>9. ASSUME IsLine(a, b, e) PROVE SubSeq(t, b + 1, e - 1) = SubSeq(a, b + 1, e - 1)
  <2>1. b \in 0..n /\ b < e
        BY <1>3, <1>9
  <2>2. /\ b \in 0..Len(t) /\ e \in 1..Len(t) /\ b \in 0..Len(a) /\ e \in 1..Len(a)
        BY <2>1, <1>1 DEF n
  <2>3. \A i \in 1..(e - 1 - b) : t[b + i] = a[b + i]
    <3>1. \A i \in 1..(e - 1 - b) : b + i \in 1..n
          BY <2>1, <1>1
    <3>2. QED
          BY <3>1, <1>1
  <2>4. Stretch(Nat, t, b, e) /\ Stretch(Nat, a, b, e) /\ Alike(t, b, e, a, b, e)
    <3>1. e \in 1..(Len(t) + 1) /\ e \in 1..(Len(a) + 1)
          BY <2>2
    <3>2. Stretch(Nat, t, b, e) /\ Stretch(Nat, a, b, e)
          BY <1>s, <2>1, <2>2, <3>1 DEF Stretch
    <3>3. Alike(t, b, e, a, b, e)
          BY <2>3 DEF Alike
    <3>4. QED
          BY <3>2, <3>3
  <2>5. Inner(t, b, e) = Inner(a, b, e)
        BY <2>4, SameBetween
  <2>6. QED
        BY <2>5 DEF Inner
<1>10. QED
       BY <1>8, <1>9 DEF t

\* Neither does what is before it, if that ends with a line feed.
LEMMA LineRight ==
    ASSUME NEW a \in Seq(Nat), NEW r \in Seq(Nat), EndsLine(a), NEW b \in Nat, NEW e \in Nat
    PROVE  /\ IsLine(a \o r, Len(a) + b, Len(a) + e) <=> IsLine(r, b, e)
           /\ IsLine(r, b, e) =>
                 SubSeq(a \o r, (Len(a) + b) + 1, (Len(a) + e) - 1) = SubSeq(r, b + 1, e - 1)
<1> DEFINE t == a \o r
           n == Len(a)
           m == Len(r)
           x == n + b
           y == n + e
<1>1. /\ t \in Seq(Nat) /\ n \in Nat /\ m \in Nat /\ Len(t) = n + m
      /\ \A i \in 1..n : t[i] = a[i]
      /\ \A i \in 1..m : t[n + i] = r[i]
      BY Joint
<1>2. n = 0 \/ (n \in 1..n /\ a[n] = LF)
  <2>1. a = <<>> => n = 0
        OBVIOUS
  <2>2. n = 0 \/ n \in 1..n
        BY <1>1
  <2>3. QED
        BY <2>1, <2>2 DEF EndsLine
<1> HIDE DEF t, n, m
<1>3. IsLine(t, x, y) <=>
               /\ x \in 0..(n + m) /\ y \in 1..(n + m) /\ x < y
               /\ x = 0 \/ t[x] = LF
               /\ t[y] = LF
               /\ \A i \in 1..(n + m) : x < i /\ i < y => t[i] # LF
  <2> HIDE DEF x, y
  <2>1. QED
        BY <1>1, LineIs
<1>4. IsLine(r, b, e) <=>
               /\ b \in 0..m /\ e \in 1..m /\ b < e
               /\ b = 0 \/ r[b] = LF
               /\ r[e] = LF
               /\ \A i \in 1..m : b < i /\ i < e => r[i] # LF
      BY LineIs DEF m
<1>5. x < y <=> b < e
      BY <1>1
<1>6. b < e => (x \in 0..(n + m) /\ y \in 1..(n + m) <=> b \in 0..m /\ e \in 1..m)
      BY <1>1
<1>7. e \in 1..m => t[y] = r[e]
      BY <1>1
<1>8. b \in 0..m => ((x = 0 \/ t[x] = LF) <=> (b = 0 \/ r[b] = LF))
  <2>1. CASE b = 0
    <3>1. x = n
          BY <2>1, <1>1
    <3>2. x = 0 \/ t[x] = LF
          BY <3>1, <1>1, <1>2
    <3>3. QED
          BY <2>1, <3>2
  <2>2. CASE b \in 1..m
    <3>1. b # 0 /\ x # 0
          BY <2>2, <1>1
    <3>2. t[x] = r[b]
          BY <2>2, <1>1
    <3>3. QED
          BY <3>1, <3>2
  <2>3. QED
        BY <1>1, <2>1, <2>2
<1>9. b \in 0..m => ((\A i \in 1..(n + m) : x < i /\ i < y => t[i] # LF)
                        <=> (\A i \in 1..m : b < i /\ i < e => r[i] # LF))
  <2>1. SUFFICES ASSUME b \in 0..m
                 PROVE  (\A i \in 1..(n + m) : x < i /\ i < y => t[i] # LF)
                           <=> (\A i \in 1..m : b < i /\ i < e => r[i] # LF)
        OBVIOUS
  <2>2. ASSUME \A i \in 1..(n + m) : x < i /\ i < y => t[i] # LF,
               NEW i \in 1..m, b < i, i < e
        PROVE  r[i] # LF
    <3>1. n + i \in 1..(n + m) /\ x < n + i /\ n + i < y
          BY <2>2, <1>1
    <3>2. QED
          BY <3>1, <2>2, <1>1
  <2>3. ASSUME \A i \in 1..m : b < i /\ i < e => r[i] # LF,
               NEW i \in 1..(n + m), x < i, i < y
        PROVE  t[i] # LF
    <3>1. i - n \in 1..m /\ b < i - n /\ i - n < e /\ n + (i - n) = i
          BY <2>1, <2>3, <1>1
    <3>2. QED
          BY <3>1, <2>3, <1>1
  <2>4. QED
        BY <2>2, <2>3
<1>10. IsLine(t, x, y) <=> IsLine(r, b, e)
  <2> HIDE DEF x, y
  <2>1. QED
        BY <1>3, <1>4, <1>5, <1>6, <1>7, <1>8, <1>9
<1>s. t \in Seq(Nat)
      BY <1>1
<1>11. ASSUME IsLine(r, b, e) PROVE SubSeq(t, x + 1, y - 1) = SubSeq(r, b + 1, e - 1)
  <2>1. b \in 0..m /\ e \in 1..m /\ b < e
        BY <1>4, <1>11
  <2>2. /\ x \in 0..Len(t) /\ y \in 1..Len(t) /\ x < y /\ y - x = e - b
        BY <2>1, <1>1
  <2>3. \A i \in 1..(y - 1 - x) : t[x + i] = r[b + i]
    <3>1. \A i \in 1..(y - 1 - x) : b + i \in 1..m /\ x + i = n + (b + i)
          BY <2>1, <1>1
    <3>2. QED
          BY <3>1, <1>1
  <2>4. b \in 0..Len(r) /\ e \in 1..Len(r)
        BY <2>1 DEF m
  <2>5. Stretch(Nat, t, x, y) /\ Stretch(Nat, r, b, e) /\ Alike(t, x, y, r, b, e)
        BY <1>s, <2>1, <2>2, <2>3, <2>4 DEF Stretch, Alike
  <2> HIDE DEF x, y
  <2>6. Inner(t, x, y) = Inner(r, b, e)
        BY <2>5, SameBetween
  <2>7. QED
        BY <2>6 DEF Inner
<1>12. QED
       BY <1>10, <1>11 DEF t, n

\* A line is in one of the two halves.
LEMMA LineSplit ==
    ASSUME NEW a \in Seq(Nat), NEW r \in Seq(Nat), EndsLine(a), NEW b, NEW e,
           IsLine(a \o r, b, e)
    PROVE  \/ e \in 1..Len(a)
           \/ /\ b - Len(a) \in Nat /\ e - Len(a) \in Nat
              /\ b = Len(a) + (b - Len(a)) /\ e = Len(a) + (e - Len(a))
<1> DEFINE t == a \o r
           n == Len(a)
           m == Len(r)
<1>1. /\ t \in Seq(Nat) /\ n \in Nat /\ m \in Nat /\ Len(t) = n + m
      /\ \A i \in 1..n : t[i] = a[i]
      BY Joint
<1>2. n = 0 \/ (n \in 1..n /\ a[n] = LF)
  <2>1. a = <<>> => n = 0
        OBVIOUS
  <2>2. n = 0 \/ n \in 1..n
        BY <1>1
  <2>3. QED
        BY <2>1, <2>2 DEF EndsLine
<1>3. IsLine(t, b, e)
      OBVIOUS
<1> HIDE DEF t, n, m
<1>4. /\ b \in 0..(n + m) /\ e \in 1..(n + m) /\ b < e
      /\ \A i \in 1..(n + m) : b < i /\ i < e => t[i] # LF
  <2>1. /\ t \in Seq(Nat) /\ Len(t) = n + m
        BY <1>1
  <2>2. /\ b \in 0..Len(t) /\ e \in 1..Len(t) /\ b < e
        /\ \A i \in 1..Len(t) : b < i /\ i < e => t[i] # LF
        BY <2>1, <1>3, LineIs
  <2>3. QED
        BY <2>1, <2>2
<1>5. b < n /\ n < e => FALSE
  <2>1. b < n /\ n < e => n \in 1..(n + m) /\ n # 0
        BY <1>1, <1>4
  <2>2. QED
        BY <2>1, <1>1, <1>2, <1>4
<1>6. e \in 1..n \/ (b - n \in Nat /\ e - n \in Nat /\ b = n + (b - n) /\ e = n + (e - n))
  <2>1. b \in Nat /\ e \in Nat /\ b < e /\ e >= 1 /\ ~(b < n /\ n < e)
        BY <1>1, <1>4, <1>5
  <2>2. QED
        BY <2>1, <1>1
<1>7. QED
      BY <1>6 DEF n

\* Where one text ends with a line feed the lines of the next begin.
LEMMA LinesConcat ==
    ASSUME NEW a \in Seq(Nat), NEW r \in Seq(Nat), EndsLine(a)
    PROVE  CompleteLines(a \o r) = CompleteLines(a) \cup CompleteLines(r)
<1> DEFINE t == a \o r
           n == Len(a)
<1>1. t \in Seq(Nat) /\ n \in Nat
      BY Joint
<1>2. \A line \in CompleteLines(t) : line \in CompleteLines(a) \cup CompleteLines(r)
  <2>1. SUFFICES ASSUME NEW line \in CompleteLines(t)
                 PROVE  line \in CompleteLines(a) \cup CompleteLines(r)
        OBVIOUS
  <2> HIDE DEF t
  <2>2. line # <<>>
        BY <1>1, LinesAre
  <2>3. PICK b, e : IsLine(t, b, e) /\ line = Strip(SubSeq(t, b + 1, e - 1))
        BY <1>1, LinesAre
  <2>4. CASE e \in 1..n
    <3>1. IsLine(a, b, e) /\ SubSeq(t, b + 1, e - 1) = SubSeq(a, b + 1, e - 1)
          BY <2>3, <2>4, LineLeft DEF t
    <3>2. line \in CompleteLines(a)
          BY <2>2, <2>3, <3>1, LinesAre
    <3>3. QED
          BY <3>2
  <2>5. CASE /\ b - n \in Nat /\ e - n \in Nat
             /\ b = n + (b - n) /\ e = n + (e - n)
    <3> DEFINE f == b - n
               g == e - n
    <3>1. f \in Nat /\ g \in Nat /\ b = n + f /\ e = n + g
          BY <2>5
    <3> HIDE DEF f, g
    <3>2. IsLine(t, n + f, n + g) /\ line = Strip(SubSeq(t, (n + f) + 1, (n + g) - 1))
          BY <2>3, <3>1
    <3>3. IsLine(r, f, g) /\ SubSeq(t, (n + f) + 1, (n + g) - 1) = SubSeq(r, f + 1, g - 1)
          BY <3>1, <3>2, LineRight DEF t
    <3>4. line = Strip(SubSeq(r, f + 1, g - 1))
          BY <3>2, <3>3
    <3>5. line \in CompleteLines(r)
          BY <2>2, <3>3, <3>4, LinesAre
    <3>6. QED
          BY <3>5
  <2>6. QED
        BY <2>3, <2>4, <2>5, LineSplit DEF t
<1>3. \A line \in CompleteLines(a) : line \in CompleteLines(t)
  <2>1. SUFFICES ASSUME NEW line \in CompleteLines(a) PROVE line \in CompleteLines(t)
        OBVIOUS
  <2>2. line # <<>>
        BY LinesAre
  <2>3. PICK b, e : IsLine(a, b, e) /\ line = Strip(SubSeq(a, b + 1, e - 1))
        BY LinesAre
  <2>4. e \in 1..Len(a)
        BY <2>3, LineIs
  <2>5. IsLine(t, b, e) /\ SubSeq(t, b + 1, e - 1) = SubSeq(a, b + 1, e - 1)
        BY <2>3, <2>4, LineLeft
  <2> HIDE DEF t
  <2>6. QED
        BY <2>2, <2>3, <2>5, <1>1, LinesAre
<1>4. \A line \in CompleteLines(r) : line \in CompleteLines(t)
  <2>1. SUFFICES ASSUME NEW line \in CompleteLines(r) PROVE line \in CompleteLines(t)
        OBVIOUS
  <2>2. line # <<>>
        BY LinesAre
  <2>3. PICK f, g : IsLine(r, f, g) /\ line = Strip(SubSeq(r, f + 1, g - 1))
        BY LinesAre
  <2>4. f \in Nat /\ g \in Nat
    <3>1. f \in 0..Len(r) /\ g \in 1..Len(r) /\ Len(r) \in Nat
          BY <2>3, LineIs
    <3>2. QED
          BY <3>1
  <2>5. /\ IsLine(t, n + f, n + g)
        /\ SubSeq(t, (n + f) + 1, (n + g) - 1) = SubSeq(r, f + 1, g - 1)
        BY <2>3, <2>4, LineRight
  <2> HIDE DEF t
  <2>6. QED
        BY <2>2, <2>3, <2>5, <1>1, LinesAre
<1>5. QED
      BY <1>2, <1>3, <1>4

\* What is left after the last line feed.
IsLastFeed(text, b) == /\ b \in 0..Len(text)
                       /\ b = 0 \/ text[b] = LF
                       /\ \A i \in 1..Len(text) : b < i => text[i] # LF

\* The cuts are the line feeds.
LEMMA FeedCuts ==
    ASSUME NEW text \in Seq(Nat)
    PROVE  /\ Len(text) \in Nat
           /\ \A i : i \in Cuts(text, {LF}) <=> i \in 1..Len(text) /\ text[i] = LF
<1>1. DOMAIN text = 1..Len(text) /\ Len(text) \in Nat
      BY SeqAt
<1>2. QED
      BY <1>1 DEF Cuts

\* What is left is what is after the last line feed.
LEMMA RestAt ==
    ASSUME NEW text \in Seq(Nat), NEW b, IsLastFeed(text, b)
    PROVE  RestOf(text) = Inner(text, b, Len(text) + 1)
<1> DEFINE C == Cuts(text, {LF})
           n == Len(text)
<1>1. n \in Nat /\ \A i : i \in C <=> i \in 1..n /\ text[i] = LF
      BY FeedCuts
<1>2. b \in 0..n /\ (b = 0 \/ text[b] = LF) /\ \A i \in 1..n : b < i => text[i] # LF
      BY DEF IsLastFeed
<1> HIDE DEF C, n
<1>3. b \in {0} \cup C
  <2>1. b = 0 \/ b \in 1..n
        BY <1>1, <1>2
  <2>2. QED
        BY <2>1, <1>1, <1>2
<1>4. \A i \in C : i <= b
  <2>1. SUFFICES ASSUME NEW i \in C PROVE i <= b
        OBVIOUS
  <2>2. i \in 1..n /\ ~(b < i)
        BY <1>1, <1>2
  <2>3. QED
        BY <2>2, <1>1, <1>2
<1>5. RestOf(text) = SubSeq(text, b + 1, Len(text))
      BY <1>3, <1>4, RestIs DEF C
<1>6. (Len(text) + 1) - 1 = Len(text)
      BY <1>1 DEF n
<1>7. QED
      BY <1>5, <1>6 DEF Inner

\* There is a last, or none.
LEMMA LastFeedExists ==
    ASSUME NEW text \in Seq(Nat)
    PROVE  \E b : IsLastFeed(text, b)
<1> DEFINE S == {LF}
           m == Max(DOMAIN Pieces(text, S))
           n == Len(text)
<1>1. n \in Nat /\ \A i : i \in Cuts(text, {LF}) <=> i \in 1..n /\ text[i] = LF
      BY FeedCuts
<1>2. \A i : i \in Cuts(text, S) <=> i \in 1..n /\ text[i] = LF
      BY <1>1
<1> HIDE DEF S
<1>3. m \in {0} \cup Cuts(text, S) /\ \A i \in Cuts(text, S) : i <= m
      BY LastCut
<1> HIDE DEF m, n
<1>4. m = 0 \/ (m \in 1..n /\ text[m] = LF)
      BY <1>2, <1>3
<1>5. m \in 0..n /\ m \in Nat
      BY <1>1, <1>4
<1>6. \A i \in 1..n : m < i => text[i] # LF
  <2>1. SUFFICES ASSUME NEW i \in 1..n, m < i, text[i] = LF PROVE FALSE
        OBVIOUS
  <2>2. i <= m
        BY <2>1, <1>2, <1>3
  <2>3. QED
        BY <2>1, <2>2, <1>5
<1>7. IsLastFeed(text, m)
      BY <1>4, <1>5, <1>6 DEF IsLastFeed, n
<1>8. QED
      BY <1>7

\* What is left of two halves is left of the second.
LEMMA RestConcat ==
    ASSUME NEW a \in Seq(Nat), NEW r \in Seq(Nat), EndsLine(a)
    PROVE  RestOf(a \o r) = RestOf(r)
<1> DEFINE t == a \o r
           n == Len(a)
           m == Len(r)
<1>1. /\ t \in Seq(Nat) /\ n \in Nat /\ m \in Nat /\ Len(t) = n + m
      /\ \A i \in 1..n : t[i] = a[i]
      /\ \A i \in 1..m : t[n + i] = r[i]
      BY Joint
<1>2. n = 0 \/ (n \in 1..n /\ a[n] = LF)
  <2>1. a = <<>> => n = 0
        OBVIOUS
  <2>2. n = 0 \/ n \in 1..n
        BY <1>1
  <2>3. QED
        BY <2>1, <2>2 DEF EndsLine
<1>3. PICK b : IsLastFeed(r, b)
      BY LastFeedExists
<1>4. b \in 0..m /\ (b = 0 \/ r[b] = LF) /\ \A i \in 1..m : b < i => r[i] # LF
      BY <1>3 DEF IsLastFeed
<1>5. RestOf(r) = Inner(r, b, m + 1)
      BY <1>3, RestAt
<1> HIDE DEF t, n, m
<1> DEFINE x == n + b
<1>6. IsLastFeed(t, x)
  <2>1. x \in 0..(n + m)
        BY <1>1, <1>4
  <2>2. x = 0 \/ t[x] = LF
    <3>1. CASE b = 0
      <4>1. x = n
            BY <3>1, <1>1
      <4>2. QED
            BY <4>1, <1>1, <1>2
    <3>2. CASE b \in 1..m
      <4>1. t[x] = r[b] /\ b # 0
            BY <3>2, <1>1
      <4>2. QED
            BY <4>1, <1>4
    <3>3. QED
          BY <1>1, <1>4, <3>1, <3>2
  <2>3. \A i \in 1..(n + m) : x < i => t[i] # LF
    <3>1. SUFFICES ASSUME NEW i \in 1..(n + m), x < i PROVE t[i] # LF
          OBVIOUS
    <3>2. i - n \in 1..m /\ b < i - n /\ n + (i - n) = i
          BY <3>1, <1>1, <1>4
    <3>3. QED
          BY <3>2, <1>1, <1>4
  <2>4. QED
        BY <2>1, <2>2, <2>3, <1>1 DEF IsLastFeed
<1>7. RestOf(t) = Inner(t, x, Len(t) + 1)
  <2> HIDE DEF x
  <2>1. QED
        BY <1>1, <1>6, RestAt
<1>8. Inner(t, x, Len(t) + 1) = Inner(r, b, m + 1)
  <2> DEFINE y == Len(t) + 1
             e == m + 1
  <2>1. Stretch(Nat, t, x, y) /\ Stretch(Nat, r, b, e)
    <3>1. /\ x \in 0..Len(t) /\ y \in 1..(Len(t) + 1) /\ x < y
          BY <1>1, <1>4
    <3>2. /\ b \in 0..Len(r) /\ e \in 1..(Len(r) + 1) /\ b < e
          BY <1>1, <1>4 DEF m
    <3>3. QED
          BY <3>1, <3>2, <1>1 DEF Stretch
  <2>2. Alike(t, x, y, r, b, e)
    <3>1. y - x = e - b /\ \A i \in 1..(y - 1 - x) : b + i \in 1..m /\ x + i = n + (b + i)
          BY <1>1, <1>4
    <3>2. \A i \in 1..(y - 1 - x) : t[x + i] = r[b + i]
          BY <3>1, <1>1
    <3>3. QED
          BY <3>1, <3>2 DEF Alike
  <2> HIDE DEF x, y, e
  <2>3. Inner(t, x, y) = Inner(r, b, e)
        BY <2>1, <2>2, SameBetween
  <2>4. QED
        BY <2>3 DEF y, e
<1>9. QED
      BY <1>5, <1>7, <1>8 DEF t

\* A text is its complete lines and what is left; so a text that is read in two
\* parts has the lines of the first, and those of what is left with the second.
LEMMA LinesMore ==
    ASSUME NEW text \in Seq(Nat), NEW more \in Seq(Nat)
    PROVE  /\ RestOf(text) \in Seq(Nat)
           /\ CompleteLines(text \o more) = CompleteLines(text)
                                            \cup CompleteLines(RestOf(text) \o more)
           /\ RestOf(text \o more) = RestOf(RestOf(text) \o more)
<1>1. PICK b : IsLastFeed(text, b)
      BY LastFeedExists
<1> DEFINE n == Len(text)
           a == SubSeq(text, 1, b)
           r == RestOf(text)
<1>2. n \in Nat /\ b \in 0..n /\ (b = 0 \/ text[b] = LF) /\ \A i \in 1..n : b < i => text[i] # LF
      BY <1>1 DEF IsLastFeed
<1>3. /\ r \in Seq(Nat) /\ Len(r) = n - b
      /\ \A i \in 1..(n - b) : r[i] = text[b + i]
  <2> DEFINE e == n + 1
  <2>1. b \in 0..Len(text) /\ e \in 1..(Len(text) + 1) /\ b < e
        BY <1>2
  <2>2. e - 1 - b = n - b
        BY <1>2
  <2>3. RestOf(text) = Inner(text, b, e)
        BY <1>1, RestAt
  <2> HIDE DEF e
  <2>4. /\ SubSeq(text, b + 1, e - 1) \in Seq(Nat)
        /\ Len(SubSeq(text, b + 1, e - 1)) = e - 1 - b
        /\ \A i \in 1..(e - 1 - b) : SubSeq(text, b + 1, e - 1)[i] = text[b + i]
        BY <2>1, Between
  <2>5. QED
        BY <2>2, <2>3, <2>4 DEF Inner
<1>4. a \in Seq(Nat) /\ Len(a) = b /\ \A i \in 1..b : a[i] = text[i]
  <2>1. b \in Nat /\ 1 \in Nat /\ 1 <= 1 /\ 1 <= b + 1 /\ b <= Len(text) /\ b - 1 + 1 = b
        /\ \A i \in 1..b : 1 + i - 1 = i
        BY <1>2
  <2>2. /\ a \in Seq(Nat) /\ Len(a) = b - 1 + 1
        /\ \A i \in 1..(b - 1 + 1) : a[i] = text[1 + i - 1]
        BY <2>1, SubSeqAt
  <2> HIDE DEF a
  <2>3. QED
        BY <2>1, <2>2
<1> HIDE DEF a, r
<1>5. EndsLine(a)
  <2>1. b = 0 => a = <<>>
        BY <1>4, EmptySeq
  <2>2. b # 0 => a[Len(a)] = LF
    <3>1. b # 0 => b \in 1..b
          BY <1>2
    <3>2. QED
          BY <3>1, <1>2, <1>4
  <2>3. QED
        BY <2>1, <2>2 DEF EndsLine
<1>6. text = a \o r
  <2> DEFINE t == a \o r
  <2>1. /\ t \in Seq(Nat) /\ Len(t) = Len(a) + Len(r)
        /\ \A i \in 1..Len(a) : t[i] = a[i]
        /\ \A i \in 1..Len(r) : t[Len(a) + i] = r[i]
        BY <1>3, <1>4, Joint
  <2> HIDE DEF t
  <2>2. Len(t) = n
        BY <2>1, <1>2, <1>3, <1>4
  <2>3. ASSUME NEW i \in 1..n PROVE text[i] = t[i]
    <3>1. CASE i \in 1..b
          BY <3>1, <2>1, <1>4
    <3>2. CASE i \notin 1..b
      <4>1. i - b \in 1..(n - b) /\ b + (i - b) = i
            BY <3>2, <1>2
      <4>2. t[Len(a) + (i - b)] = r[i - b] /\ r[i - b] = text[b + (i - b)]
            BY <4>1, <2>1, <1>3
      <4>3. QED
            BY <4>1, <4>2, <1>4
    <3>3. QED
          BY <3>1, <3>2
  <2>4. text = t
        BY <2>1, <2>2, <2>3, SeqEqual
  <2>5. QED
        BY <2>4 DEF t
<1>7. LF \notin ToSet(r)
  <2>1. \A i \in 1..(n - b) : b + i \in 1..n /\ b < b + i
        BY <1>2
  <2>2. \A i \in 1..(n - b) : r[i] # LF
        BY <2>1, <1>2, <1>3
  <2>3. DOMAIN r = 1..(n - b)
        BY <1>3, SeqAt
  <2>4. QED
        BY <2>2, <2>3 DEF ToSet
<1>8. CompleteLines(text) = CompleteLines(a)
  <2>1. CompleteLines(a \o r) = CompleteLines(a) \cup CompleteLines(r)
        BY <1>3, <1>4, <1>5, LinesConcat
  <2>2. CompleteLines(r) = {}
        BY <1>3, <1>7, NoFeed
  <2>3. QED
        BY <2>1, <2>2, <1>6
<1> DEFINE w == r \o more
<1>9. w \in Seq(Nat) /\ text \o more = a \o w
  <2>1. w \in Seq(Nat)
        BY <1>3, Joint
  <2>2. (a \o r) \o more = a \o (r \o more)
    <3>1. a \in Seq(Nat) /\ r \in Seq(Nat) /\ more \in Seq(Nat)
          BY <1>3, <1>4
    <3>2. QED
          BY <3>1, Regroup
  <2>3. QED
        BY <2>1, <2>2, <1>6
<1> HIDE DEF w
<1>10. CompleteLines(a \o w) = CompleteLines(a) \cup CompleteLines(w)
       BY <1>4, <1>5, <1>9, LinesConcat
<1>11. RestOf(a \o w) = RestOf(w)
       BY <1>4, <1>5, <1>9, RestConcat
<1>12. QED
       BY <1>3, <1>8, <1>9, <1>10, <1>11 DEF r, w

-----------------------------------------------------------------------------
(* The answer *)

\* c is a followed by b, place by place.
IsJoin(a, b, c, m, n) ==
    /\ a \in Seq(Nat) /\ Len(a) = m /\ b \in Seq(Nat) /\ Len(b) = n
    /\ c \in Seq(Nat) /\ Len(c) = m + n
    /\ \A i \in 1..m : c[i] = a[i]
    /\ \A i \in 1..n : c[m + i] = b[i]

\* Then it is a and b together.
LEMMA Tuples ==
    ASSUME NEW a, NEW b, NEW c, NEW m, NEW n, IsJoin(a, b, c, m, n)
    PROVE  a \o b = c
<1> DEFINE t == a \o b
<1>0. /\ a \in Seq(Nat) /\ Len(a) = m /\ b \in Seq(Nat) /\ Len(b) = n /\ c \in Seq(Nat) /\ Len(c) = m + n
      /\ \A i \in 1..m : c[i] = a[i]
      /\ \A i \in 1..n : c[m + i] = b[i]
      BY DEF IsJoin
<1>1. /\ t \in Seq(Nat)
      /\ m \in Nat /\ n \in Nat /\ Len(t) = m + n
      /\ \A i \in 1..m : t[i] = a[i]
      /\ \A i \in 1..n : t[m + i] = b[i]
  <2>1. a \in Seq(Nat) /\ b \in Seq(Nat)
        BY <1>0
  <2>2. /\ t \in Seq(Nat)
        /\ Len(a) \in Nat /\ Len(b) \in Nat /\ Len(t) = Len(a) + Len(b)
        /\ \A i \in 1..Len(a) : t[i] = a[i]
        /\ \A i \in 1..Len(b) : t[Len(a) + i] = b[i]
        BY <2>1, Joint
  <2> HIDE DEF t
  <2>3. QED
        BY <2>2, <1>0
<1> HIDE DEF t
<1>2. \A i \in 1..(m + n) : i \in 1..m \/ (i - m \in 1..n /\ m + (i - m) = i)
      BY <1>1
<1>3. ASSUME NEW i \in 1..(m + n) PROVE t[i] = c[i]
  <2>1. CASE i \in 1..m
    <3>1. t[i] = a[i]
          BY <2>1, <1>1
    <3>2. c[i] = a[i]
          BY <2>1, <1>0
    <3>3. QED
          BY <3>1, <3>2
  <2>2. CASE i - m \in 1..n /\ m + (i - m) = i
    <3>1. t[m + (i - m)] = b[i - m]
          BY <2>2, <1>1
    <3>2. c[m + (i - m)] = b[i - m]
          BY <2>2, <1>0
    <3>3. QED
          BY <2>2, <3>1, <3>2
  <2>3. QED
        BY <1>2, <2>1, <2>2
<1>4. t = c
      BY <1>0, <1>1, <1>3, SeqEqual
<1>5. QED
      BY <1>4 DEF t

\* A sequence with a length is not empty.
LEMMA NonEmpty ==
    ASSUME NEW S, NEW s \in Seq(S), Len(s) # 0
    PROVE  s # <<>>
BY EmptySeq

\* One sequence, taken together, is itself.
LEMMA FlattenOne ==
    ASSUME NEW T, NEW x \in Seq(T)
    PROVE  FlattenSeq(<<x>>) = x
<1> DEFINE s == <<x>>
<1>1. s \in Seq(Seq(T)) /\ Len(s) = 1 /\ s[1] = x
      OBVIOUS
<1> HIDE DEF s
<1>2. PICK g : Runs(g, s, T)
      BY <1>1, RunsExist
<1>3. FlattenSeq(s) = g[Len(s)]
      BY <1>1, <1>2, FlattenIs
<1>4. g[0] = <<>> /\ \A i \in 1..Len(s) : g[i] = g[i - 1] \o s[i]
      BY <1>2 DEF Runs
<1>5. g[1] = <<>> \o x
  <2>1. 1 \in 1..1 /\ 1 - 1 = 0
        OBVIOUS
  <2>2. QED
        BY <2>1, <1>1, <1>4
<1>6. QED
      BY <1>1, <1>3, <1>5 DEF s

\* One character is encoded alone.
LEMMA EncodeOne ==
    ASSUME NEW c \in Nat
    PROVE  Encode(<<c>>) = Utf8(c)
<1> DEFINE t == <<c>>
<1>1. [i \in DOMAIN t |-> Utf8(t[i])] = <<Utf8(c)>>
  <2>1. DOMAIN t = 1..1 /\ t[1] = c
        OBVIOUS
  <2> HIDE DEF t
  <2>2. QED
        BY <2>1
<1>2. Utf8(c) \in Seq(Nat)
      BY Utf8Type
<1>3. QED
      BY <1>1, <1>2, FlattenOne DEF Encode

\* The acknowledgement.
LEMMA AckText ==
    AckPayload = <<83, 65, 67, 75, 44, 67, 70, 71, 44, 79, 75>>
<1>1. <<67, 70, 71>> \o <<44>> = <<67, 70, 71, 44>>
  <2>1. IsJoin(<<67, 70, 71>>, <<44>>, <<67, 70, 71, 44>>, 3, 1)
        BY DEF IsJoin
  <2>2. QED
        BY <2>1, Tuples
<1>2. <<67, 70, 71, 44>> \o <<79, 75>> = <<67, 70, 71, 44, 79, 75>>
  <2>1. IsJoin(<<67, 70, 71, 44>>, <<79, 75>>, <<67, 70, 71, 44, 79, 75>>, 4, 2)
        BY DEF IsJoin
  <2>2. QED
        BY <2>1, Tuples
<1>3. <<83, 65, 67, 75>> \o <<44>> = <<83, 65, 67, 75, 44>>
  <2>1. IsJoin(<<83, 65, 67, 75>>, <<44>>, <<83, 65, 67, 75, 44>>, 4, 1)
        BY DEF IsJoin
  <2>2. QED
        BY <2>1, Tuples
<1>4. <<83, 65, 67, 75, 44>> \o <<67, 70, 71, 44, 79, 75>>
         = <<83, 65, 67, 75, 44, 67, 70, 71, 44, 79, 75>>
  <2>1. IsJoin(<<83, 65, 67, 75, 44>>, <<67, 70, 71, 44, 79, 75>>,
               <<83, 65, 67, 75, 44, 67, 70, 71, 44, 79, 75>>, 5, 6)
        BY DEF IsJoin
  <2>2. QED
        BY <2>1, Tuples
<1>5. Joined(CFG, OK) = <<67, 70, 71, 44, 79, 75>>
      BY <1>1, <1>2 DEF Joined, CFG, OK, Comma
<1>6. QED
      BY <1>3, <1>4, <1>5 DEF AckPayload, Joined, SACK, Comma

\* It is plain.
LEMMA AckIs ==
    /\ AckPayload \in Seq(Ascii) /\ AckPayload \in Seq(Nat) /\ Len(AckPayload) = 11
    /\ Plain(AckPayload)
<1> DEFINE p == <<83, 65, 67, 75, 44, 67, 70, 71, 44, 79, 75>>
<1>2. Len(p) = 11 /\ \A i \in 1..11 : p[i] \in 44..83
      OBVIOUS
<1>3. p \in Seq(Nat)
      OBVIOUS
<1> HIDE DEF p
<1>4. \A x \in 44..83 : x \in Ascii /\ x # Dollar /\ x # Star /\ ~IsControl(x)
      BY DEF Ascii, Dollar, Star, IsControl
<1>5. p \in Seq(Ascii)
  <2>1. DOMAIN p = 1..11
        BY <1>2, <1>3, SeqAt
  <2>2. QED
        BY <2>1, <1>2, <1>3, <1>4, Retyped
<1>6. p # <<>>
      BY <1>2, <1>3, NonEmpty
<1>7. Plain(p)
      BY <1>2, <1>4, <1>5, <1>6 DEF Plain
<1>8. AckPayload = p
      BY AckText DEF p
<1>9. QED
      BY <1>2, <1>3, <1>5, <1>7, <1>8

\* The JSON line takes seven bytes, the second to the fourth one character.
HeadBytes == <<123, 234, 176, 128, 125, 13, 10>>

\* What is where in them.
LEMMA HeadIs ==
    /\ HeadBytes \in Seq(Byte) /\ Len(HeadBytes) = 7
    /\ HeadBytes[1] = 123 /\ HeadBytes[2] = 234 /\ HeadBytes[3] = 176 /\ HeadBytes[4] = 128
    /\ HeadBytes[5] = 125 /\ HeadBytes[6] = 13 /\ HeadBytes[7] = 10
BY DEF HeadBytes, Byte

\* The acknowledgement's line is its own encoding.
LEMMA AckLine ==
    LET t == BuildLine(AckPayload)
    IN  /\ t \in Seq(Nat) /\ t \in Seq(Ascii) /\ t \in Seq(Byte)
        /\ Len(t) = 17 /\ Encode(t) = t /\ t[1] = Dollar
<1> DEFINE p == AckPayload
           t == BuildLine(p)
<1>1. p \in Seq(Nat) /\ Len(p) = 11 /\ Plain(p)
      BY AckIs
<1> HIDE DEF p
<1>2. t \in Seq(Nat) /\ Len(t) = Len(p) + 6 /\ t[1] = Dollar
      BY <1>1, LineAt
<1>3. \A i \in 1..(Len(p) + 6) : t[i] \in Ascii
      BY <1>1, LineMarks
<1> HIDE DEF t
<1>4. DOMAIN t = 1..(Len(p) + 6) /\ Len(t) = 17
      BY <1>1, <1>2, SeqAt
<1>5. t \in Seq(Ascii)
      BY <1>2, <1>3, <1>4, Retyped
<1>6. t \in Seq(Byte) /\ Encode(t) = t
      BY <1>5, AsciiSeq, EncodeAscii
<1>7. QED
      BY <1>2, <1>4, <1>5, <1>6 DEF t, p

\* The answer is those bytes and that line; what is where in it.
LEMMA AnswerIs ==
    Answer = HeadBytes \o BuildLine(AckPayload)
<1> DEFINE x == <<123>>
           y == <<WideChar>>
           z == <<125, 13, 10>>
           t == BuildLine(AckPayload)
<1>1. x \in Seq(Ascii) /\ z \in Seq(Ascii) /\ x \in Seq(Nat) /\ z \in Seq(Nat) /\ y \in Seq(Nat)
      BY DEF Ascii, WideChar
<1>2. Encode(x) = x /\ Encode(z) = z
      BY <1>1, EncodeAscii
<1>3. Encode(y) = <<234, 176, 128>>
  <2>1. Encode(y) = Utf8(WideChar)
        BY EncodeOne DEF WideChar
  <2>2. Utf8(WideChar) = <<234, 176, 128>>
        BY DEF Utf8, WideChar
  <2>3. QED
        BY <2>1, <2>2
<1>4. JsonLine \o <<CR, LF>> = (x \o y) \o z
      BY DEF JsonLine, CR, LF
<1>5. Encode((x \o y) \o z) = (x \o <<234, 176, 128>>) \o z
  <2> HIDE DEF x, y, z
  <2>0. /\ Encode(x \o y) = Encode(x) \o Encode(y)
        /\ x \o y \in Seq(Nat)
        BY <1>1, EncodeConcat, ConcatAt
  <2>1. Encode(x \o y) = x \o <<234, 176, 128>>
        BY <2>0, <1>2, <1>3, Zenon
  <2>2. Encode((x \o y) \o z) = Encode(x \o y) \o Encode(z)
        BY <2>0, <1>1, EncodeConcat
  <2>3. QED
        BY <2>1, <2>2, <1>2, Zenon
<1>6. (x \o <<234, 176, 128>>) \o z = HeadBytes
  <2>1. x \o <<234, 176, 128>> = <<123, 234, 176, 128>>
    <3>1. IsJoin(x, <<234, 176, 128>>, <<123, 234, 176, 128>>, 1, 3)
          BY DEF IsJoin
    <3>2. QED
          BY <3>1, Tuples
  <2>2. <<123, 234, 176, 128>> \o z = HeadBytes
    <3>1. IsJoin(<<123, 234, 176, 128>>, z, HeadBytes, 4, 3)
          BY DEF IsJoin, HeadBytes
    <3>2. QED
          BY <3>1, Tuples
  <2>3. QED
        BY <2>1, <2>2
<1>7. t \in Seq(Nat) /\ t \in Seq(Ascii) /\ Encode(t) = t
      BY AckLine
<1> DEFINE h == JsonLine \o <<CR, LF>>
<1>8. h \in Seq(Nat) /\ Encode(h) = HeadBytes
  <2>1. (x \o y) \o z \in Seq(Nat)
    <3> HIDE DEF x, y, z
    <3>1. x \o y \in Seq(Nat)
          BY <1>1, ConcatAt
    <3>2. QED
          BY <3>1, <1>1, ConcatAt
  <2>2. QED
        BY <2>1, <1>4, <1>5, <1>6
<1> HIDE DEF h, t
<1>9. Encode(h \o t) = Encode(h) \o Encode(t)
      BY <1>7, <1>8, EncodeConcat
<1>10. QED
       BY <1>7, <1>8, <1>9 DEF Answer, h, t

\* What is where in the answer.
LEMMA AnswerAt ==
    LET t == BuildLine(AckPayload)
    IN  /\ Answer \in Seq(Byte) /\ Len(Answer) = 24 /\ DOMAIN Answer = 1..24
        /\ \A i \in 1..7 : Answer[i] = HeadBytes[i]
        /\ \A i \in 1..17 : Answer[7 + i] = t[i]
        /\ t \in Seq(Nat) /\ t \in Seq(Ascii) /\ t \in Seq(Byte) /\ Len(t) = 17
        /\ Encode(t) = t
<1> DEFINE t == BuildLine(AckPayload)
<1>1. t \in Seq(Nat) /\ t \in Seq(Ascii) /\ t \in Seq(Byte) /\ Len(t) = 17 /\ Encode(t) = t
      BY AckLine
<1>3. Answer = HeadBytes \o t
      BY AnswerIs
<1> HIDE DEF t
<1>7. /\ Answer \in Seq(Byte) /\ Len(Answer) = 7 + 17
      /\ \A i \in 1..7 : Answer[i] = HeadBytes[i]
      /\ \A i \in 1..17 : Answer[7 + i] = t[i]
  <2>1. HeadBytes \in Seq(Byte) /\ Len(HeadBytes) = 7
        BY HeadIs
  <2>2. /\ HeadBytes \o t \in Seq(Byte) /\ Len(HeadBytes \o t) = Len(HeadBytes) + Len(t)
        /\ \A i \in 1..Len(HeadBytes) : (HeadBytes \o t)[i] = HeadBytes[i]
        /\ \A i \in 1..Len(t) : (HeadBytes \o t)[Len(HeadBytes) + i] = t[i]
    <3>1. HeadBytes \in Seq(Byte) /\ t \in Seq(Byte)
          BY <2>1, <1>1
    <3>2. QED
          BY <3>1, ConcatAt
  <2>3. QED
        BY <2>1, <2>2, <1>1, <1>3
<1>8. DOMAIN Answer = 1..24 /\ Len(Answer) = 24
      BY <1>7, SeqAt
<1>9. QED
      BY <1>1, <1>7, <1>8 DEF t

-----------------------------------------------------------------------------
(* The wire *)

\* What the wire carries: the answer with a byte changed, or none.
Carried(w, at, byte) == /\ at \in 1..24 /\ byte \in Byte
                        /\ w = [Answer EXCEPT ![at] = byte]

\* Whatever is damaged, that is what is carried.
LEMMA WireIs ==
    ASSUME NEW d \in Damage \cup {None}
    PROVE  \E at, byte : Carried(Wire[d], at, byte)
<1>1. Wire[d] = IF d = None THEN Answer ELSE [Answer EXCEPT ![d.at] = d.byte]
      BY DEF Wire
<1>2. CASE d = None
  <2>1. Answer[1] \in Byte /\ 1 \in 1..24
    <3>1. Answer[1] = 123
      <4>1. \A i \in 1..7 : Answer[i] = HeadBytes[i]
            BY AnswerAt
      <4>2. QED
            BY <4>1, HeadIs
    <3>2. QED
          BY <3>1 DEF Byte
  <2>2. Answer = [Answer EXCEPT ![1] = Answer[1]]
    <3>1. Answer = [i \in DOMAIN Answer |-> Answer[i]]
          BY AnswerAt
    <3>2. QED
          BY <3>1
  <2>3. Carried(Answer, 1, Answer[1])
        BY <2>1, <2>2 DEF Carried
  <2>4. QED
        BY <2>3, <1>1, <1>2
<1>3. CASE d # None
  <2>1. d \in Damage
        BY <1>3
  <2>2. PICK at \in 1..Len(Answer), byte \in Damages : d = [at |-> at, byte |-> byte]
        BY <2>1 DEF Damage
  <2>3. at \in 1..24
        BY AnswerAt
  <2>4. byte \in Byte
        BY DamageIsByte
  <2>5. d.at = at /\ d.byte = byte
        BY <2>2
  <2>6. QED
        BY <2>3, <2>4, <2>5, <1>1, <1>3 DEF Carried
<1>4. QED
      BY <1>2, <1>3

\* What is where on the wire.
LEMMA CarriedIs ==
    ASSUME NEW w, NEW at, NEW byte, Carried(w, at, byte)
    PROVE  /\ w \in Seq(Byte) /\ Len(w) = 24 /\ at \in 1..24 /\ w[at] = byte
           /\ \A i \in 1..24 : i # at => w[i] = Answer[i]
           /\ \A i \in 1..24 : w[i] \in Nat
<1>1. at \in 1..24 /\ byte \in Byte /\ w = [Answer EXCEPT ![at] = byte]
      BY DEF Carried
<1>2. Answer \in Seq(Byte) /\ Len(Answer) = 24 /\ DOMAIN Answer = 1..24 /\ at \in 1..Len(Answer)
      BY <1>1, AnswerAt
<1>3. w \in Seq(Byte) /\ Len(w) = 24
      BY <1>1, <1>2, ExceptSeq
<1>4. w[at] = byte /\ \A i \in 1..24 : i # at => w[i] = Answer[i]
      BY <1>1, <1>2
<1>5. \A i \in 1..24 : w[i] \in Nat
  <2>1. \A i \in 1..24 : w[i] \in Byte
        BY <1>3, SeqAt
  <2>2. QED
        BY <2>1, Ranges, Zenon
<1>6. QED
      BY <1>1, <1>3, <1>4, <1>5

-----------------------------------------------------------------------------
(* Parts of what the wire carries *)

\* The bytes after the first n, up to the m-th.
Slice(w, n, m) == SubSeq(w, n + 1, m)

\* What is where in a part of it.
LEMMA SliceIs ==
    ASSUME NEW S, NEW w \in Seq(S), NEW n \in Nat, NEW m \in Nat, n <= m, m <= Len(w)
    PROVE  /\ Slice(w, n, m) \in Seq(S) /\ Len(Slice(w, n, m)) = m - n
           /\ \A i \in 1..(m - n) : Slice(w, n, m)[i] = w[n + i]
<1> DEFINE x == n + 1
<1>1. /\ x \in Nat /\ 1 <= x /\ x <= m + 1 /\ m - x + 1 = m - n
      /\ \A i \in 1..(m - n) : x + i - 1 = n + i
      OBVIOUS
<1> HIDE DEF x
<1>2. /\ SubSeq(w, x, m) \in Seq(S) /\ Len(SubSeq(w, x, m)) = m - x + 1
      /\ \A i \in 1..(m - x + 1) : SubSeq(w, x, m)[i] = w[x + i - 1]
      BY <1>1, SubSeqAt
<1>3. QED
      BY <1>1, <1>2 DEF Slice, x

\* Two parts that follow each other are one.
LEMMA SliceJoin ==
    ASSUME NEW S, NEW w \in Seq(S), NEW k \in Nat, NEW n \in Nat, NEW m \in Nat,
           k <= n, n <= m, m <= Len(w)
    PROVE  Slice(w, k, n) \o Slice(w, n, m) = Slice(w, k, m)
<1> DEFINE a == Slice(w, k, n)
           b == Slice(w, n, m)
           c == Slice(w, k, m)
           t == a \o b
<1>0. Len(w) \in Nat /\ n <= Len(w) /\ k <= m
      OBVIOUS
<1>1. a \in Seq(S) /\ Len(a) = n - k /\ \A i \in 1..(n - k) : a[i] = w[k + i]
      BY <1>0, SliceIs
<1>2. b \in Seq(S) /\ Len(b) = m - n /\ \A i \in 1..(m - n) : b[i] = w[n + i]
      BY <1>0, SliceIs
<1>3. c \in Seq(S) /\ Len(c) = m - k /\ \A i \in 1..(m - k) : c[i] = w[k + i]
      BY <1>0, SliceIs
<1> HIDE DEF a, b, c
<1>4. /\ t \in Seq(S) /\ Len(t) = Len(a) + Len(b)
      /\ \A i \in 1..Len(a) : t[i] = a[i]
      /\ \A i \in 1..Len(b) : t[Len(a) + i] = b[i]
  <2>1. a \in Seq(S) /\ b \in Seq(S)
        BY <1>1, <1>2
  <2>2. QED
        BY <2>1, ConcatAt
<1> HIDE DEF t
<1>5. Len(t) = m - k
      BY <1>1, <1>2, <1>4
<1>6. ASSUME NEW i \in 1..(m - k) PROVE t[i] = c[i]
  <2>1. CASE i \in 1..(n - k)
    <3>1. t[i] = a[i] /\ a[i] = w[k + i]
          BY <2>1, <1>1, <1>4
    <3>2. QED
          BY <3>1, <1>3
  <2>2. CASE i \notin 1..(n - k)
    <3> DEFINE j == i - (n - k)
    <3>1. j \in 1..(m - n) /\ (n - k) + j = i /\ n + j = k + i
          BY <2>2
    <3> HIDE DEF j
    <3>2. t[Len(a) + j] = b[j] /\ b[j] = w[n + j]
          BY <3>1, <1>2, <1>4
    <3>3. QED
          BY <3>1, <3>2, <1>1, <1>3
  <2>3. QED
        BY <2>1, <2>2
<1>7. t = c
  <2>1. \A i \in 1..Len(t) : t[i] = c[i]
        BY <1>5, <1>6
  <2>2. t \in Seq(S) /\ c \in Seq(S) /\ Len(t) = Len(c)
        BY <1>3, <1>4, <1>5
  <2>3. QED
        BY <2>1, <2>2, SeqEqual
<1>8. QED
      BY <1>7 DEF t, a, b, c

\* Bytes are decoded part by part where no character goes across.
LEMMA DecodeCut ==
    ASSUME NEW w \in Seq(Byte), NEW k \in Nat, NEW n \in Nat, NEW m \in Nat,
           k <= n, n <= m, m <= Len(w),
           k = n \/ n = m \/ w[n] < 128 \/ w[n + 1] \notin 128..191
    PROVE  /\ Decode(Slice(w, k, m)) = Decode(Slice(w, k, n)) \o Decode(Slice(w, n, m))
           /\ Decode(Slice(w, k, n)) \in Seq(Nat) /\ Decode(Slice(w, n, m)) \in Seq(Nat)
<1> DEFINE a == Slice(w, k, n)
           b == Slice(w, n, m)
<1>0. Len(w) \in Nat /\ n <= Len(w)
      OBVIOUS
<1>k. w \in Seq(Byte) /\ k \in Nat /\ n \in Nat /\ k <= n
      OBVIOUS
<1>1. a \in Seq(Byte) /\ Len(a) = n - k /\ \A i \in 1..(n - k) : a[i] = w[k + i]
      BY ONLY <1>0, <1>k, SliceIs DEF a
<1>2. b \in Seq(Byte) /\ Len(b) = m - n /\ \A i \in 1..(m - n) : b[i] = w[n + i]
      BY <1>0, SliceIs
<1>3. a \o b = Slice(w, k, m)
      BY SliceJoin
<1> HIDE DEF a, b
<1>4. Apart(a, b)
  <2>1. CASE k = n
    <3>1. Len(a) = 0
          BY <2>1, <1>1
    <3>2. a = <<>>
          BY <3>1, <1>1, EmptySeq
    <3>3. QED
          BY <3>2 DEF Apart
  <2>2. CASE n = m
    <3>1. Len(b) = 0
          BY <2>2, <1>2
    <3>2. b = <<>>
          BY <3>1, <1>2, EmptySeq
    <3>3. QED
          BY <3>2 DEF Apart
  <2>3. CASE k # n /\ w[n] < 128
    <3>1. n - k \in 1..(n - k) /\ k + (n - k) = n
          BY <2>3
    <3>2. a[Len(a)] = w[n]
          BY <3>1, <1>1
    <3>3. QED
          BY <3>2, <2>3 DEF Apart
  <2>4. CASE n # m /\ w[n + 1] \notin 128..191
    <3>1. 1 \in 1..(m - n)
          BY <2>4
    <3>2. b[1] = w[n + 1]
          BY <3>1, <1>2
    <3>3. QED
          BY <3>2, <2>4 DEF Apart
  <2>5. QED
        BY <2>1, <2>2, <2>3, <2>4
<1>5. Decode(a \o b) = Decode(a) \o Decode(b)
      BY <1>1, <1>2, <1>4, DecodeConcat
<1>6. Decode(a) \in Seq(Nat) /\ Decode(b) \in Seq(Nat)
      BY <1>1, <1>2, DecodeType
<1>7. QED
      BY <1>3, <1>5, <1>6 DEF a, b

\* What comes after the JSON line, as far as it has come.
Later(w, m) == Decode(Slice(w, 7, m))

\* They are the acknowledgement's line with at most one byte damaged.
LEMMA TailBytes ==
    ASSUME NEW w, NEW at, NEW byte, Carried(w, at, byte)
    PROVE  /\ \A i \in 8..24 : i # at => w[i] < 128
           /\ \E a \in 1..17, y \in Byte :
                 Slice(w, 7, 24) = [BuildLine(AckPayload) EXCEPT ![a] = y]
<1> DEFINE t == BuildLine(AckPayload)
           s == Slice(w, 7, 24)
<1>1. /\ w \in Seq(Byte) /\ Len(w) = 24 /\ at \in 1..24 /\ w[at] = byte
      /\ \A i \in 1..24 : i # at => w[i] = Answer[i]
      BY CarriedIs
<1>2. \A i \in 1..17 : Answer[7 + i] = t[i]
      BY AnswerAt
<1>3. t \in Seq(Ascii) /\ t \in Seq(Byte) /\ Len(t) = 17
      BY AckLine
<1>4. byte \in Byte
      BY DEF Carried
<1> HIDE DEF t
<1>5. DOMAIN t = 1..17 /\ \A i \in 1..17 : t[i] \in Ascii /\ t[i] \in Byte
      BY <1>3, SeqAt
<1>6. \A i \in 1..17 : t[i] < 128
      BY <1>5, Ranges, Zenon
<1>7. \A i \in 8..24 : i # at => w[i] < 128
  <2>1. SUFFICES ASSUME NEW i \in 8..24, i # at PROVE w[i] < 128
        OBVIOUS
  <2>2. i - 7 \in 1..17 /\ 7 + (i - 7) = i /\ i \in 1..24
        OBVIOUS
  <2>3. w[i] = t[i - 7]
        BY <2>1, <2>2, <1>1, <1>2
  <2>4. QED
        BY <2>2, <2>3, <1>6
<1>8. s \in Seq(Byte) /\ DOMAIN s = 1..17 /\ \A i \in 1..17 : s[i] = w[7 + i]
  <2> DEFINE x == 7
             y == 24
  <2>0. w \in Seq(Byte) /\ x \in Nat /\ y \in Nat /\ x <= y /\ y <= Len(w)
        BY <1>1
  <2> HIDE DEF x, y
  <2>s. /\ Slice(w, x, y) \in Seq(Byte) /\ Len(Slice(w, x, y)) = y - x
        /\ \A i \in 1..(y - x) : Slice(w, x, y)[i] = w[x + i]
        BY ONLY <2>0, SliceIs
  <2>1. /\ s \in Seq(Byte) /\ Len(s) = 24 - 7
        /\ \A i \in 1..(24 - 7) : s[i] = w[7 + i]
        BY <2>s DEF x, y, s
  <2> HIDE DEF s
  <2>2. 24 - 7 = 17
        OBVIOUS
  <2>3. DOMAIN s = 1..Len(s)
        BY <2>1, SeqAt
  <2>4. QED
        BY <2>1, <2>2, <2>3
<1> HIDE DEF s
<1>9. \A i \in 1..17 : 7 + i \in 1..24 /\ (7 + i = at <=> i = at - 7)
      BY <1>1
<1>10. \E a \in 1..17, y \in Byte : s = [t EXCEPT ![a] = y]
  <2>1. CASE at \in 8..24
    <3> DEFINE a == at - 7
    <3>1. a \in 1..17 /\ 7 + a = at
          BY <2>1
    <3> HIDE DEF a
    <3>2. \A i \in 1..17 : s[i] = IF i = a THEN byte ELSE t[i]
      <4>1. ASSUME NEW i \in 1..17, i # a PROVE s[i] = t[i]
        <5>1. 7 + i # at /\ 7 + i \in 1..24
              BY <4>1, <3>1
        <5>2. QED
              BY <5>1, <1>1, <1>2, <1>8
      <4>2. s[a] = byte
            BY <3>1, <1>1, <1>8
      <4>3. QED
            BY <4>1, <4>2
    <3>3. s = [i \in 1..17 |-> s[i]]
          BY <1>8
    <3>4. s = [i \in 1..17 |-> IF i = a THEN byte ELSE t[i]]
          BY <3>2, <3>3
    <3>5. s = [t EXCEPT ![a] = byte]
          BY <3>4, <1>5
    <3>6. QED
          BY <3>1, <3>5, <1>4
  <2>2. CASE at \notin 8..24
    <3>1. \A i \in 1..17 : 7 + i # at /\ 7 + i \in 1..24
          BY <2>2, <1>1
    <3>2. \A i \in 1..17 : s[i] = t[i]
          BY <3>1, <1>1, <1>2, <1>8
    <3>3. s = [i \in 1..17 |-> s[i]] /\ t = [i \in 1..17 |-> t[i]]
          BY <1>3, <1>5, <1>8
    <3>4. s = t
          BY <3>2, <3>3
    <3>5. t = [t EXCEPT ![1] = t[1]]
          BY <3>3
    <3>6. 1 \in 1..17
          OBVIOUS
    <3>7. QED
          BY <3>4, <3>5, <3>6, <1>5
  <2>3. QED
        BY <2>1, <2>2
<1>11. QED
       BY <1>7, <1>10 DEF s, t

\* They may be decoded in parts.
LEMMA TailMore ==
    ASSUME NEW w, NEW at, NEW byte, Carried(w, at, byte), NEW n \in 7..24, NEW m \in 7..24, n <= m
    PROVE  /\ Later(w, n) \in Seq(Nat) /\ Decode(Slice(w, n, m)) \in Seq(Nat)
           /\ Later(w, m) = Later(w, n) \o Decode(Slice(w, n, m))
<1>1. w \in Seq(Byte) /\ Len(w) = 24
      BY CarriedIs
<1>2. \A i \in 8..24 : i # at => w[i] < 128
      BY TailBytes
<1>3. 7 = n \/ n = m \/ w[n] < 128 \/ w[n + 1] \notin 128..191
  <2>1. SUFFICES ASSUME n # 7, n # m, ~(w[n] < 128) PROVE w[n + 1] \notin 128..191
        OBVIOUS
  <2>2. n \in 8..24 /\ n + 1 \in 8..24 /\ n + 1 # n
        BY <2>1
  <2>3. n = at
        BY <2>1, <2>2, <1>2
  <2>4. w[n + 1] < 128
        BY <2>2, <2>3, <1>2
  <2>5. QED
        BY <2>4, Ranges
<1> DEFINE k == 7
<1>4. /\ w \in Seq(Byte) /\ k \in Nat /\ n \in Nat /\ m \in Nat /\ k <= n /\ n <= m /\ m <= Len(w)
      /\ k = n \/ n = m \/ w[n] < 128 \/ w[n + 1] \notin 128..191
      BY <1>1, <1>3
<1> HIDE DEF k
<1>5. /\ Decode(Slice(w, k, m)) = Decode(Slice(w, k, n)) \o Decode(Slice(w, n, m))
      /\ Decode(Slice(w, k, n)) \in Seq(Nat) /\ Decode(Slice(w, n, m)) \in Seq(Nat)
      BY ONLY <1>4, DecodeCut
<1>6. QED
      BY <1>5 DEF Later, k

\* A frame after the JSON line is the acknowledgement, however it is damaged.
LEMMA TailFrames ==
    ASSUME NEW w, NEW at, NEW byte, Carried(w, at, byte), NEW m \in 7..24,
           NEW line \in CompleteLines(Later(w, m)), IsFrame(line)
    PROVE  PayloadOf(line) = AckPayload
<1> DEFINE p == AckPayload
           t == BuildLine(p)
<1>1. PICK a \in 1..17, y \in Byte : Slice(w, 7, 24) = [t EXCEPT ![a] = y]
      BY TailBytes
<1>2. Plain(p) /\ Len(p) = 11
      BY AckIs
<1>3. Encode(t) = t /\ Len(t) = 17 /\ t \in Seq(Nat)
      BY AckLine
<1> DEFINE c == Alone(y)
           u == [t EXCEPT ![a] = c]
<1>4. DOMAIN t = 1..17
      BY <1>3, SeqAt
<1>5. /\ a \in 1..(Len(p) + 6) /\ c \in Ascii \cup {Replacement} /\ Later(w, 24) = u
  <2>1. a \in DOMAIN Encode(t)
        BY <1>3, <1>4
  <2>2. /\ a \in 1..(Len(p) + 6) /\ c \in Ascii \cup {Replacement}
        /\ Decode([Encode(t) EXCEPT ![a] = y]) = u
        BY <2>1, <1>2, DamagedText
  <2>3. QED
        BY <2>2, <1>1, <1>3 DEF Later
<1>6. line \in CompleteLines(Later(w, 24))
  <2>1. 24 \in 7..24 /\ m <= 24
        OBVIOUS
  <2>2. /\ Later(w, m) \in Seq(Nat) /\ Decode(Slice(w, m, 24)) \in Seq(Nat)
        /\ Later(w, 24) = Later(w, m) \o Decode(Slice(w, m, 24))
        BY <2>1, TailMore
  <2>3. CompleteLines(Later(w, m)) \subseteq CompleteLines(Later(w, 24))
        BY <2>2, LinesMore
  <2>4. QED
        BY <2>3
<1>7. u \in Seq(Nat)
  <2>1. 24 \in 7..24
        OBVIOUS
  <2>2. Later(w, 24) \in Seq(Nat)
        BY <2>1, TailMore
  <2>3. QED
        BY <2>2, <1>5
<1>8. PICK b, e : IsLine(u, b, e) /\ line = Strip(SubSeq(u, b + 1, e - 1))
  <2>1. line \in CompleteLines(u)
        BY <1>5, <1>6
  <2> HIDE DEF u
  <2>2. QED
        BY <2>1, <1>7, LinesAre
<1>9. FrameOfDamaged(p, a, c, u, b, e)
      BY <1>2, <1>5, <1>8 DEF FrameOfDamaged
<1> HIDE DEF p, t, c, u
<1>10. PayloadOf(Strip(SubSeq(u, b + 1, e - 1))) = p
       BY ONLY <1>9, DamagedLine
<1>11. QED
       BY <1>8, <1>10 DEF p

-----------------------------------------------------------------------------
(* What a read finds *)

\* What is left has no line feed, and nothing that was not there.
LEMMA RestHolds ==
    ASSUME NEW text \in Seq(Nat)
    PROVE  /\ RestOf(text) \in Seq(Nat)
           /\ LF \notin ToSet(RestOf(text)) /\ ToSet(RestOf(text)) \subseteq ToSet(text)
<1>1. PICK b : IsLastFeed(text, b)
      BY LastFeedExists
<1> DEFINE n == Len(text)
           r == RestOf(text)
<1>2. n \in Nat /\ DOMAIN text = 1..n
      BY SeqAt
<1>3. b \in 0..n /\ \A i \in 1..n : b < i => text[i] # LF
      BY <1>1 DEF IsLastFeed
<1>4. /\ r \in Seq(Nat) /\ Len(r) = n - b
      /\ \A i \in 1..(n - b) : r[i] = text[b + i]
  <2> DEFINE e == n + 1
  <2>1. b \in 0..Len(text) /\ e \in 1..(Len(text) + 1) /\ b < e
        BY <1>2, <1>3
  <2>2. e - 1 - b = n - b
        BY <1>2, <1>3
  <2>3. RestOf(text) = Inner(text, b, e)
        BY <1>1, RestAt
  <2> HIDE DEF e
  <2>4. /\ SubSeq(text, b + 1, e - 1) \in Seq(Nat)
        /\ Len(SubSeq(text, b + 1, e - 1)) = e - 1 - b
        /\ \A i \in 1..(e - 1 - b) : SubSeq(text, b + 1, e - 1)[i] = text[b + i]
        BY <2>1, Between
  <2>5. QED
        BY <2>2, <2>3, <2>4 DEF Inner
<1> HIDE DEF r, n
<1>5. DOMAIN r = 1..(n - b)
      BY <1>4, SeqAt
<1>6. \A i \in DOMAIN r : r[i] # LF /\ r[i] \in ToSet(text)
  <2>1. SUFFICES ASSUME NEW i \in 1..(n - b) PROVE r[i] # LF /\ r[i] \in ToSet(text)
        BY <1>5
  <2>2. b + i \in 1..n /\ b < b + i
        BY <1>2, <1>3
  <2>3. r[i] = text[b + i] /\ text[b + i] # LF
        BY <2>2, <1>3, <1>4
  <2>4. QED
        BY <2>2, <2>3, <1>2 DEF ToSet
<1>7. LF \notin ToSet(r) /\ ToSet(r) \subseteq ToSet(text)
      BY <1>6 DEF ToSet
<1>8. QED
      BY <1>4, <1>7 DEF r

\* A line holds nothing that was not there.
LEMMA LineHolds ==
    ASSUME NEW text \in Seq(Nat), NEW line \in CompleteLines(text)
    PROVE  line \in Seq(Nat) /\ ToSet(line) \subseteq ToSet(text)
<1>1. PICK b, e : IsLine(text, b, e) /\ line = Strip(SubSeq(text, b + 1, e - 1))
      BY LinesAre
<1> DEFINE s == SubSeq(text, b + 1, e - 1)
           n == Len(text)
<1>2. s \in Seq(Nat) /\ b \in 0..n /\ e \in 1..n /\ b < e
      BY <1>1, LineType
<1>3. n \in Nat /\ DOMAIN text = 1..n
      BY SeqAt
<1>4. e \in 1..(n + 1)
      BY <1>2, <1>3
<1>5. Len(s) = e - 1 - b /\ \A i \in 1..(e - 1 - b) : s[i] = text[b + i]
      BY <1>2, <1>4, Between
<1> HIDE DEF s, n
<1>6. DOMAIN s = 1..(e - 1 - b)
      BY <1>2, <1>5, SeqAt
<1>7. \A i \in 1..(e - 1 - b) : b + i \in 1..n
      BY <1>2, <1>3
<1>8. ToSet(s) \subseteq ToSet(text)
      BY <1>3, <1>5, <1>6, <1>7 DEF ToSet
<1>9. line \in Seq(Nat) /\ ToSet(line) \subseteq ToSet(s)
  <2>1. Strip(s) \in Seq(Nat) /\ ToSet(Strip(s)) \subseteq ToSet(s)
        BY <1>2, StripType
  <2>2. line = Strip(s)
        BY <1>1 DEF s
  <2>3. QED
        BY <2>1, <2>2
<1>10. QED
       BY <1>8, <1>9

\* An ASCII character of what was decoded is a byte of it.
LEMMA SliceDecoded ==
    ASSUME NEW w, NEW at, NEW byte, Carried(w, at, byte),
           NEW n \in 0..24, NEW m \in 0..24, n <= m
    PROVE  /\ Slice(w, n, m) \in Seq(Byte) /\ Decode(Slice(w, n, m)) \in Seq(Nat)
           /\ \A c \in ToSet(Decode(Slice(w, n, m))) :
                 c < 128 => \E j \in (n + 1)..m : c = w[j]
<1> DEFINE s == Slice(w, n, m)
<1>1. w \in Seq(Byte) /\ Len(w) = 24
      BY CarriedIs
<1>2. w \in Seq(Byte) /\ n \in Nat /\ m \in Nat /\ n <= m /\ m <= Len(w)
      BY <1>1
<1>3. /\ s \in Seq(Byte) /\ Len(s) = m - n
      /\ \A i \in 1..(m - n) : s[i] = w[n + i]
      BY ONLY <1>2, SliceIs DEF s
<1> HIDE DEF s
<1>4. DOMAIN s = 1..(m - n)
      BY <1>3, SeqAt
<1>5. Decode(s) \in Seq(Nat) /\ \A c \in ToSet(Decode(s)) : c < 128 => c \in ToSet(s)
      BY <1>3, DecodeType
<1>6. \A i \in 1..(m - n) : n + i \in (n + 1)..m
      OBVIOUS
<1>7. \A c \in ToSet(s) : \E j \in (n + 1)..m : c = w[j]
      BY <1>3, <1>4, <1>6 DEF ToSet
<1>8. QED
      BY <1>3, <1>5, <1>7 DEF s

\* The bytes of the JSON line, one of them damaged, hold no frame.
OfHead(w, text) == \A c \in ToSet(text) : c < 128 => \E j \in 1..7 : c = w[j]

\* There is no frame in such a text: a dollar and a star are two damaged bytes.
LEMMA HeadNoFrame ==
    ASSUME NEW w, NEW at, NEW byte, Carried(w, at, byte),
           NEW text \in Seq(Nat), OfHead(w, text), NEW line \in CompleteLines(text)
    PROVE  ~IsFrame(line)
<1>1. SUFFICES ASSUME IsFrame(line) PROVE FALSE
      OBVIOUS
<1>2. line \in Seq(Nat) /\ ToSet(line) \subseteq ToSet(text)
      BY LineHolds
<1>3. Dollar \in ToSet(line) /\ Star \in ToSet(line)
      BY <1>1, <1>2, FrameHolds
<1>4. Dollar < 128 /\ Star < 128 /\ Dollar # Star
      BY DEF Dollar, Star
<1>5. PICK i \in 1..7 : w[i] = Dollar
      BY <1>2, <1>3, <1>4 DEF OfHead
<1>6. PICK j \in 1..7 : w[j] = Star
      BY <1>2, <1>3, <1>4 DEF OfHead
<1>c. \A k \in 1..24 : k # at => w[k] = Answer[k]
  <2>1. /\ w \in Seq(Byte) /\ Len(w) = 24 /\ at \in 1..24 /\ w[at] = byte
        /\ \A k \in 1..24 : k # at => w[k] = Answer[k]
        BY CarriedIs
  <2>2. QED
        BY <2>1
<1>7. \A k \in 1..7 : k # at => w[k] # Dollar /\ w[k] # Star
  <2>1. SUFFICES ASSUME NEW k \in 1..7, k # at PROVE w[k] # Dollar /\ w[k] # Star
        OBVIOUS
  <2>2. w[k] = Answer[k]
    <3>1. k \in 1..24
          OBVIOUS
    <3>2. QED
          BY <2>1, <3>1, <1>c
  <2>3. Answer[k] = HeadBytes[k]
        BY AnswerAt
  <2>4. \A a \in 1..7 : HeadBytes[a] # 36 /\ HeadBytes[a] # 42
        BY HeadIs
  <2>5. QED
        BY <2>2, <2>3, <2>4 DEF Dollar, Star
<1>8. QED
      BY <1>4, <1>5, <1>6, <1>7

\* A text that begins with the brace of the JSON line begins no frame.
LEMMA BraceNoFrame ==
    ASSUME NEW s \in Seq(Nat), s # <<>>, s[1] = 123
    PROVE  ~IsFrame(Strip(s))
<1>1. 123 \notin White /\ Dollar # 123
      BY DEF White, Dollar
<1>2. Len(s) \in Nat /\ DOMAIN s = 1..Len(s) /\ Len(s) # 0
      BY SeqAt, EmptySeq
<1>3. 1 \in DOMAIN s
      BY <1>2
<1>4. PICK a, b : Spans(s, a, b) /\ Strip(s) = SubSeq(s, a, b)
      BY <1>1, <1>3, StripSpan
<1>5. a = 1 /\ b \in 1..Len(s)
  <2>1. a \in 1..Len(s) /\ b \in 1..Len(s)
        BY <1>2, <1>4 DEF Spans
  <2>2. ~(1 < a)
        BY <1>1, <1>3, <1>4 DEF Spans
  <2>3. QED
        BY <2>1, <2>2, <1>2
<1>6. SubSeq(s, 1, b)[1] = s[1]
  <2>1. b \in Nat /\ 1 \in Nat /\ 1 <= 1 /\ 1 <= b + 1 /\ b <= Len(s) /\ b - 1 + 1 = b /\ 1 + 1 - 1 = 1
        /\ 1 \in 1..b
        BY <1>2, <1>5
  <2>2. \A i \in 1..(b - 1 + 1) : SubSeq(s, 1, b)[i] = s[1 + i - 1]
        BY <2>1, SubSeqAt
  <2>3. QED
        BY <2>1, <2>2
<1>7. Strip(s)[1] # Dollar
      BY <1>1, <1>4, <1>5, <1>6
<1>8. QED
      BY <1>7 DEF IsFrame

\* No byte is decoded to nothing.
LEMMA SliceNone ==
    ASSUME NEW w, NEW at, NEW byte, Carried(w, at, byte), NEW n \in 0..24
    PROVE  Decode(Slice(w, n, n)) = <<>>
<1> DEFINE s == Slice(w, n, n)
<1>1. w \in Seq(Byte) /\ Len(w) = 24
      BY CarriedIs
<1>2. w \in Seq(Byte) /\ n \in Nat /\ n \in Nat /\ n <= n /\ n <= Len(w)
      BY <1>1
<1>3. s \in Seq(Byte) /\ Len(s) = n - n
      BY ONLY <1>2, SliceIs DEF s
<1> HIDE DEF s
<1>4. s = <<>>
  <2>1. n - n = 0
        OBVIOUS
  <2>2. QED
        BY <1>3, <2>1, EmptySeq
<1>5. Decode(<<>>) = <<>>
  <2> DEFINE z == <<>>
  <2>1. z \in Seq(Ascii)
        OBVIOUS
  <2> HIDE DEF z
  <2>2. Decode(z) = z
        BY <2>1, DecodeAscii
  <2>3. QED
        BY <2>2 DEF z
<1>6. QED
      BY <1>4, <1>5 DEF s

\* One byte is decoded alone.
LEMMA SliceOne ==
    ASSUME NEW w, NEW at, NEW byte, Carried(w, at, byte), NEW j \in 0..24, NEW k \in 0..24, k = j + 1
    PROVE  Decode(Slice(w, j, k)) = <<Alone(w[k])>>
<1> DEFINE s == Slice(w, j, k)
<1>1. w \in Seq(Byte) /\ Len(w) = 24
      BY CarriedIs
<1>2. w \in Seq(Byte) /\ j \in Nat /\ k \in Nat /\ j <= k /\ k <= Len(w)
      BY <1>1
<1>3. s \in Seq(Byte) /\ Len(s) = k - j /\ \A i \in 1..(k - j) : s[i] = w[j + i]
      BY ONLY <1>2, SliceIs DEF s
<1> HIDE DEF s
<1>4. Len(s) = 1 /\ s[1] = w[k]
      BY <1>3
<1>5. s = <<w[k]>> /\ w[k] \in Byte
  <2>1. s \in Seq(Byte) /\ Len(s) = 1
        BY <1>3, <1>4
  <2>2. s = <<s[1]>>
        BY ONLY <2>1
  <2>3. s[1] \in Byte
        BY ONLY <2>1, SeqAt
  <2>4. QED
        BY <2>2, <2>3, <1>4
<1>6. QED
      BY <1>5, DecodeAlone DEF s

\* If the line feed of the JSON line is damaged, nothing else is.
LEMMA OnlyFeed ==
    ASSUME NEW w, NEW at, NEW byte, Carried(w, at, byte), w[7] # LF
    PROVE  /\ w[1] = 123 /\ w[23] = CR /\ w[24] = LF
           /\ \A i \in 1..23 : w[i] # LF
<1> DEFINE p == AckPayload
           t == BuildLine(p)
<1>1. /\ w \in Seq(Byte) /\ Len(w) = 24 /\ at \in 1..24 /\ w[at] = byte
      /\ \A i \in 1..24 : i # at => w[i] = Answer[i]
      BY CarriedIs
<1>2. /\ \A i \in 1..7 : Answer[i] = HeadBytes[i]
      /\ \A i \in 1..17 : Answer[7 + i] = t[i]
      BY AnswerAt
<1>3. HeadBytes[1] = 123 /\ HeadBytes[7] = LF /\ \A i \in 1..6 : HeadBytes[i] # LF
      BY HeadIs DEF LF
<1>4. p \in Seq(Nat) /\ Plain(p) /\ Len(p) = 11
      BY AckIs
<1>5. t[Len(p) + 5] = CR
      BY <1>4, LineAt
<1>6. \A i \in 1..(Len(p) + 6) : t[i] = LF <=> i = Len(p) + 6
      BY <1>4, LineMarks
<1> HIDE DEF p, t
<1>7. at = 7
  <2>1. 7 \in 1..24 /\ 7 \in 1..7
        OBVIOUS
  <2>2. Answer[7] = LF
        BY <2>1, <1>2, <1>3
  <2>3. 7 # at => w[7] = Answer[7]
        BY <2>1, <1>1
  <2>4. QED
        BY <2>2, <2>3
<1>8. \A i \in 1..17 : w[7 + i] = t[i]
  <2>1. \A i \in 1..17 : 7 + i \in 1..24 /\ 7 + i # 7
        OBVIOUS
  <2>2. QED
        BY <2>1, <1>1, <1>2, <1>7
<1>9. \A i \in 1..6 : w[i] = HeadBytes[i]
  <2>1. \A i \in 1..6 : i \in 1..24 /\ i # 7 /\ i \in 1..7
        OBVIOUS
  <2>2. QED
        BY <2>1, <1>1, <1>2, <1>7
<1>10. t[16] = CR /\ t[17] = LF /\ \A i \in 1..16 : t[i] # LF
       BY <1>4, <1>5, <1>6
<1>11. w[1] = 123 /\ w[23] = CR /\ w[24] = LF
       BY <1>3, <1>8, <1>9, <1>10
<1>12. ASSUME NEW i \in 1..23 PROVE w[i] # LF
  <2>1. CASE i \in 1..6
        BY <2>1, <1>3, <1>9
  <2>2. CASE i = 7
        BY <2>2
  <2>3. CASE i \in 8..23
    <3>1. i - 7 \in 1..16 /\ i - 7 \in 1..17 /\ 7 + (i - 7) = i
          BY <2>3
    <3>2. w[i] = t[i - 7]
          BY <3>1, <1>8
    <3>3. QED
          BY <3>1, <3>2, <1>10
  <2>4. QED
        BY <2>1, <2>2, <2>3
<1>13. QED
       BY <1>11, <1>12

\* What the buffer may hold when n bytes of w have been read: the JSON line as
\* far as it has come; once a line feed has ended it, what is left of the rest.
Fits(w, n, held) ==
    /\ held \in Seq(Nat)
    /\ n = 0 => held = <<>>
    /\ w[7] = LF /\ n < 7 => OfHead(w, held)
    /\ w[7] = LF /\ 7 <= n => held = RestOf(Later(w, n))
    /\ w[7] # LF => LF \notin ToSet(held)
    /\ w[7] # LF /\ 0 < n /\ n < 24 => held # <<>> /\ held[1] = 123

\* A frame has arrived among the first n bytes.
Found(w, n) == w[7] = LF /\ 7 <= n /\ \E line \in CompleteLines(Later(w, n)) : IsFrame(line)

\* Between two reads the next bytes are decoded and appended to what is left.
Reading(w, n, m, held, text) ==
    /\ \E at, byte : Carried(w, at, byte)
    /\ n \in 0..24 /\ m \in 0..24 /\ n <= m
    /\ Fits(w, n, held)
    /\ text = held \o Decode(Slice(w, n, m))

ReadRight(w, n, m, text) ==
    /\ text \in Seq(Nat)
    /\ Fits(w, m, RestOf(text))
    /\ \A line \in CompleteLines(text) :
          IsFrame(line) => Found(w, m) /\ PayloadOf(line) = AckPayload
    /\ Found(w, m) /\ ~Found(w, n) => \E line \in CompleteLines(text) : IsFrame(line)

\* What two texts hold together one of them holds.
LEMMA ToSetConcat ==
    ASSUME NEW a \in Seq(Nat), NEW b \in Seq(Nat)
    PROVE  \A c \in ToSet(a \o b) : c \in ToSet(a) \/ c \in ToSet(b)
<1> DEFINE t == a \o b
           n == Len(a)
           m == Len(b)
<1>1. /\ t \in Seq(Nat) /\ n \in Nat /\ m \in Nat /\ Len(t) = n + m
      /\ \A i \in 1..n : t[i] = a[i]
      /\ \A i \in 1..m : t[n + i] = b[i]
      BY Joint
<1>2. DOMAIN a = 1..n /\ DOMAIN b = 1..m
      BY SeqAt
<1> HIDE DEF t, n, m
<1>3. DOMAIN t = 1..(n + m)
      BY <1>1, SeqAt
<1>4. ASSUME NEW i \in 1..(n + m) PROVE t[i] \in ToSet(a) \/ t[i] \in ToSet(b)
  <2>1. CASE i \in 1..n
        BY <2>1, <1>1, <1>2 DEF ToSet
  <2>2. CASE i \notin 1..n
    <3>1. i - n \in 1..m /\ n + (i - n) = i
          BY <2>2, <1>1
    <3>2. t[i] = b[i - n]
          BY <3>1, <1>1
    <3>3. QED
          BY <3>1, <3>2, <1>2 DEF ToSet
  <2>3. QED
        BY <2>1, <2>2
<1>5. \A c \in ToSet(t) : \E i \in 1..(n + m) : c = t[i]
      BY <1>3 DEF ToSet
<1>6. QED
      BY <1>4, <1>5 DEF t

\* Before the line feed of the JSON line.
LEMMA ReadHead ==
    ASSUME NEW w, NEW n, NEW m, NEW held, NEW text, Reading(w, n, m, held, text),
           w[7] = LF, n < 7, m <= 7
    PROVE  /\ text \in Seq(Nat) /\ OfHead(w, text)
           /\ \A line \in CompleteLines(text) : ~IsFrame(line)
<1>1. PICK at, byte : Carried(w, at, byte)
      BY DEF Reading
<1> DEFINE d == Decode(Slice(w, n, m))
<1>2. /\ n \in 0..24 /\ m \in 0..24 /\ n <= m /\ held \in Seq(Nat) /\ OfHead(w, held)
      /\ text = held \o d
      BY DEF Reading, Fits
<1>3. /\ d \in Seq(Nat)
      /\ \A c \in ToSet(d) : c < 128 => \E j \in (n + 1)..m : c = w[j]
      BY <1>1, <1>2, SliceDecoded
<1> HIDE DEF d
<1>4. \A j \in (n + 1)..m : j \in 1..7
      BY <1>2
<1>5. \A c \in ToSet(d) : c < 128 => \E j \in 1..7 : c = w[j]
      BY <1>3, <1>4
<1>6. text \in Seq(Nat)
      BY <1>2, <1>3, Joint
<1>7. \A c \in ToSet(text) : c \in ToSet(held) \/ c \in ToSet(d)
      BY <1>2, <1>3, ToSetConcat
<1>8. OfHead(w, text)
      BY <1>2, <1>5, <1>7 DEF OfHead
<1>9. QED
      BY <1>1, <1>6, <1>8, HeadNoFrame

\* Across it.
Crossing(w, m, text, a) ==
    /\ a \in Seq(Nat) /\ EndsLine(a) /\ \A line \in CompleteLines(a) : ~IsFrame(line)
    /\ Later(w, m) \in Seq(Nat) /\ text = a \o Later(w, m)

\* A read across the line feed of the JSON line ends in one.
LEMMA ReadAcross ==
    ASSUME NEW w, NEW n, NEW m, NEW held, NEW text, Reading(w, n, m, held, text),
           w[7] = LF, n < 7, 7 <= m
    PROVE  \E a : Crossing(w, m, text, a)
<1>1. PICK at, byte : Carried(w, at, byte)
      BY DEF Reading
<1> DEFINE k == 7
           j == 6
           d == Decode(Slice(w, n, k))
           f == Decode(Slice(w, n, j))
           g == Decode(Slice(w, j, k))
           a == held \o d
<1>2. /\ n \in 0..24 /\ m \in 0..24 /\ n <= m /\ held \in Seq(Nat) /\ Fits(w, n, held)
      /\ text = held \o Decode(Slice(w, n, m))
      BY DEF Reading, Fits
<1>3. w \in Seq(Byte) /\ Len(w) = 24
      BY <1>1, CarriedIs
<1>4. Decode(Slice(w, n, m)) = d \o Later(w, m) /\ d \in Seq(Nat) /\ Later(w, m) \in Seq(Nat)
  <2> HIDE DEF k
  <2>1. /\ w \in Seq(Byte) /\ n \in Nat /\ k \in Nat /\ m \in Nat /\ n <= k /\ k <= m /\ m <= Len(w)
        /\ n = k \/ k = m \/ w[k] < 128 \/ w[k + 1] \notin 128..191
        BY <1>2, <1>3 DEF k, LF
  <2>2. /\ Decode(Slice(w, n, m)) = Decode(Slice(w, n, k)) \o Decode(Slice(w, k, m))
        /\ Decode(Slice(w, n, k)) \in Seq(Nat) /\ Decode(Slice(w, k, m)) \in Seq(Nat)
        BY ONLY <2>1, DecodeCut
  <2>3. QED
        BY <2>2 DEF Later, k
<1>5. d = f \o g /\ f \in Seq(Nat) /\ g \in Seq(Nat)
  <2>0. w[j + 1] \notin 128..191
    <3>1. j + 1 = 7 /\ 10 \notin 128..191
          OBVIOUS
    <3> HIDE DEF j
    <3>2. QED
          BY <3>1 DEF LF
  <2>i. /\ n \in Nat /\ j \in Nat /\ k \in Nat /\ n <= j /\ j <= k /\ k <= Len(w)
        BY <1>2, <1>3
  <2> HIDE DEF k, j
  <2>1. /\ w \in Seq(Byte) /\ n \in Nat /\ j \in Nat /\ k \in Nat /\ n <= j /\ j <= k /\ k <= Len(w)
        /\ n = j \/ j = k \/ w[j] < 128 \/ w[j + 1] \notin 128..191
        BY ONLY <1>3, <2>0, <2>i
  <2>2. /\ Decode(Slice(w, n, k)) = Decode(Slice(w, n, j)) \o Decode(Slice(w, j, k))
        /\ Decode(Slice(w, n, j)) \in Seq(Nat) /\ Decode(Slice(w, j, k)) \in Seq(Nat)
        BY ONLY <2>1, DecodeCut
  <2>3. QED
        BY <2>2
<1>6. g = <<LF>>
  <2>1. Slice(w, j, k) = <<w[7]>>
    <3>1. Slice(w, j, k) \in Seq(Byte) /\ Len(Slice(w, j, k)) = k - j
          /\ \A i \in 1..(k - j) : Slice(w, j, k)[i] = w[j + i]
      <4> HIDE DEF k, j
      <4>1. w \in Seq(Byte) /\ j \in Nat /\ k \in Nat /\ j <= k /\ k <= Len(w)
            BY <1>3 DEF k, j
      <4>2. QED
            BY ONLY <4>1, SliceIs
    <3> DEFINE s == Slice(w, j, k)
    <3>2. s \in Seq(Byte) /\ Len(s) = 1 /\ s[1] = w[7]
          BY <3>1
    <3> HIDE DEF s
    <3>3. s = <<s[1]>>
          BY <3>2
    <3>4. QED
          BY <3>2, <3>3 DEF s
  <2>2. LF \in Byte /\ Alone(LF) = LF
        BY DEF Byte, Alone, LF
  <2>3. QED
        BY <2>1, <2>2, DecodeAlone
<1>7. Reading(w, n, k, held, a)
  <2>1. k \in 0..24 /\ n <= k
        BY <1>2
  <2>2. QED
        BY <1>1, <1>2, <2>1 DEF Reading
<1>8. a \in Seq(Nat) /\ \A line \in CompleteLines(a) : ~IsFrame(line)
  <2>1. k <= 7
        OBVIOUS
  <2> HIDE DEF a, k
  <2>2. QED
        BY <1>7, <2>1, ReadHead
<1> HIDE DEF k, j
<1>9. EndsLine(a)
  <2>1. d \in Seq(Nat) /\ Len(d) = Len(f) + 1 /\ Len(f) \in Nat /\ d[Len(f) + 1] = LF
    <3>1. g \in Seq(Nat) /\ Len(g) = 1 /\ g[1] = LF /\ 1 \in 1..1
          BY <1>6 DEF LF
    <3> HIDE DEF d, f, g
    <3>2. /\ Len(f) \in Nat /\ Len(f \o g) = Len(f) + Len(g)
          /\ \A i \in 1..Len(g) : (f \o g)[Len(f) + i] = g[i]
          BY <1>5, Joint
    <3>3. QED
          BY <3>1, <3>2, <1>4, <1>5
  <2> HIDE DEF d, f
  <2>2. /\ Len(held) \in Nat /\ Len(held \o d) = Len(held) + Len(d)
        /\ \A i \in 1..Len(d) : (held \o d)[Len(held) + i] = d[i]
        BY <1>2, <2>1, Joint
  <2>3. Len(d) \in 1..Len(d)
        BY <2>1
  <2>4. a[Len(a)] = d[Len(d)]
        BY <2>2, <2>3
  <2>5. QED
        BY <2>1, <2>4 DEF EndsLine
<1>10. text = a \o Later(w, m)
  <2> HIDE DEF d
  <2>1. (held \o d) \o Later(w, m) = held \o (d \o Later(w, m))
        BY <1>2, <1>4, Regroup
  <2>2. QED
        BY <2>1, <1>2, <1>4
<1>11. Crossing(w, m, text, a)
       BY <1>4, <1>8, <1>9, <1>10 DEF Crossing
<1>12. QED
       BY <1>11

\* Before the line feed of the JSON line nothing is found.
LEMMA ReadBefore ==
    ASSUME NEW w, NEW n, NEW m, NEW held, NEW text, Reading(w, n, m, held, text),
           w[7] = LF, m < 7
    PROVE  ReadRight(w, n, m, text)
<1>1. n \in 0..24 /\ m \in 0..24 /\ n <= m
      BY DEF Reading
<1>2. n < 7 /\ m <= 7
      BY <1>1
<1>3. /\ text \in Seq(Nat) /\ OfHead(w, text)
      /\ \A line \in CompleteLines(text) : ~IsFrame(line)
      BY <1>2, ReadHead
<1>4. RestOf(text) \in Seq(Nat) /\ ToSet(RestOf(text)) \subseteq ToSet(text)
      BY <1>3, RestHolds
<1>5. OfHead(w, RestOf(text))
      BY <1>3, <1>4 DEF OfHead
<1>6. ~(7 <= m)
      BY <1>1
<1>7. m = 0 => RestOf(text) = <<>>
  <2>1. SUFFICES ASSUME m = 0 PROVE RestOf(text) = <<>>
        OBVIOUS
  <2>2. n = 0 /\ held = <<>> /\ text = held \o Decode(Slice(w, n, m))
    <3>1. n = 0
          BY <1>1, <2>1
    <3>2. QED
          BY <3>1 DEF Reading, Fits
  <2>3. PICK at, byte : Carried(w, at, byte)
        BY DEF Reading
  <2>5. Decode(Slice(w, n, m)) = <<>>
        BY <1>1, <2>1, <2>2, <2>3, SliceNone
  <2>6. text = <<>>
        BY <2>2, <2>5
  <2>7. LF \notin ToSet(text)
        BY <2>6 DEF ToSet
  <2>8. QED
        BY <1>3, <2>6, <2>7, NoFeed
<1>8. Fits(w, m, RestOf(text))
      BY <1>4, <1>5, <1>6, <1>7 DEF Fits
<1>9. ~Found(w, m)
      BY <1>6 DEF Found
<1>10. QED
       BY <1>3, <1>8, <1>9 DEF ReadRight

\* A read that crosses it finds what has arrived of the rest.
LEMMA ReadCrosses ==
    ASSUME NEW w, NEW n, NEW m, NEW held, NEW text, Reading(w, n, m, held, text),
           w[7] = LF, n < 7, 7 <= m
    PROVE  ReadRight(w, n, m, text)
<1>0. PICK a : Crossing(w, m, text, a)
      BY ReadAcross
<1>1. /\ a \in Seq(Nat) /\ EndsLine(a) /\ \A line \in CompleteLines(a) : ~IsFrame(line)
      /\ Later(w, m) \in Seq(Nat) /\ text = a \o Later(w, m)
      BY <1>0 DEF Crossing
<1> DEFINE r == Later(w, m)
<1>2. PICK at, byte : Carried(w, at, byte)
      BY DEF Reading
<1>3. n \in 0..24 /\ m \in 7..24 /\ m # 0
      BY DEF Reading
<1>4. \A line \in CompleteLines(r) : IsFrame(line) => PayloadOf(line) = AckPayload
      BY <1>2, <1>3, TailFrames
<1>5. r \in Seq(Nat)
      BY <1>1
<1>6. Found(w, m) <=> \E line \in CompleteLines(r) : IsFrame(line)
      BY DEF Found
<1> HIDE DEF r
<1>7. /\ text \in Seq(Nat) /\ RestOf(text) = RestOf(r)
      /\ CompleteLines(text) = CompleteLines(a) \cup CompleteLines(r)
  <2>1. a \in Seq(Nat) /\ r \in Seq(Nat) /\ EndsLine(a) /\ text = a \o r
        BY <1>1, <1>5 DEF r
  <2>2. a \o r \in Seq(Nat)
        BY <2>1, Joint
  <2>3. RestOf(a \o r) = RestOf(r)
        BY <2>1, RestConcat
  <2>4. CompleteLines(a \o r) = CompleteLines(a) \cup CompleteLines(r)
        BY <2>1, LinesConcat
  <2>5. QED
        BY <2>1, <2>2, <2>3, <2>4
<1>8. RestOf(r) \in Seq(Nat)
      BY <1>5, RestHolds
<1>9. Fits(w, m, RestOf(text))
  <2>1. ~(m < 7)
        BY <1>3
  <2>2. QED
        BY <1>3, <1>7, <1>8, <2>1 DEF Fits, r
<1>10. \A line \in CompleteLines(text) :
          IsFrame(line) => Found(w, m) /\ PayloadOf(line) = AckPayload
       BY <1>1, <1>4, <1>6, <1>7
<1>11. Found(w, m) => \E line \in CompleteLines(text) : IsFrame(line)
       BY <1>6, <1>7
<1>12. QED
       BY <1>7, <1>9, <1>10, <1>11 DEF ReadRight

\* After it a read goes on where the last one ended.
LEMMA ReadOn ==
    ASSUME NEW w, NEW n, NEW m, NEW held, NEW text, Reading(w, n, m, held, text),
           w[7] = LF, 7 <= n
    PROVE  ReadRight(w, n, m, text)
<1>1. PICK at, byte : Carried(w, at, byte)
      BY DEF Reading
<1> DEFINE t == Later(w, n)
           r == Later(w, m)
           d == Decode(Slice(w, n, m))
<1>2. /\ n \in 7..24 /\ m \in 7..24 /\ n <= m /\ m # 0
      /\ held = RestOf(t) /\ text = held \o d
      BY DEF Reading, Fits
<1>3. t \in Seq(Nat) /\ d \in Seq(Nat) /\ r = t \o d
      BY <1>1, <1>2, TailMore
<1>4. \A line \in CompleteLines(r) : IsFrame(line) => PayloadOf(line) = AckPayload
      BY <1>1, <1>2, TailFrames
<1>5. Found(w, m) <=> \E line \in CompleteLines(r) : IsFrame(line)
      BY <1>2 DEF Found
<1>6. Found(w, n) <=> \E line \in CompleteLines(t) : IsFrame(line)
      BY <1>2 DEF Found
<1> HIDE DEF t, r, d
<1>7. /\ RestOf(t) \in Seq(Nat)
      /\ CompleteLines(t \o d) = CompleteLines(t) \cup CompleteLines(RestOf(t) \o d)
      /\ RestOf(t \o d) = RestOf(RestOf(t) \o d)
      BY <1>3, LinesMore
<1>8. /\ CompleteLines(r) = CompleteLines(t) \cup CompleteLines(text)
      /\ RestOf(r) = RestOf(text)
      BY <1>2, <1>3, <1>7
<1>9. text \in Seq(Nat)
      BY <1>2, <1>3, <1>7, Joint
<1>10. RestOf(text) \in Seq(Nat)
       BY <1>9, RestHolds
<1>11. Fits(w, m, RestOf(text))
  <2>1. ~(m < 7)
        BY <1>2
  <2>2. QED
        BY <1>2, <1>8, <1>10, <2>1 DEF Fits, r
<1>12. \A line \in CompleteLines(text) :
          IsFrame(line) => Found(w, m) /\ PayloadOf(line) = AckPayload
       BY <1>4, <1>5, <1>8
<1>13. Found(w, m) /\ ~Found(w, n) => \E line \in CompleteLines(text) : IsFrame(line)
       BY <1>5, <1>6, <1>8
<1>14. QED
       BY <1>9, <1>11, <1>12, <1>13 DEF ReadRight

\* A damaged line feed never ends the JSON line.
LEMMA ReadUnended ==
    ASSUME NEW w, NEW n, NEW m, NEW held, NEW text, Reading(w, n, m, held, text),
           w[7] # LF, m < 24
    PROVE  /\ text \in Seq(Nat) /\ LF \notin ToSet(text)
           /\ 0 < m => text # <<>> /\ text[1] = 123
           /\ m = 0 => text = <<>>
<1>1. PICK at, byte : Carried(w, at, byte)
      BY DEF Reading
<1> DEFINE d == Decode(Slice(w, n, m))
<1>2. /\ n \in 0..24 /\ m \in 0..24 /\ n <= m /\ held \in Seq(Nat) /\ LF \notin ToSet(held)
      /\ n = 0 => held = <<>>
      /\ 0 < n /\ n < 24 => held # <<>> /\ held[1] = 123
      /\ text = held \o d
      BY DEF Reading, Fits
<1>3. /\ d \in Seq(Nat)
      /\ \A c \in ToSet(d) : c < 128 => \E j \in (n + 1)..m : c = w[j]
      BY <1>1, <1>2, SliceDecoded
<1>4. /\ w \in Seq(Byte) /\ Len(w) = 24 /\ at \in 1..24 /\ w[at] = byte
      /\ \A i \in 1..24 : i # at => w[i] = Answer[i]
      BY <1>1, CarriedIs
<1>5. (\A i \in 1..23 : w[i] # LF) /\ w[1] = 123
      BY <1>1, OnlyFeed
<1>6. LF \notin ToSet(d)
  <2>1. LF < 128 /\ \A j \in (n + 1)..m : j \in 1..23
        BY <1>2 DEF LF
  <2>2. \A j \in (n + 1)..m : w[j] # LF
        BY <2>1, <1>5
  <2> DEFINE S == ToSet(d)
  <2>3. \A c \in S : c < 128 => \E j \in (n + 1)..m : c = w[j]
        BY <1>3
  <2> HIDE DEF d, S
  <2>4. LF \notin S
        BY ONLY <2>1, <2>2, <2>3
  <2>5. QED
        BY <2>4 DEF S
<1> HIDE DEF d
<1>7. text \in Seq(Nat) /\ LF \notin ToSet(text)
      BY <1>2, <1>3, <1>6, Joint, ToSetConcat
<1>8. m = 0 => text = <<>>
  <2>1. m = 0 => n = 0 /\ n = m
        BY <1>2
  <2>2. m = 0 => d = <<>>
        BY <2>1, <1>1, <1>2, SliceNone DEF d
  <2>3. QED
        BY <2>1, <2>2, <1>2
<1>9. 0 < m => text # <<>> /\ text[1] = 123
  <2>1. CASE 0 < n
    <3>1. held # <<>> /\ held[1] = 123
          BY <2>1, <1>2
    <3>2. Len(held) \in Nat /\ Len(held) # 0
          BY <3>1, <1>2, EmptySeq
    <3>3. /\ held \o d \in Seq(Nat) /\ Len(d) \in Nat /\ Len(held \o d) = Len(held) + Len(d)
          /\ \A i \in 1..Len(held) : (held \o d)[i] = held[i]
          BY <1>2, <1>3, Joint
    <3>4. 1 \in 1..Len(held) /\ Len(text) # 0
          BY <3>2, <3>3, <1>2
    <3>5. text # <<>>
          BY <3>4
    <3>6. QED
          BY <3>1, <3>3, <3>4, <3>5, <1>2
  <2>2. CASE n = 0 /\ 0 < m
    <3> DEFINE k == 1
               e == Decode(Slice(w, n, k))
               f == Decode(Slice(w, k, m))
    <3>1. /\ n \in Nat /\ k \in Nat /\ m \in Nat /\ n <= k /\ k <= m /\ m <= Len(w)
          /\ k \in 0..24 /\ k = n + 1
          BY <2>2, <1>2, <1>4
    <3>2. w[k] < 128 /\ w[k] = 123
          BY <1>5
    <3> HIDE DEF k
    <3>3. d = e \o f /\ e \in Seq(Nat) /\ f \in Seq(Nat)
      <4>1. /\ w \in Seq(Byte) /\ n \in Nat /\ k \in Nat /\ m \in Nat /\ n <= k /\ k <= m /\ m <= Len(w)
            /\ n = k \/ k = m \/ w[k] < 128 \/ w[k + 1] \notin 128..191
            BY <3>1, <3>2, <1>4
      <4>2. /\ Decode(Slice(w, n, m)) = Decode(Slice(w, n, k)) \o Decode(Slice(w, k, m))
            /\ Decode(Slice(w, n, k)) \in Seq(Nat) /\ Decode(Slice(w, k, m)) \in Seq(Nat)
            BY ONLY <4>1, DecodeCut
      <4>3. QED
            BY <4>2 DEF d
    <3>4. e = <<123>>
      <4>1. e = <<Alone(w[k])>>
            BY <1>1, <1>2, <3>1, SliceOne
      <4>2. QED
            BY <4>1, <3>2 DEF Alone
    <3>5. Len(e) = 1 /\ e[1] = 123
          BY <3>4
    <3> HIDE DEF e, f
    <3>6. /\ e \o f \in Seq(Nat) /\ Len(f) \in Nat /\ Len(e \o f) = Len(e) + Len(f)
          /\ \A i \in 1..Len(e) : (e \o f)[i] = e[i]
          BY <3>3, Joint
    <3>7. text = d
          BY <2>2, <1>2, <1>3
    <3>8. 1 \in 1..Len(e) /\ Len(text) # 0
          BY <3>3, <3>5, <3>6, <3>7
    <3>9. text # <<>>
          BY <3>8
    <3>10. QED
           BY <3>3, <3>5, <3>6, <3>7, <3>8, <3>9
  <2>3. QED
        BY <2>1, <2>2, <1>2
<1>10. QED
       BY <1>7, <1>8, <1>9

\* The line that a brace begins is no frame.
LEMMA BraceLine ==
    ASSUME NEW t \in Seq(Nat), LF \notin ToSet(t), t # <<>>, t[1] = 123,
           NEW line \in CompleteLines(t \o <<LF>>)
    PROVE  ~IsFrame(line)
<1> DEFINE u == t \o <<LF>>
           n == Len(t)
<1>1. /\ u \in Seq(Nat) /\ n \in Nat /\ Len(u) = n + 1
      /\ \A i \in 1..n : u[i] = t[i]
  <2> DEFINE f == <<LF>>
  <2>1. t \in Seq(Nat) /\ f \in Seq(Nat) /\ Len(f) = 1
        BY DEF LF
  <2> HIDE DEF f
  <2>2. /\ t \o f \in Seq(Nat) /\ Len(t) \in Nat /\ Len(t \o f) = Len(t) + Len(f)
        /\ \A i \in 1..Len(t) : (t \o f)[i] = t[i]
        BY ONLY <2>1, Joint
  <2>3. QED
        BY <2>1, <2>2 DEF f
<1>2. n # 0 /\ DOMAIN t = 1..n
      BY SeqAt, EmptySeq
<1>3. \A i \in 1..n : u[i] # LF
  <2>1. \A i \in 1..n : t[i] # LF
        BY <1>2 DEF ToSet
  <2>2. QED
        BY <2>1, <1>1
<1>4. line \in CompleteLines(u)
      OBVIOUS
<1> HIDE DEF u, n
<1>5. PICK b, e : IsLine(u, b, e) /\ line = Strip(SubSeq(u, b + 1, e - 1))
      BY <1>1, <1>4, LinesAre
<1>6. /\ b \in 0..(n + 1) /\ e \in 1..(n + 1) /\ b < e
      /\ b = 0 \/ u[b] = LF
      /\ u[e] = LF
  <2>1. /\ b \in 0..Len(u) /\ e \in 1..Len(u) /\ b < e
        /\ b = 0 \/ u[b] = LF
        /\ u[e] = LF
        BY <1>1, <1>5, LineIs
  <2>2. QED
        BY <2>1, <1>1
<1>7. e = n + 1 /\ b = 0
  <2>1. e \notin 1..n /\ b \notin 1..n
        BY <1>3, <1>6
  <2>2. QED
        BY <2>1, <1>1, <1>6
<1> DEFINE s == SubSeq(u, b + 1, e - 1)
<1>8. s \in Seq(Nat) /\ Len(s) = e - 1 - b /\ \A i \in 1..(e - 1 - b) : s[i] = u[b + i]
  <2>1. u \in Seq(Nat) /\ b \in 0..Len(u) /\ e \in 1..(Len(u) + 1) /\ b < e
        BY <1>1, <1>6
  <2>2. QED
        BY <2>1, Between
<1> HIDE DEF s
<1>9. Len(s) = n /\ s[1] = 123
  <2>1. 1 \in 1..n /\ e - 1 - b = n /\ b + 1 = 1
        BY <1>1, <1>2, <1>7
  <2>2. s[1] = u[1] /\ u[1] = t[1]
        BY <2>1, <1>1, <1>7, <1>8
  <2>3. QED
        BY <2>1, <2>2, <1>8
<1>10. s # <<>>
       BY <1>2, <1>8, <1>9, NonEmpty
<1>11. ~IsFrame(Strip(s))
       BY <1>8, <1>9, <1>10, BraceNoFrame
<1>12. QED
       BY <1>5, <1>11 DEF s

\* A damaged line feed makes the acknowledgement part of the JSON line.
LEMMA ReadLast ==
    ASSUME NEW w, NEW n, NEW m, NEW held, NEW text, Reading(w, n, m, held, text),
           w[7] # LF, m = 24, n < 24
    PROVE  text \in Seq(Nat) /\ \A line \in CompleteLines(text) : ~IsFrame(line)
<1>1. PICK at, byte : Carried(w, at, byte)
      BY DEF Reading
<1> DEFINE k == 23
           d == Decode(Slice(w, n, k))
           e == Decode(Slice(w, k, m))
           t == held \o d
<1>2. /\ n \in 0..24 /\ m \in 0..24 /\ n <= m /\ held \in Seq(Nat) /\ Fits(w, n, held)
      /\ text = held \o Decode(Slice(w, n, m))
      BY DEF Reading, Fits
<1>3. w \in Seq(Byte) /\ Len(w) = 24
      BY <1>1, CarriedIs
<1>4. w[23] = CR /\ w[24] = LF
      BY <1>1, OnlyFeed
<1>5. /\ n \in Nat /\ k \in Nat /\ m \in Nat /\ n <= k /\ k <= m /\ m <= Len(w)
      /\ k \in 0..24 /\ m = k + 1 /\ 0 < k /\ k < 24
      BY <1>2, <1>3
<1>6. w[k] < 128
      BY <1>4 DEF CR
<1> HIDE DEF k
<1>7. Decode(Slice(w, n, m)) = d \o e /\ d \in Seq(Nat) /\ e \in Seq(Nat)
  <2>1. /\ w \in Seq(Byte) /\ n \in Nat /\ k \in Nat /\ m \in Nat /\ n <= k /\ k <= m /\ m <= Len(w)
        /\ n = k \/ k = m \/ w[k] < 128 \/ w[k + 1] \notin 128..191
        BY <1>3, <1>5, <1>6
  <2>2. /\ Decode(Slice(w, n, m)) = Decode(Slice(w, n, k)) \o Decode(Slice(w, k, m))
        /\ Decode(Slice(w, n, k)) \in Seq(Nat) /\ Decode(Slice(w, k, m)) \in Seq(Nat)
        BY ONLY <2>1, DecodeCut
  <2>3. QED
        BY <2>2
<1>8. e = <<LF>>
  <2>1. e = <<Alone(w[m])>>
        BY <1>1, <1>2, <1>5, SliceOne
  <2>2. Alone(LF) = LF
        BY DEF Alone, LF
  <2>3. QED
        BY <2>1, <2>2, <1>4
<1>9. Reading(w, n, k, held, t)
      BY <1>1, <1>2, <1>5 DEF Reading
<1>10. t \in Seq(Nat) /\ LF \notin ToSet(t) /\ t # <<>> /\ t[1] = 123
  <2> HIDE DEF t
  <2>1. QED
        BY <1>5, <1>9, ReadUnended
<1>11. text = t \o e
  <2> HIDE DEF d, e
  <2>1. (held \o d) \o e = held \o (d \o e)
        BY <1>2, <1>7, Regroup
  <2>2. QED
        BY <2>1, <1>2, <1>7
<1> HIDE DEF t
<1>12. \A line \in CompleteLines(text) : ~IsFrame(line)
       BY <1>8, <1>10, <1>11, BraceLine
<1>13. text \in Seq(Nat)
  <2> HIDE DEF e
  <2>1. QED
        BY <1>7, <1>10, <1>11, Joint
<1>14. QED
       BY <1>12, <1>13

\* Without the line feed of the JSON line no read finds a frame.
LEMMA ReadNever ==
    ASSUME NEW w, NEW n, NEW m, NEW held, NEW text, Reading(w, n, m, held, text), w[7] # LF
    PROVE  ReadRight(w, n, m, text)
<1>1. /\ n \in 0..24 /\ m \in 0..24 /\ n <= m /\ held \in Seq(Nat) /\ LF \notin ToSet(held)
      /\ text = held \o Decode(Slice(w, n, m))
      BY DEF Reading, Fits
<1>2. ~Found(w, m)
      BY DEF Found
<1>3. CASE m < 24
  <2>1. /\ text \in Seq(Nat) /\ LF \notin ToSet(text)
        /\ 0 < m => text # <<>> /\ text[1] = 123
        /\ m = 0 => text = <<>>
        BY <1>3, ReadUnended
  <2>2. CompleteLines(text) = {} /\ RestOf(text) = text
        BY <2>1, NoFeed
  <2>3. Fits(w, m, RestOf(text))
        BY <2>1, <2>2 DEF Fits
  <2>4. QED
        BY <2>1, <2>2, <2>3, <1>2 DEF ReadRight
<1>4. CASE m = 24 /\ n < 24
  <2>1. text \in Seq(Nat) /\ \A line \in CompleteLines(text) : ~IsFrame(line)
        BY <1>4, ReadLast
  <2>2. RestOf(text) \in Seq(Nat) /\ LF \notin ToSet(RestOf(text))
        BY <2>1, RestHolds
  <2>3. Fits(w, m, RestOf(text))
        BY <2>2, <1>4 DEF Fits
  <2>4. QED
        BY <2>1, <2>3, <1>2 DEF ReadRight
<1>5. CASE m = 24 /\ n = 24
  <2>1. PICK at, byte : Carried(w, at, byte)
        BY DEF Reading
  <2>2. Decode(Slice(w, n, m)) = <<>>
        BY <1>1, <1>5, <2>1, SliceNone
  <2>3. text = held
        BY <1>1, <2>2
  <2>4. CompleteLines(text) = {} /\ RestOf(text) = text
        BY <1>1, <2>3, NoFeed
  <2>5. Fits(w, m, RestOf(text))
        BY <1>1, <1>5, <2>3, <2>4 DEF Fits
  <2>6. QED
        BY <1>1, <2>3, <2>4, <2>5, <1>2 DEF ReadRight
<1>6. QED
      BY <1>1, <1>3, <1>4, <1>5

\* However the reads cut the answer, and whatever byte of it is damaged.
LEMMA ReadIs ==
    ASSUME NEW w, NEW n, NEW m, NEW held, NEW text, Reading(w, n, m, held, text)
    PROVE  ReadRight(w, n, m, text)
<1>1. n \in 0..24 /\ m \in 0..24 /\ n <= m
      BY DEF Reading
<1>2. CASE w[7] = LF /\ m < 7
      BY <1>2, ReadBefore
<1>3. CASE w[7] = LF /\ n < 7 /\ 7 <= m
      BY <1>3, ReadCrosses
<1>4. CASE w[7] = LF /\ 7 <= n
      BY <1>4, ReadOn
<1>5. CASE w[7] # LF
      BY <1>5, ReadNever
<1>6. QED
      BY <1>1, <1>2, <1>3, <1>4, <1>5

\* What was found stays found.
LEMMA FoundStays ==
    ASSUME NEW w, NEW at, NEW byte, Carried(w, at, byte),
           NEW n \in 0..24, NEW m \in 0..24, n <= m, Found(w, n)
    PROVE  Found(w, m)
<1>1. n \in 7..24 /\ m \in 7..24 /\ w[7] = LF /\ 7 <= m
      BY DEF Found
<1>2. /\ Later(w, n) \in Seq(Nat) /\ Decode(Slice(w, n, m)) \in Seq(Nat)
      /\ Later(w, m) = Later(w, n) \o Decode(Slice(w, n, m))
      BY <1>1, TailMore
<1>3. CompleteLines(Later(w, n)) \subseteq CompleteLines(Later(w, m))
      BY <1>2, LinesMore
<1>4. QED
      BY <1>1, <1>3 DEF Found

-----------------------------------------------------------------------------
(* When the acknowledgement can be read *)

\* Where the commas of the acknowledgement are.
LEMMA CommasOfAck ==
    Cuts(AckPayload, {Comma}) = {5, 9}
<1> DEFINE p == <<83, 65, 67, 75, 44, 67, 70, 71, 44, 79, 75>>
<1>1. p \in Seq(Nat) /\ Len(p) = 11
      OBVIOUS
<1>2. /\ p[1] # 44 /\ p[2] # 44 /\ p[3] # 44 /\ p[4] # 44 /\ p[5] = 44 /\ p[6] # 44
      /\ p[7] # 44 /\ p[8] # 44 /\ p[9] = 44 /\ p[10] # 44 /\ p[11] # 44
      OBVIOUS
<1> HIDE DEF p
<1>3. DOMAIN p = 1..11
      BY <1>1, SeqAt
<1>4. \A i \in 1..11 : p[i] = 44 <=> i \in {5, 9}
      BY <1>2
<1>5. \A i \in {5, 9} : i \in 1..11
      OBVIOUS
<1>6. {i \in DOMAIN p : p[i] \in {44}} = {5, 9}
      BY <1>3, <1>4, <1>5
<1>7. AckPayload = p
      BY AckText DEF p
<1>8. QED
      BY <1>6, <1>7 DEF Cuts, Comma

\* Its tokens are split there.
LEMMA TokensOfAck ==
    LET tokens == Tokens(AckPayload)
    IN  tokens[0] = SACK /\ 5 \in DOMAIN tokens /\ tokens[5] = CFG
<1> DEFINE p == AckPayload
           S == {Comma}
           C == Cuts(p, S)
           g == <<83, 65, 67, 75, 44, 67, 70, 71, 44, 79, 75>>
<1>1. p \in Seq(Nat) /\ Len(p) = 11
      BY AckIs
<1>2. C = {5, 9}
      BY CommasOfAck
<1>3. p = g
      BY AckText
<1>4. SubSeq(g, 1, 4) = <<83, 65, 67, 75>> /\ SubSeq(g, 6, 8) = <<67, 70, 71>>
  <2>1. g[1] = 83 /\ g[2] = 65 /\ g[3] = 67 /\ g[4] = 75 /\ g[6] = 67 /\ g[7] = 70 /\ g[8] = 71
        OBVIOUS
  <2>2. g \in Seq(Nat) /\ Len(g) = 11
        OBVIOUS
  <2> HIDE DEF g
  <2> DEFINE s == SubSeq(g, 1, 4)
             t == SubSeq(g, 6, 8)
  <2>3. s \in Seq(Nat) /\ Len(s) = 4 /\ s[1] = 83 /\ s[2] = 65 /\ s[3] = 67 /\ s[4] = 75
        BY <2>1, <2>2
  <2>4. t \in Seq(Nat) /\ Len(t) = 3 /\ t[1] = 67 /\ t[2] = 70 /\ t[3] = 71
        BY <2>1, <2>2
  <2> HIDE DEF s, t
  <2>5. s = <<83, 65, 67, 75>>
        BY <2>3
  <2>6. t = <<67, 70, 71>>
        BY <2>4
  <2>7. QED
        BY <2>5, <2>6 DEF s, t
<1> HIDE DEF p, S, g
<1>5. IsPiece(p, S, 0, 5) /\ IsPiece(p, S, 5, 9)
  <2>1. 0 < 5 /\ 5 < 9 /\ (\A i \in {5, 9} : ~(0 < i /\ i < 5) /\ ~(5 < i /\ i < 9))
        OBVIOUS
  <2>2. QED
        BY <2>1, <1>2 DEF IsPiece
<1>6. Pieces(p, S)[0] = SubSeq(p, 1, 4) /\ Pieces(p, S)[5] = SubSeq(p, 6, 8)
  <2>p. \A b, e : IsPiece(p, S, b, e) => Pieces(p, S)[b] = SubSeq(p, b + 1, e - 1)
    <3>1. SUFFICES ASSUME NEW b, NEW e, IsPiece(p, S, b, e)
                   PROVE  Pieces(p, S)[b] = SubSeq(p, b + 1, e - 1)
          OBVIOUS
    <3>2. p \in Seq(Nat) /\ IsPiece(p, S, b, e)
          BY <1>1, <3>1
    <3>3. /\ b \in DOMAIN Pieces(p, S)
          /\ Pieces(p, S)[b] = SubSeq(p, b + 1, e - 1)
          BY ONLY <3>2, PieceIs
    <3>4. QED
          BY <3>3
  <2>1. Pieces(p, S)[0] = SubSeq(p, 0 + 1, 5 - 1)
        BY <1>5, <2>p
  <2>2. Pieces(p, S)[5] = SubSeq(p, 5 + 1, 9 - 1)
        BY <1>5, <2>p
  <2>3. 0 + 1 = 1 /\ 5 - 1 = 4 /\ 5 + 1 = 6 /\ 9 - 1 = 8
        OBVIOUS
  <2>4. QED
        BY <2>1, <2>2, <2>3
<1>7. 5 \in DOMAIN Pieces(p, S)
      BY <1>2, PiecesDomain
<1>8. QED
      BY <1>3, <1>4, <1>6, <1>7 DEF Tokens, SACK, CFG, p, S, g

\* So a frame that holds it answers the call.
LEMMA AckAcknowledges ==
    ASSUME NEW line, IsFrame(line), PayloadOf(line) = AckPayload
    PROVE  Acknowledges(line)
<1>1. Len(SACK) + 1 = 5
      BY DEF SACK
<1>2. /\ Tokens(AckPayload)[0] = SACK /\ 5 \in DOMAIN Tokens(AckPayload)
      /\ Tokens(AckPayload)[5] = CFG
      BY TokensOfAck
<1>3. /\ Tokens(PayloadOf(line))[0] = SACK /\ Len(SACK) + 1 \in DOMAIN Tokens(PayloadOf(line))
      /\ Tokens(PayloadOf(line))[Len(SACK) + 1] = CFG
      BY <1>1, <1>2
<1>4. QED
      BY <1>3 DEF Acknowledges

\* Among the lines of a read, one acknowledges the command if one is a frame.
LEMMA ReadAnswers ==
    ASSUME NEW w, NEW n, NEW m, NEW held, NEW text, Reading(w, n, m, held, text), ~Found(w, n)
    PROVE  (\E line \in CompleteLines(text) : Acknowledges(line)) <=> Found(w, m)
<1>1. ReadRight(w, n, m, text)
      BY ReadIs
<1>2. \A line \in CompleteLines(text) :
          IsFrame(line) => Found(w, m) /\ PayloadOf(line) = AckPayload
      BY <1>1 DEF ReadRight
<1>3. Found(w, m) => \E line \in CompleteLines(text) : IsFrame(line)
      BY <1>1 DEF ReadRight
<1>4. \A line : Acknowledges(line) => IsFrame(line)
      BY DEF Acknowledges
<1>5. QED
      BY <1>2, <1>3, <1>4, AckAcknowledges

\* Before the first read nothing is held and nothing is found.
LEMMA FitsNone ==
    ASSUME NEW w
    PROVE  Fits(w, 0, <<>>) /\ ~Found(w, 0)
<1>1. ToSet(<<>>) = {}
      BY DEF ToSet
<1>2. OfHead(w, <<>>)
      BY <1>1 DEF OfHead
<1>3. <<>> \in Seq(Nat) /\ ~(7 <= 0) /\ ~(0 < 0)
      OBVIOUS
<1>4. QED
      BY <1>1, <1>2, <1>3 DEF Fits, Found

\* The acknowledgement is needed up to the byte that lets it be found.
LEMMA NeededIs ==
    ASSUME NEW d \in Damage \cup {None}
    PROVE  /\ Needed[d] \in 7..25
           /\ \A m \in 0..24 : Needed[d] <= m <=> Found(Wire[d], m)
<1> DEFINE w == Wire[d]
           A(n) == \E line \in CompleteLines(Decode(SubSeq(w, 1, n))) : Acknowledges(line)
           S == {n \in 0..Len(Answer) : A(n)} \cup {Len(Answer) + 1}
           q == Needed[d]
<1>1. q = Min(S)
      BY DEF Needed, CompleteLines
<1>2. PICK at, byte : Carried(w, at, byte)
      BY WireIs
<1>3. Len(Answer) = 24
      BY AnswerAt
<1> HIDE DEF w
<1>4. ASSUME NEW n \in 0..24 PROVE A(n) <=> Found(w, n)
  <2> DEFINE k == 0
             s == Decode(Slice(w, k, n))
             h == <<>>
             t == h \o s
  <2>1. k \in 0..24 /\ k <= n
        OBVIOUS
  <2>2. s = Decode(SubSeq(w, 1, n))
        BY DEF Slice
  <2>3. Fits(w, k, h) /\ ~Found(w, k)
        BY FitsNone
  <2> HIDE DEF k, h
  <2>4. s \in Seq(Nat)
        BY <1>2, <2>1, SliceDecoded
  <2>5. Reading(w, k, n, h, t)
        BY <1>2, <2>1, <2>3 DEF Reading
  <2>6. t = s
        BY <2>4 DEF h
  <2> HIDE DEF s, t
  <2>7. (\E line \in CompleteLines(t) : Acknowledges(line)) <=> Found(w, n)
        BY <2>3, <2>5, ReadAnswers
  <2>8. QED
        BY <2>2, <2>6, <2>7
<1> HIDE DEF A
<1>5. S \in SUBSET Nat /\ S # {} /\ 25 \in S
      BY <1>3
<1>6. \A n : n \in S <=> (n \in 0..24 /\ A(n)) \/ n = 25
      BY <1>3
<1> HIDE DEF S, q
<1>7. q \in S /\ \A y \in S : q <= y
      BY <1>1, <1>5, MinIs
<1>8. q \in 0..25
      BY <1>6, <1>7
<1>9. \A n \in 0..24 : Found(w, n) => 7 <= n
      BY DEF Found
<1>10. q \in 7..25
  <2>1. q = 25 \/ (q \in 0..24 /\ Found(w, q))
        BY <1>4, <1>6, <1>7
  <2>2. QED
        BY <2>1, <1>8, <1>9
<1>11. ASSUME NEW m \in 0..24, q <= m PROVE Found(w, m)
  <2>1. q \in 0..24 /\ Found(w, q)
    <3>1. q # 25 /\ q \in 0..24
          BY <1>8, <1>11
    <3>2. QED
          BY <3>1, <1>4, <1>6, <1>7
  <2>2. QED
        BY <2>1, <1>2, <1>11, FoundStays
<1>12. ASSUME NEW m \in 0..24, Found(w, m) PROVE q <= m
  <2>1. m \in S
        BY <1>4, <1>6, <1>12
  <2>2. QED
        BY <2>1, <1>7
<1>13. QED
       BY <1>10, <1>11, <1>12 DEF w, q

-----------------------------------------------------------------------------
(* The call *)

\* A pump or a sleep under way has not exceeded its limit, and began in time;
\* the clock of a call that is not written has not started.
InTime ==
    /\ wall \in Nat /\ since \in 0..wall
    /\ phase \in {"writing", "refused"} => wall = 0
    /\ wall <= since + (IF phase = "sleeping" THEN MaxSleep ELSE MaxPump)
    /\ phase = "sleeping" => since <= Timeout
    /\ phase # "sleeping" => since <= Timeout + MaxSleep

\* How far the answer has come; it is complete when what its acknowledgement
\* needs has arrived.
Arrival ==
    /\ damage \in Damage \cup {None}
    /\ arrived \in 0..24 /\ upTo \in 0..arrived /\ taken \in 0..arrived
    /\ phase = "writing" => arrived = 0 /\ completeAt = None /\ buf = <<>>
    /\ completeAt \in Nat \cup {None}
    /\ completeAt = None <=> arrived < Needed[damage]

\* The buffer holds what is left of the bytes that were read; a call goes on
\* only while these do not hold the acknowledgement.
TakenIn ==
    /\ Fits(Wire[damage], taken, buf)
    /\ ~Over => taken < Needed[damage]
    /\ ~stray

\* An answer the last look did not see came after the pump had begun.
Unseen ==
    /\ completeAt # None => completeAt <= wall
    /\ phase \in {"reading", "checking"} /\ upTo < Needed[damage] /\ completeAt # None =>
          completeAt >= since
    /\ phase = "checking" => upTo < Needed[damage]

CallInv == InTime /\ Arrival /\ TakenIn /\ Unseen /\ AnsweredInTime

\* What a read has taken and what it looks at.
Reached == taken + ReadLength
TextRead == buf \o Decode(SubSeq(Wire[damage], taken + 1, Reached))

\* What a read does.
LEMMA ReadMoves ==
    ASSUME Read
    PROVE  /\ phase = "reading" /\ taken' = Reached /\ buf' = RestOf(TextRead)
           /\ phase' = IF \E line \in CompleteLines(TextRead) : Acknowledges(line)
                       THEN "answered" ELSE "checking"
           /\ stray' = (stray \/ \E line \in CompleteLines(TextRead) :
                                    IsFrame(line) /\ PayloadOf(line) # AckPayload)
           /\ cut' = (cut \/ taken' \in {2, 3})
           /\ record' = IF \E line \in CompleteLines(TextRead) : IsRecord(line)
                        THEN IF JsonLine \in CompleteLines(TextRead) THEN "whole" ELSE "mangled"
                        ELSE record
           /\ UNCHANGED <<wall, since, heard, damage, arrived, upTo, completeAt>>
BY Zenon DEF Read, Rest, RestOf, CompleteLines, TextRead, Reached

\* A read takes at least what waited at the look, and no more than has arrived.
LEMMA ReachedIs ==
    ASSUME arrived \in 0..24, upTo \in 0..arrived, taken \in 0..arrived
    PROVE  Reached \in taken..arrived /\ upTo <= Reached
BY DEF Reached, ReadLength

\* A read takes the acknowledgement if it reaches that far.
LEMMA ReadTakes ==
    ASSUME CallInv, Read
    PROVE  /\ Fits(Wire[damage], Reached, RestOf(TextRead))
           /\ phase' = IF Needed[damage] <= Reached THEN "answered" ELSE "checking"
           /\ ~stray'
<1> DEFINE w == Wire[damage]
           n == taken
           m == Reached
           t == TextRead
<1>1. /\ arrived \in 0..24 /\ upTo \in 0..arrived /\ taken \in 0..arrived
      /\ damage \in Damage \cup {None} /\ Fits(w, n, buf) /\ ~stray
      BY DEF CallInv, Arrival, TakenIn
<1>2. m \in taken..arrived
      BY <1>1, ReachedIs
<1>3. phase = "reading" /\ n < Needed[damage]
  <2>1. phase = "reading"
        BY ReadMoves
  <2>2. QED
        BY <2>1 DEF CallInv, TakenIn, Over
<1>4. \E at, byte : Carried(w, at, byte)
      BY <1>1, WireIs
<1>5. n \in 0..24 /\ m \in 0..24 /\ n <= m
      BY <1>1, <1>2
<1>6. Reading(w, n, m, buf, t)
      BY <1>1, <1>4, <1>5 DEF Reading, TextRead, Slice
<1>7. Needed[damage] \in 7..25 /\ \A k \in 0..24 : Needed[damage] <= k <=> Found(w, k)
      BY <1>1, NeededIs
<1> HIDE DEF w, n, m, t
<1>8. ~Found(w, n)
  <2>1. ~(Needed[damage] <= n)
        BY <1>3, <1>5, <1>7
  <2>2. QED
        BY <2>1, <1>5, <1>7
<1>9. ReadRight(w, n, m, t)
      BY <1>6, ReadIs
<1>10. (\E line \in CompleteLines(t) : Acknowledges(line)) <=> Found(w, m)
       BY <1>6, <1>8, ReadAnswers
<1>11. phase' = IF Needed[damage] <= m THEN "answered" ELSE "checking"
  <2>1. (\E line \in CompleteLines(t) : Acknowledges(line)) <=> Needed[damage] <= m
        BY <1>5, <1>7, <1>10
  <2>2. phase' = IF \E line \in CompleteLines(t) : Acknowledges(line) THEN "answered" ELSE "checking"
        BY ReadMoves DEF t
  <2>3. QED
        BY <2>1, <2>2
<1>12. ~stray'
  <2>1. \A line \in CompleteLines(t) : IsFrame(line) => PayloadOf(line) = AckPayload
        BY <1>9 DEF ReadRight
  <2>2. stray' = (stray \/ \E line \in CompleteLines(t) :
                                    IsFrame(line) /\ PayloadOf(line) # AckPayload)
        BY ReadMoves DEF t
  <2>3. QED
        BY <1>1, <2>1, <2>2, Zenon
<1>13. Fits(w, m, RestOf(t))
       BY <1>9 DEF ReadRight
<1>14. QED
       BY <1>11, <1>12, <1>13 DEF w, m, t

\* Every step keeps the limits.
LEMMA InTimeStep == InTime /\ [Next]_vars => InTime'
<1> SUFFICES ASSUME InTime, [Next]_vars PROVE InTime'
    OBVIOUS
<1> USE TimingAssumption DEF InTime
<1>1. CASE \E argument \in Arguments : Write(argument)
  <2>1. PICK argument \in Arguments : Write(argument)
        BY <1>1
  <2>2. /\ phase = "writing" /\ phase' \in {"refused", "looking"}
        /\ wall' = wall /\ since' = since
        BY <2>1 DEF Write
  <2>3. QED
        BY <2>2
<1>2. CASE Look
      BY <1>2 DEF Look
<1>3. CASE Read
  <2>1. /\ phase = "reading" /\ phase' \in {"answered", "checking"}
        /\ wall' = wall /\ since' = since
        BY <1>3, Zenon DEF Read
  <2>2. QED
        BY <2>1
<1>4. CASE GiveUp
      BY <1>4 DEF GiveUp
<1>5. CASE Sleep
      BY <1>5 DEF Sleep, Expired
<1>6. CASE Wake
      BY <1>6 DEF Wake
<1>7. CASE TimePasses
      BY <1>7 DEF TimePasses, Over
<1>8. CASE \E count \in Bursts : BytesArrive(count)
  <2>1. wall' = wall /\ since' = since /\ phase' = phase
        BY <1>8 DEF BytesArrive, callVars
  <2>2. QED
        BY <2>1
<1>9. CASE UNCHANGED vars
      BY <1>9 DEF vars, callVars
<1>10. QED
       BY <1>1, <1>2, <1>3, <1>4, <1>5, <1>6, <1>7, <1>8, <1>9 DEF Next, HostStep

\* The invariant holds at first.
LEMMA CallInit == Init => CallInv
<1> SUFFICES ASSUME Init PROVE CallInv
    OBVIOUS
<1>1. InTime
      BY TimingAssumption DEF Init, InTime
<1>2. Needed[None] \in 7..25
      BY NeededIs
<1>3. Arrival
      BY <1>2 DEF Init, Arrival
<1>4. Fits(Wire[None], 0, <<>>)
      BY FitsNone
<1>5. TakenIn
      BY <1>2, <1>4 DEF Init, TakenIn
<1>6. Unseen /\ AnsweredInTime
      BY DEF Init, Unseen, AnsweredInTime, Loop!AnsweredInTime
<1>7. QED
      BY <1>1, <1>3, <1>5, <1>6 DEF CallInv

\* The steps that take nothing from the port and bring nothing to it.
LEMMA NothingTaken ==
    ASSUME CallInv, UNCHANGED <<damage, arrived, taken, buf, completeAt, stray>>,
           upTo' \in {upTo, arrived}, phase' = "writing" => phase = "writing", Over => Over'
    PROVE  Arrival' /\ TakenIn'
BY DEF CallInv, Arrival, TakenIn

\* Writing the command keeps the rest of the invariant.
LEMMA WriteKeeps ==
    ASSUME CallInv, NEW argument \in Arguments, Write(argument)
    PROVE  Arrival' /\ TakenIn' /\ Unseen' /\ AnsweredInTime'
<1>1. /\ phase = "writing" /\ arrived = 0 /\ upTo = 0 /\ taken = 0 /\ buf = <<>>
      /\ completeAt = None /\ ~stray
      BY DEF Write, CallInv, Arrival, TakenIn
<1>2. /\ phase' \in {"refused", "looking"} /\ damage' \in Damage \cup {None}
      /\ UNCHANGED <<wall, since, arrived, upTo, taken, buf, completeAt, stray>>
  <2>1. damage \in Damage \cup {None}
        BY DEF CallInv, Arrival
  <2>2. QED
        BY <2>1 DEF Write
<1>3. Needed[damage'] \in 7..25
      BY <1>2, NeededIs
<1>4. Fits(Wire[damage'], 0, <<>>)
      BY FitsNone
<1>5. Arrival'
      BY <1>1, <1>2, <1>3 DEF Arrival
<1>6. TakenIn'
      BY <1>1, <1>2, <1>3, <1>4 DEF TakenIn
<1>7. Unseen' /\ AnsweredInTime'
      BY <1>1, <1>2 DEF Unseen, AnsweredInTime, Loop!AnsweredInTime
<1>8. QED
      BY <1>5, <1>6, <1>7

\* So does a read.
LEMMA ReadKeeps ==
    ASSUME CallInv, Read
    PROVE  Arrival' /\ TakenIn' /\ Unseen' /\ AnsweredInTime'
<1>1. /\ phase = "reading" /\ taken' = Reached /\ buf' = RestOf(TextRead)
      /\ UNCHANGED <<wall, since, damage, arrived, upTo, completeAt>>
      BY ReadMoves
<1>2. /\ Fits(Wire[damage], Reached, RestOf(TextRead))
      /\ phase' = IF Needed[damage] <= Reached THEN "answered" ELSE "checking"
      /\ ~stray'
      BY ReadTakes
<1>3. /\ arrived \in 0..24 /\ upTo \in 0..arrived /\ taken \in 0..arrived
      /\ damage \in Damage \cup {None}
      BY DEF CallInv, Arrival
<1>4. Reached \in taken..arrived /\ upTo <= Reached
      BY <1>3, ReachedIs
<1>5. Needed[damage] \in 7..25
      BY <1>3, NeededIs
<1>6. Arrival'
  <2>1. taken' \in 0..arrived
        BY <1>1, <1>3, <1>4
  <2>2. phase' # "writing"
        BY <1>2
  <2>3. QED
        BY <1>1, <2>1, <2>2 DEF CallInv, Arrival
<1>7. TakenIn'
  <2>1. ~Over' => ~(Needed[damage] <= Reached)
        BY <1>2 DEF Over
  <2>2. ~Over' => taken' < Needed[damage]
        BY <2>1, <1>1, <1>3, <1>4, <1>5
  <2>3. QED
        BY <2>2, <1>1, <1>2 DEF TakenIn
<1>8. Unseen'
  <2>1. phase' = "checking" => upTo < Needed[damage]
        BY <1>2, <1>3, <1>4, <1>5
  <2>2. phase' # "reading"
        BY <1>2
  <2>3. /\ completeAt # None => completeAt <= wall
        /\ upTo < Needed[damage] /\ completeAt # None => completeAt >= since
        BY <1>1 DEF CallInv, Unseen
  <2>4. QED
        BY <1>1, <2>1, <2>2, <2>3 DEF Unseen
<1>9. AnsweredInTime'
      BY <1>2 DEF AnsweredInTime, Loop!AnsweredInTime
<1>10. QED
       BY <1>6, <1>7, <1>8, <1>9

\* So does the arrival of bytes.
LEMMA BytesKeep ==
    ASSUME CallInv, NEW count \in Bursts, BytesArrive(count)
    PROVE  Arrival' /\ TakenIn' /\ Unseen' /\ AnsweredInTime'
<1>1. /\ phase # "writing" /\ ~Over /\ arrived < count /\ arrived' = count
      /\ completeAt' = IF arrived < Needed[damage] /\ Needed[damage] <= count
                       THEN wall ELSE completeAt
      /\ UNCHANGED <<wall, since, phase, damage, upTo, taken, buf, stray>>
      BY DEF BytesArrive, callVars
<1>2. count \in 0..24
      BY WireAssumption, AnswerAt
<1>3. /\ arrived \in 0..24 /\ upTo \in 0..arrived /\ taken \in 0..arrived
      /\ damage \in Damage \cup {None}
      /\ completeAt \in Nat \cup {None}
      /\ completeAt = None <=> arrived < Needed[damage]
      BY DEF CallInv, Arrival
<1>4. wall \in Nat /\ since \in 0..wall
      BY DEF CallInv, InTime
<1>5. Needed[damage] \in 7..25
      BY <1>3, NeededIs
<1>6. Arrival'
  <2>1. /\ arrived' \in 0..24 /\ upTo' \in 0..arrived' /\ taken' \in 0..arrived'
        /\ damage' \in Damage \cup {None} /\ phase' # "writing"
        BY <1>1, <1>2, <1>3
  <2>2. completeAt' \in Nat \cup {None}
        BY <1>1, <1>3, <1>4
  <2>3. completeAt' = None <=> arrived' < Needed[damage']
        BY <1>1, <1>2, <1>3, <1>4, <1>5, TimingAssumption
  <2>4. QED
        BY <2>1, <2>2, <2>3 DEF Arrival
<1>7. TakenIn'
  <2>1. TakenIn
        BY DEF CallInv
  <2>2. QED
        BY <2>1, <1>1 DEF TakenIn, Over
<1>8. Unseen'
      BY <1>1, <1>3, <1>4 DEF CallInv, Unseen
<1>9. AnsweredInTime'
      BY <1>1 DEF AnsweredInTime, Loop!AnsweredInTime, Over
<1>10. QED
       BY <1>6, <1>7, <1>8, <1>9

\* Every step keeps the invariant.
LEMMA CallStep == CallInv /\ [Next]_vars => CallInv'
<1> SUFFICES ASSUME CallInv, [Next]_vars PROVE CallInv'
    OBVIOUS
<1>1. InTime'
      BY InTimeStep DEF CallInv
<1>i. InTime /\ Unseen /\ AnsweredInTime /\ Arrival
      BY DEF CallInv
<1>2. CASE \E argument \in Arguments : Write(argument)
      BY <1>1, <1>2, WriteKeeps DEF CallInv
<1>3. CASE Read
      BY <1>1, <1>3, ReadKeeps DEF CallInv
<1>4. CASE \E count \in Bursts : BytesArrive(count)
      BY <1>1, <1>4, BytesKeep DEF CallInv
<1>5. CASE Look
  <2>1. Arrival' /\ TakenIn'
        BY <1>5, NothingTaken DEF Look, Over
  <2>2. Unseen'
        BY <1>5, <1>i DEF Look, Unseen, Arrival, InTime
  <2>3. AnsweredInTime'
        BY <1>5 DEF Look, AnsweredInTime, Loop!AnsweredInTime
  <2>4. QED
        BY <1>1, <2>1, <2>2, <2>3 DEF CallInv
<1>6. CASE GiveUp
  <2>1. Arrival' /\ TakenIn'
        BY <1>6, NothingTaken DEF GiveUp, rest, Over
  <2>2. Unseen'
        BY <1>6, <1>i DEF GiveUp, rest, Unseen
  <2>3. AnsweredInTime'
    <3>1. /\ phase = "checking" /\ wall >= Timeout
          /\ completeAt' = completeAt
          BY <1>6 DEF GiveUp, rest, Expired
    <3>2. completeAt # None => completeAt >= since
          BY <3>1, <1>i DEF Unseen
    <3>3. wall <= since + MaxPump /\ since \in Nat /\ wall \in Nat
          BY <3>1, <1>i DEF InTime
    <3>4. completeAt \in Nat \cup {None}
          BY <1>i DEF Arrival
    <3>5. completeAt # None => completeAt >= Timeout - MaxPump
          BY <3>1, <3>2, <3>3, <3>4, TimingAssumption
    <3>6. QED
          BY <3>1, <3>5 DEF AnsweredInTime, Loop!AnsweredInTime
  <2>4. QED
        BY <1>1, <2>1, <2>2, <2>3 DEF CallInv
<1>7. CASE Sleep
  <2>1. Arrival' /\ TakenIn'
        BY <1>7, NothingTaken DEF Sleep, rest, Over
  <2>2. Unseen'
        BY <1>7, <1>i DEF Sleep, rest, Unseen
  <2>3. AnsweredInTime'
        BY <1>7 DEF Sleep, AnsweredInTime, Loop!AnsweredInTime
  <2>4. QED
        BY <1>1, <2>1, <2>2, <2>3 DEF CallInv
<1>8. CASE Wake
  <2>1. Arrival' /\ TakenIn'
        BY <1>8, NothingTaken DEF Wake, rest, Over
  <2>2. Unseen'
        BY <1>8, <1>i DEF Wake, rest, Unseen
  <2>3. AnsweredInTime'
        BY <1>8 DEF Wake, AnsweredInTime, Loop!AnsweredInTime
  <2>4. QED
        BY <1>1, <2>1, <2>2, <2>3 DEF CallInv
<1>9. CASE TimePasses
  <2>1. Arrival' /\ TakenIn'
        BY <1>9, NothingTaken DEF TimePasses, rest, Over
  <2>2. Unseen'
        BY <1>9, <1>i DEF TimePasses, rest, Unseen, Arrival, InTime
  <2>3. AnsweredInTime'
        BY <1>9, <1>i DEF TimePasses, rest, AnsweredInTime, Loop!AnsweredInTime
  <2>4. QED
        BY <1>1, <2>1, <2>2, <2>3 DEF CallInv
<1>10. CASE UNCHANGED vars
  <2>1. Arrival' /\ TakenIn'
        BY <1>10, NothingTaken DEF vars, callVars, Over
  <2>2. Unseen' /\ AnsweredInTime'
        BY <1>10, <1>i DEF vars, callVars, Unseen, AnsweredInTime, Loop!AnsweredInTime
  <2>3. QED
        BY <1>1, <2>1, <2>2 DEF CallInv
<1>11. QED
       BY <1>2, <1>3, <1>4, <1>5, <1>6, <1>7, <1>8, <1>9, <1>10 DEF Next, HostStep

\* It holds of every call.
LEMMA CallHolds == Spec => []CallInv
BY CallInit, CallStep, PTL DEF Spec

\* Every call over a serial line ends within its timeout, one sleep and one
\* pump, whatever has arrived and however it is damaged and cut.
THEOREM WaitBoundedHolds == Spec => []WaitBounded
<1>1. CallInv => WaitBounded
      BY TimingAssumption DEF CallInv, InTime, WaitBounded, Loop!WaitBounded
<1>2. QED
      BY <1>1, CallHolds, PTL

\* A call that raises "no answer" has missed no answer that had arrived
\* undamaged one pump before its time was up.
THEOREM AnsweredInTimeHolds == Spec => []AnsweredInTime
<1>1. CallInv => AnsweredInTime
      BY DEF CallInv
<1>2. QED
      BY <1>1, CallHolds, PTL

\* A damaged byte never makes a frame the board did not send.
THEOREM AcceptedWasSentHolds == Spec => []AcceptedWasSent
<1>1. CallInv => AcceptedWasSent
      BY DEF CallInv, TakenIn, AcceptedWasSent
<1>2. QED
      BY <1>1, CallHolds, PTL

-----------------------------------------------------------------------------
(* The loop of SendLoop *)

\* A call begins as the loop does.
LEMMA LoopInit == Init => Loop!Init
<1>1. Needed[None] \in 7..25
      BY NeededIs
<1>2. QED
      BY <1>1 DEF Init, Loop!Init

\* Each of its steps is one of the loop's, or none.
LEMMA LoopStep == CallInv /\ [Next]_vars => [Loop!Next]_(Loop!vars)
<1> SUFFICES ASSUME CallInv, [Next]_vars PROVE [Loop!Next]_(Loop!vars)
    OBVIOUS
<1> USE DEF Loop!vars
<1>i. /\ arrived \in 0..24 /\ upTo \in 0..arrived /\ taken \in 0..arrived
      /\ damage \in Damage \cup {None}
      /\ completeAt \in Nat \cup {None}
      /\ completeAt = None <=> arrived < Needed[damage]
      /\ phase = "writing" => arrived = 0
      BY DEF CallInv, Arrival
<1>n. Needed[damage] \in 7..25
      BY <1>i, NeededIs
<1>2. CASE \E argument \in Arguments : Write(argument)
  <2>1. PICK argument \in Arguments : Write(argument)
        BY <1>2
  <2>2. /\ phase = "writing" /\ phase' \in {"refused", "looking"}
        /\ damage' \in Damage \cup {None}
        /\ UNCHANGED <<wall, since, upTo, completeAt>>
        BY <2>1, <1>i DEF Write
  <2>3. Needed[damage'] \in 7..25
        BY <2>2, NeededIs
  <2>4. upTo = 0 /\ ~(upTo >= Needed[damage]) /\ ~(upTo >= Needed[damage'])
        BY <2>2, <2>3, <1>i, <1>n
  <2>5. QED
        BY <2>2, <2>4
<1>3. CASE Read
  <2>1. /\ phase = "reading"
        /\ UNCHANGED <<wall, since, damage, arrived, upTo, completeAt>>
        BY <1>3, ReadMoves
  <2>2. phase' = IF Needed[damage] <= Reached THEN "answered" ELSE "checking"
        BY <1>3, ReadTakes
  <2>3. Reached \in taken..arrived /\ upTo <= Reached
        BY <1>i, ReachedIs
  <2>4. CASE Needed[damage] <= Reached
    <3>1. completeAt # None /\ phase' = "answered"
          BY <2>2, <2>3, <2>4, <1>i, <1>n
    <3>2. Loop!Take
          BY <2>1, <3>1 DEF Loop!Take
    <3>3. QED
          BY <3>2 DEF Loop!Next
  <2>5. CASE ~(Needed[damage] <= Reached)
    <3>1. ~(upTo >= Needed[damage]) /\ phase' = "checking"
          BY <2>2, <2>3, <2>5, <1>i, <1>n
    <3>2. Loop!Miss
          BY <2>1, <3>1 DEF Loop!Miss
    <3>3. QED
          BY <3>2 DEF Loop!Next
  <2>6. QED
        BY <2>4, <2>5
<1>4. CASE \E count \in Bursts : BytesArrive(count)
  <2>1. PICK count \in Bursts : BytesArrive(count)
        BY <1>4
  <2>2. /\ phase # "writing" /\ ~Over /\ arrived < count
        /\ completeAt' = IF arrived < Needed[damage] /\ Needed[damage] <= count
                         THEN wall ELSE completeAt
        /\ UNCHANGED <<wall, since, phase, damage, upTo>>
        BY <2>1 DEF BytesArrive, callVars
  <2>3. CASE arrived < Needed[damage] /\ Needed[damage] <= count
    <3>1. completeAt = None /\ completeAt' = wall
          BY <2>2, <2>3, <1>i
    <3>2. Loop!Arrive
          BY <2>2, <3>1 DEF Loop!Arrive, Loop!Ended, Over
    <3>3. QED
          BY <3>2 DEF Loop!Next
  <2>4. CASE ~(arrived < Needed[damage] /\ Needed[damage] <= count)
        BY <2>2, <2>4
  <2>5. QED
        BY <2>3, <2>4
<1>5. CASE Look
  <2>1. /\ phase = "looking" /\ phase' = "reading" /\ upTo' = arrived
        /\ UNCHANGED <<wall, since, damage, completeAt>>
        BY <1>5 DEF Look
  <2>2. (arrived >= Needed[damage]) = (completeAt # None)
        BY <1>i, <1>n
  <2>3. Loop!Look
        BY <2>1, <2>2 DEF Loop!Look
  <2>4. QED
        BY <2>3 DEF Loop!Next
<1>6. CASE GiveUp
  <2>1. Loop!GiveUp
        BY <1>6 DEF GiveUp, Expired, rest, Loop!GiveUp, Loop!Expired
  <2>2. QED
        BY <2>1 DEF Loop!Next
<1>7. CASE Sleep
  <2>1. Loop!Sleep
        BY <1>7 DEF Sleep, Expired, rest, Loop!Sleep, Loop!Expired
  <2>2. QED
        BY <2>1 DEF Loop!Next
<1>8. CASE Wake
  <2>1. Loop!Wake
        BY <1>8 DEF Wake, rest, Loop!Wake
  <2>2. QED
        BY <2>1 DEF Loop!Next
<1>9. CASE TimePasses
  <2>1. Loop!Tick
        BY <1>9 DEF TimePasses, Over, rest, Loop!Tick, Loop!Ended, Loop!Limit
  <2>2. QED
        BY <2>1 DEF Loop!Next
<1>10. CASE UNCHANGED vars
       BY <1>10 DEF vars, callVars
<1>11. QED
       BY <1>2, <1>3, <1>4, <1>5, <1>6, <1>7, <1>8, <1>9, <1>10 DEF Next, HostStep

\* The call over the bytes is the loop of SendLoop, whatever is damaged and
\* however the reads cut the answer.
THEOREM ImplementsSendLoopHolds == Spec => ImplementsSendLoop
<1>1. Spec => Loop!Init /\ [][Loop!Next]_(Loop!vars)
      BY LoopInit, LoopStep, CallHolds, PTL DEF Spec
<1>2. QED
      BY <1>1 DEF ImplementsSendLoop

-----------------------------------------------------------------------------
(* The JSON line *)

\* The undamaged answer.
LEMMA AnswerCarried ==
    /\ \E at, byte : Carried(Answer, at, byte)
    /\ Wire[None] = Answer
    /\ Answer \in Seq(Byte) /\ Len(Answer) = 24
    /\ Answer[1] = 123 /\ Answer[2] = 234 /\ Answer[3] = 176 /\ Answer[4] = 128
    /\ Answer[5] = 125 /\ Answer[6] = 13 /\ Answer[7] = 10
<1>1. Wire[None] = Answer
      BY DEF Wire
<1>2. \E at, byte : Carried(Wire[None], at, byte)
      BY WireIs
<1>3. \A i \in 1..7 : Answer[i] = HeadBytes[i]
      BY AnswerAt
<1>4. /\ Answer[1] = 123 /\ Answer[2] = 234 /\ Answer[3] = 176 /\ Answer[4] = 128
      /\ Answer[5] = 125 /\ Answer[6] = 13 /\ Answer[7] = 10
      BY <1>3, HeadIs
<1>5. QED
      BY <1>1, <1>2, <1>4, AnswerAt

\* Bytes of which none is ASCII and none begins a whole character.
LEMMA DecodeNoWhole ==
    ASSUME NEW s \in Seq(Byte),
           \A i \in 1..Len(s) : ~(s[i] < 128) /\ ~IsWhole(s, i)
    PROVE  Decode(s) \in Seq({Replacement})
<1> DEFINE T == {Replacement}
           f == [i \in DOMAIN s |-> CharsAt(s, i)]
<1>1. DOMAIN s = 1..Len(s) /\ Len(s) \in Nat
      BY SeqAt
<1>2. \A i \in 1..Len(s) : CharsAt(s, i) = <<>> \/ CharsAt(s, i) = <<Replacement>>
      BY CharsCases
<1>3. <<>> \in Seq(T) /\ <<Replacement>> \in Seq(T)
      OBVIOUS
<1> HIDE DEF T
<1>4. \A i \in 1..Len(s) : CharsAt(s, i) \in Seq(T)
      BY <1>2, <1>3
<1>5. f \in Seq(Seq(T))
      BY <1>1, <1>4
<1>6. FlattenSeq(f) \in Seq(T)
  <2> HIDE DEF f
  <2>1. QED
        BY <1>5, FlattenType
<1>7. QED
      BY <1>6 DEF Decode, T

\* Fewer than three bytes are no wide character.
LEMMA ShortNoWhole ==
    ASSUME NEW s \in Seq(Byte), Len(s) < 3, \A i \in 1..Len(s) : ~(s[i] < 128)
    PROVE  Decode(s) \in Seq({Replacement})
<1>1. DOMAIN s = 1..Len(s) /\ Len(s) \in Nat
      BY SeqAt
<1>2. ASSUME NEW i \in 1..Len(s) PROVE ~IsWhole(s, i)
  <2>1. i + 2 \notin 1..Len(s)
        BY <1>1
  <2>2. QED
        BY <2>1, <1>1 DEF IsWhole, Continues
<1>3. QED
      BY <1>2, DecodeNoWhole

\* The wide character, decoded in one piece.
LEMMA WideDecodes ==
    Decode(<<234, 176, 128>>) = <<WideChar>>
<1> DEFINE s == <<234, 176, 128>>
           f == [i \in DOMAIN s |-> CharsAt(s, i)]
           c == <<WideChar>>
<1>1. s[1] = 234 /\ s[2] = 176 /\ s[3] = 128 /\ DOMAIN s = 1..3
      OBVIOUS
<1> HIDE DEF s
<1>2. /\ 234 \in 225..236 /\ 234 \notin 128..191 /\ 176 \in 128..191 /\ 128 \in 128..191
      /\ 176 \notin 225..236 /\ 128 \notin 225..236
      /\ 1 \in 1..3 /\ 2 \in 1..3 /\ 3 \in 1..3 /\ 0 \notin 1..3
      /\ 1 + 1 = 2 /\ 1 + 2 = 3 /\ 2 - 1 = 1 /\ 3 - 1 = 2 /\ 3 - 2 = 1 /\ 1 - 1 = 0
      OBVIOUS
<1>3. ~IsInside(s, 1) /\ IsInside(s, 2) /\ IsInside(s, 3)
      BY <1>1, <1>2 DEF IsInside, Continues, Begins
<1>4. IsWhole(s, 1) /\ ~(s[1] < 128)
      BY <1>1, <1>2 DEF IsWhole, Continues, Begins
<1>5. CharsAt(s, 2) = <<>> /\ CharsAt(s, 3) = <<>>
      BY <1>3, CharsCases
<1>6. CharsAt(s, 1) = <<WideAt(s, 1)>>
      BY <1>3, <1>4, CharsCases
<1>7. WideAt(s, 1) = WideChar
      BY <1>1, <1>2 DEF WideAt, WideChar
<1>8. f \in Seq(Seq(Nat)) /\ Len(f) = 3 /\ f[1] = c /\ f[2] = <<>> /\ f[3] = <<>>
  <2>1. c \in Seq(Nat) /\ <<>> \in Seq(Nat)
        BY DEF WideChar
  <2>2. f[1] = c /\ f[2] = <<>> /\ f[3] = <<>> /\ DOMAIN f = 1..3
        BY <1>1, <1>2, <1>5, <1>6, <1>7
  <2> HIDE DEF c
  <2> DEFINE S == Seq(Nat)
  <2>s. c \in S /\ <<>> \in S
        BY <2>1
  <2>3. \A i \in 1..3 : f[i] \in Seq(Nat)
    <3>1. \A i \in 1..3 : i = 1 \/ i = 2 \/ i = 3
          OBVIOUS
    <3> HIDE DEF S, f
    <3>2. \A i \in 1..3 : f[i] \in S
          BY <3>1, <2>s, <2>2
    <3>3. QED
          BY <3>2 DEF S
  <2>4. f = [i \in 1..3 |-> f[i]]
        BY <1>1
  <2> HIDE DEF f
  <2>5. QED
        BY <2>2, <2>3, <2>4
<1> HIDE DEF f
<1>9. PICK g : Runs(g, f, Nat)
      BY <1>8, RunsExist
<1>10. FlattenSeq(f) = g[3]
  <2>1. FlattenSeq(f) = g[Len(f)]
        BY <1>8, <1>9, FlattenIs
  <2>2. QED
        BY <2>1, <1>8
<1>11. g[0] = <<>> /\ \A i \in 1..3 : g[i] = g[i - 1] \o f[i]
       BY <1>8, <1>9 DEF Runs
<1>12. g[1] = <<>> \o c /\ g[2] = g[1] \o <<>> /\ g[3] = g[2] \o <<>>
  <2>1. f[1] = c /\ f[2] = <<>> /\ f[3] = <<>>
        BY <1>8
  <2>0. \A i \in 1..3 : g[i] = g[i - 1] \o f[i]
        BY <1>11
  <2>2. g[1] = g[1 - 1] \o f[1] /\ g[2] = g[2 - 1] \o f[2] /\ g[3] = g[3 - 1] \o f[3]
    <3>1. 1 \in 1..3 /\ 2 \in 1..3 /\ 3 \in 1..3
          BY <1>2
    <3>2. QED
          BY ONLY <3>1, <2>0
  <2>3. g[1 - 1] = <<>> /\ g[2 - 1] = g[1] /\ g[3 - 1] = g[2]
        BY <1>11
  <2> HIDE DEF c
  <2>4. QED
        BY <2>1, <2>2, <2>3
<1>13. \A a \in Seq(Nat) : <<>> \o a = a /\ a \o <<>> = a
       OBVIOUS
<1>14. c \in Seq(Nat)
       BY DEF WideChar
<1> HIDE DEF c
<1>15. g[3] = c
       BY <1>12, <1>13, <1>14
<1>16. QED
       BY <1>10, <1>15 DEF Decode, s, f, c

\* The JSON line up to its brace; if it was cut, without the wide character.
Core(x, c) ==
    /\ x \in Seq(Nat) /\ x # <<>> /\ x[1] = 123
    /\ \A y \in ToSet(x) : 32 <= y
    /\ c => WideChar \notin ToSet(x)
    /\ ~c => x = <<123, WideChar>>

\* What the first n bytes of the JSON line may have been decoded as.
Part(n, c, text) ==
    /\ n = 0 => text = <<>> /\ ~c
    /\ n = 1 => text = <<123>> /\ ~c
    /\ n \in 2..3 => c /\ Core(text, c)
    /\ n \in 4..7 => \E x : Core(x, c) /\ text = x \o Slice(Answer, 4, n)

\* What one chunk of the answer is decoded to.
Chunk(n, m) == Decode(Slice(Answer, n, m))

\* It is a text.
LEMMA ChunkType ==
    ASSUME NEW n \in 0..24, NEW m \in 0..24, n <= m
    PROVE  Chunk(n, m) \in Seq(Nat) /\ Slice(Answer, n, m) \in Seq(Byte)
<1>1. PICK at, byte : Carried(Answer, at, byte)
      BY AnswerCarried
<1>2. QED
      BY <1>1, SliceDecoded DEF Chunk

\* It may be decoded in parts, except inside the wide character.
LEMMA ChunkSplit ==
    ASSUME NEW n \in 0..24, NEW k \in {0, 1, 4, 5, 6, 7}, NEW m \in 0..24, n <= k, k <= m
    PROVE  Chunk(n, m) = Chunk(n, k) \o Chunk(k, m)
<1>1. /\ Answer \in Seq(Byte) /\ Len(Answer) = 24
      /\ Answer[1] = 123
      /\ Answer[5] = 125 /\ Answer[6] = 13 /\ Answer[7] = 10
      BY AnswerCarried
<1>2. n = k \/ k = m \/ Answer[k] < 128 \/ Answer[k + 1] \notin 128..191
  <2>1. CASE k = 0
        BY <2>1
  <2>2. CASE k = 4
    <3>1. Answer[k + 1] = 125
          BY <1>1, <2>2
    <3>2. 125 \notin 128..191
          OBVIOUS
    <3>3. QED
          BY <3>1, <3>2
  <2>3. CASE k \in {1, 5, 6, 7}
        BY <1>1, <2>3
  <2>4. QED
        BY <2>1, <2>2, <2>3
<1>3. /\ Answer \in Seq(Byte) /\ n \in Nat /\ k \in Nat /\ m \in Nat /\ n <= k /\ k <= m /\ m <= Len(Answer)
      /\ n = k \/ k = m \/ Answer[k] < 128 \/ Answer[k + 1] \notin 128..191
      BY <1>1, <1>2
<1>4. /\ Decode(Slice(Answer, n, m)) = Decode(Slice(Answer, n, k)) \o Decode(Slice(Answer, k, m))
      /\ Decode(Slice(Answer, n, k)) \in Seq(Nat) /\ Decode(Slice(Answer, k, m)) \in Seq(Nat)
      BY ONLY <1>3, DecodeCut
<1>5. QED
      BY <1>4 DEF Chunk

\* An empty chunk is decoded to nothing.
LEMMA ChunkNone ==
    ASSUME NEW n \in 0..24
    PROVE  Chunk(n, n) = <<>>
<1>1. PICK at, byte : Carried(Answer, at, byte)
      BY AnswerCarried
<1>2. QED
      BY <1>1, SliceNone DEF Chunk

\* What is where in a chunk.
LEMMA AnswerSlice ==
    ASSUME NEW n \in 0..24, NEW m \in 0..24, n <= m
    PROVE  /\ Slice(Answer, n, m) \in Seq(Byte) /\ Len(Slice(Answer, n, m)) = m - n
           /\ \A i \in 1..(m - n) : Slice(Answer, n, m)[i] = Answer[n + i]
<1>1. Answer \in Seq(Byte) /\ Len(Answer) = 24
      BY AnswerCarried
<1>2. Answer \in Seq(Byte) /\ n \in Nat /\ m \in Nat /\ n <= m /\ m <= Len(Answer)
      BY <1>1
<1>3. QED
      BY ONLY <1>2, SliceIs

\* The first byte.
LEMMA ChunkFirst ==
    Chunk(0, 1) = <<123>>
<1>1. PICK at, byte : Carried(Answer, at, byte)
      BY AnswerCarried
<1> DEFINE j == 0
           k == 1
<1>2. j \in 0..24 /\ k \in 0..24 /\ k = j + 1 /\ Answer[k] = 123
      BY AnswerCarried
<1> HIDE DEF j, k
<1>3. Decode(Slice(Answer, j, k)) = <<Alone(Answer[k])>>
      BY <1>1, <1>2, SliceOne
<1>4. QED
      BY <1>2, <1>3 DEF Chunk, Alone, j, k

\* The wide character, whole.
LEMMA ChunkWide ==
    Chunk(1, 4) = <<WideChar>>
<1> DEFINE n == 1
           m == 4
           s == Slice(Answer, n, m)
<1>1. n \in 0..24 /\ m \in 0..24 /\ n <= m /\ m - n = 3 /\ n + 1 = 2 /\ n + 2 = 3 /\ n + 3 = 4
      OBVIOUS
<1> HIDE DEF n, m
<1>2. s \in Seq(Byte) /\ Len(s) = m - n /\ \A i \in 1..(m - n) : s[i] = Answer[n + i]
      BY <1>1, AnswerSlice
<1> HIDE DEF s
<1>3. Len(s) = 3 /\ s[1] = 234 /\ s[2] = 176 /\ s[3] = 128
      BY <1>1, <1>2, AnswerCarried
<1>4. s = <<s[1], s[2], s[3]>>
  <2>1. s \in Seq(Byte) /\ Len(s) = 3
        BY <1>2, <1>3
  <2>2. QED
        BY ONLY <2>1
<1>5. s = <<234, 176, 128>>
      BY <1>3, <1>4
<1>6. QED
      BY <1>5, WideDecodes DEF Chunk, s, n, m

\* The wide character, in parts.
LEMMA ChunkBroken ==
    ASSUME NEW n \in 1..3, NEW m \in 2..4, n < m, n # 1 \/ m # 4
    PROVE  Chunk(n, m) \in Seq({Replacement})
<1> DEFINE s == Slice(Answer, n, m)
<1>1. n \in 0..24 /\ m \in 0..24 /\ n <= m /\ m - n < 3
      OBVIOUS
<1>2. s \in Seq(Byte) /\ Len(s) = m - n /\ \A i \in 1..(m - n) : s[i] = Answer[n + i]
      BY <1>1, AnswerSlice
<1>3. \A k \in 2..4 : ~(Answer[k] < 128)
  <2>1. \A k \in 2..4 : k = 2 \/ k = 3 \/ k = 4
        OBVIOUS
  <2>2. ~(Answer[2] < 128) /\ ~(Answer[3] < 128) /\ ~(Answer[4] < 128)
        BY AnswerCarried
  <2>3. QED
        BY <2>1, <2>2
<1> HIDE DEF s
<1>4. \A i \in 1..(m - n) : n + i \in 2..4
      OBVIOUS
<1>5. Len(s) < 3 /\ \A i \in 1..Len(s) : ~(s[i] < 128)
      BY <1>1, <1>2, <1>3, <1>4
<1>6. QED
      BY <1>2, <1>5, ShortNoWhole DEF Chunk, s

\* What comes after it is ASCII.
LEMMA ChunkEnd ==
    ASSUME NEW n \in 4..7, NEW m \in 4..7, n <= m
    PROVE  Chunk(n, m) = Slice(Answer, n, m)
<1> DEFINE s == Slice(Answer, n, m)
<1>1. n \in 0..24 /\ m \in 0..24 /\ n <= m
      OBVIOUS
<1>2. s \in Seq(Byte) /\ Len(s) = m - n /\ \A i \in 1..(m - n) : s[i] = Answer[n + i]
      BY <1>1, AnswerSlice
<1>3. \A k \in 5..7 : Answer[k] \in Ascii
  <2>1. \A k \in 5..7 : k = 5 \/ k = 6 \/ k = 7
        OBVIOUS
  <2>2. Answer[5] \in Ascii /\ Answer[6] \in Ascii /\ Answer[7] \in Ascii
        BY AnswerCarried DEF Ascii
  <2>3. QED
        BY <2>1, <2>2
<1> HIDE DEF s
<1>4. \A i \in 1..(m - n) : n + i \in 5..7
      OBVIOUS
<1>5. DOMAIN s = 1..(m - n)
      BY <1>2, SeqAt
<1>6. s \in Seq(Ascii)
  <2>1. \A i \in DOMAIN s : s[i] \in Ascii
        BY <1>2, <1>3, <1>4, <1>5
  <2>2. s \in Seq(Nat)
    <3>1. \A i \in DOMAIN s : s[i] \in Nat
          BY <2>1, Ranges
    <3>2. s = [i \in 1..Len(s) |-> s[i]] /\ Len(s) \in Nat
          BY <1>2, <1>5
    <3>3. QED
          BY <3>1, <3>2, <1>2, <1>5
  <2>3. QED
        BY <2>1, <2>2, Retyped
<1>7. QED
      BY <1>6, DecodeAscii DEF Chunk, s

\* An empty text adds nothing.
LEMMA NoneJoined ==
    ASSUME NEW a \in Seq(Nat)
    PROVE  a \o <<>> = a /\ <<>> \o a = a
OBVIOUS

\* Replacement characters take the place of the wide one.
LEMMA CoreBroken ==
    ASSUME NEW x \in Seq(Nat), x # <<>>, x[1] = 123, \A y \in ToSet(x) : 32 <= y,
           WideChar \notin ToSet(x), NEW r \in Seq({Replacement})
    PROVE  Core(x \o r, TRUE)
<1> DEFINE t == x \o r
           S == {Replacement}
<1>1. r \in Seq(Nat) /\ \A y \in ToSet(r) : y = Replacement
  <2>1. DOMAIN r = 1..Len(r) /\ Len(r) \in Nat /\ \A i \in 1..Len(r) : r[i] \in S
        BY SeqAt
  <2>2. \A i \in 1..Len(r) : r[i] = Replacement
        BY <2>1
  <2>3. Replacement \in Nat
        BY DEF Replacement
  <2>4. r = [i \in 1..Len(r) |-> r[i]]
        BY <2>1
  <2>5. \A i \in 1..Len(r) : r[i] \in Nat
        BY <2>2, <2>3
  <2>6. r \in Seq(Nat)
        BY <2>1, <2>4, <2>5
  <2>7. QED
        BY <2>1, <2>2, <2>6 DEF ToSet
<1>2. t \in Seq(Nat) /\ \A c \in ToSet(t) : c \in ToSet(x) \/ c \in ToSet(r)
      BY <1>1, Joint, ToSetConcat
<1>3. Len(x) \in Nat /\ Len(x) # 0
      BY EmptySeq, SeqAt
<1>4. Len(t) # 0 /\ t[1] = x[1]
  <2>1. /\ Len(r) \in Nat /\ Len(t) = Len(x) + Len(r)
        /\ \A i \in 1..Len(x) : t[i] = x[i]
        BY <1>1, Joint
  <2> HIDE DEF t
  <2>2. 1 \in 1..Len(x)
        BY <1>3
  <2>3. QED
        BY <2>1, <2>2, <1>3
<1>5. t # <<>>
  <2> HIDE DEF t
  <2>1. QED
        BY <1>2, <1>4, NonEmpty
<1>6. 32 <= Replacement /\ Replacement # WideChar
      BY DEF Replacement, WideChar
<1> HIDE DEF t
<1>7. (\A y \in ToSet(t) : 32 <= y) /\ WideChar \notin ToSet(t)
      BY <1>1, <1>2, <1>6
<1>8. Core(t, TRUE)
      BY <1>2, <1>4, <1>5, <1>7 DEF Core
<1>9. QED
      BY <1>8 DEF t

\* The wide character after the brace.
LEMMA WidePair == <<123>> \o <<44032>> = <<123, 44032>>
<1> DEFINE a == <<123>>
           b == <<44032>>
           d == <<123, 44032>>
           m == 1
           n == 1
<1>1. IsJoin(a, b, d, m, n)
      BY DEF IsJoin
<1> HIDE DEF a, b, d, m, n
<1>2. a \o b = d
      BY <1>1, Tuples
<1>3. QED
      BY <1>2 DEF a, b, d

\* The JSON line that is read in one is whole.
LEMMA CoreWhole ==
    /\ Core(<<123, WideChar>>, FALSE)
    /\ <<123>> \o <<WideChar>> = <<123, WideChar>>
    /\ <<123>> \in Seq(Nat) /\ <<123>> # <<>> /\ <<123>>[1] = 123
    /\ \A y \in ToSet(<<123>>) : 32 <= y /\ y # WideChar
<1>1. ToSet(<<123, WideChar>>) = {123, WideChar} /\ ToSet(<<123>>) = {123}
      BY DEF ToSet
<1>2. <<123, WideChar>> \in Seq(Nat) /\ <<123, WideChar>> # <<>> /\ <<123, WideChar>>[1] = 123
      BY DEF WideChar
<1>3. \A y \in {123, WideChar} : 32 <= y
      BY DEF WideChar
<1>4. 123 # WideChar
      BY DEF WideChar
<1>5. Core(<<123, WideChar>>, FALSE)
      BY <1>1, <1>2, <1>3 DEF Core
<1>6. \A y \in ToSet(<<123>>) : 32 <= y /\ y # WideChar
      BY <1>1, <1>4
<1>7. <<123>> \o <<WideChar>> = <<123, WideChar>>
  <2>1. <<123>> \o <<44032>> = <<123, 44032>>
        BY WidePair
  <2>2. QED
        BY <2>1 DEF WideChar
<1>8. <<123>> \in Seq(Nat) /\ <<123>> # <<>> /\ <<123>>[1] = 123
      OBVIOUS
<1>9. QED
      BY <1>5, <1>6, <1>7, <1>8

\* An empty chunk has no bytes.
LEMMA SliceEmpty ==
    ASSUME NEW n \in 0..24
    PROVE  Slice(Answer, n, n) = <<>>
<1>0. n <= n
      OBVIOUS
<1>1. /\ Slice(Answer, n, n) \in Seq(Byte) /\ Len(Slice(Answer, n, n)) = n - n
      /\ \A i \in 1..(n - n) : Slice(Answer, n, n)[i] = Answer[n + i]
      BY <1>0, AnswerSlice
<1>2. n - n = 0
      OBVIOUS
<1>3. QED
      BY <1>1, <1>2, EmptySeq

\* A read that ends inside the wide character, or after it.
LEMMA PartWide ==
    ASSUME NEW n \in 1..3, NEW m \in 2..4, n < m, NEW c \in BOOLEAN, NEW a, Part(n, c, a)
    PROVE  Part(m, c \/ m \in {2, 3}, a \o Chunk(n, m))
<1> DEFINE d == c \/ m \in {2, 3}
           u == a \o Chunk(n, m)
<1>1. CASE n = 1 /\ m = 4
  <2>1. a = <<123>> /\ ~c
        BY <1>1 DEF Part
  <2>a. Chunk(n, m) = <<WideChar>>
        BY <1>1, ChunkWide
  <2>b. u = <<123, WideChar>>
        BY <2>1, <2>a, CoreWhole
  <2>c. d = FALSE
        BY <2>1, <1>1
  <2>2. u = <<123, WideChar>> /\ d = FALSE
        BY <2>b, <2>c
  <2>3. Core(u, d)
        BY <2>2, CoreWhole
  <2>4. Slice(Answer, 4, 4) = <<>>
        BY SliceEmpty
  <2> HIDE DEF u, d
  <2>5. u \in Seq(Nat)
        BY <2>3 DEF Core
  <2>6. u = u \o Slice(Answer, 4, 4)
        BY <2>4, <2>5, NoneJoined
  <2>7. Part(4, d, u)
        BY <2>3, <2>6 DEF Part
  <2>8. QED
        BY <2>7, <1>1 DEF d, u
<1>2. CASE ~(n = 1 /\ m = 4)
  <2>1. Chunk(n, m) \in Seq({Replacement})
        BY <1>2, ChunkBroken
  <2>2. d = TRUE
        BY <1>2 DEF Part
  <2>3. Core(u, d)
    <3>1. CASE n = 1
      <4>1. a = <<123>>
            BY <3>1 DEF Part
      <4>2. QED
            BY <4>1, <2>1, <2>2, CoreWhole, CoreBroken
    <3>2. CASE n # 1
      <4>1. c /\ Core(a, c)
            BY <3>2 DEF Part
      <4>2. /\ a \in Seq(Nat) /\ a # <<>> /\ a[1] = 123
            /\ (\A y \in ToSet(a) : 32 <= y) /\ WideChar \notin ToSet(a)
            BY <4>1 DEF Core
      <4>3. QED
            BY <4>2, <2>1, <2>2, CoreBroken
    <3>3. QED
          BY <3>1, <3>2
  <2> HIDE DEF u, d
  <2>4. CASE m = 4
    <3>1. Slice(Answer, 4, 4) = <<>>
          BY SliceEmpty
    <3>2. u \in Seq(Nat)
          BY <2>3 DEF Core
    <3>3. u = u \o Slice(Answer, 4, 4)
          BY <3>1, <3>2, NoneJoined
    <3>4. Part(4, d, u)
          BY <2>3, <3>3 DEF Part
    <3>5. QED
          BY <3>4, <2>4 DEF d, u
  <2>5. CASE m # 4
    <3>1. m \in 2..3 /\ m # 0 /\ m # 1 /\ m \notin 4..7
          BY <2>5
    <3>2. Part(m, d, u)
          BY <2>2, <2>3, <3>1 DEF Part
    <3>3. QED
          BY <3>2 DEF d, u
  <2>6. QED
        BY <2>4, <2>5
<1>3. QED
      BY <1>1, <1>2

\* A read after it.
LEMMA PartEnd ==
    ASSUME NEW n \in 4..7, NEW m \in 4..7, n <= m, NEW c, NEW a, Part(n, c, a)
    PROVE  Part(m, c, a \o Chunk(n, m))
<1>1. PICK x : Core(x, c) /\ a = x \o Slice(Answer, 4, n)
      BY DEF Part
<1> DEFINE k == 4
           v == Slice(Answer, k, n)
           z == Slice(Answer, n, m)
<1>2. Chunk(n, m) = z
      BY ChunkEnd
<1>3. v \o z = Slice(Answer, k, m)
  <2>1. /\ Answer \in Seq(Byte) /\ k \in Nat /\ n \in Nat /\ m \in Nat /\ k <= n /\ n <= m
        /\ m <= Len(Answer)
        BY AnswerCarried
  <2> HIDE DEF k
  <2>2. QED
        BY ONLY <2>1, SliceJoin DEF v, z
<1>4. v \in Seq(Nat) /\ z \in Seq(Nat)
  <2>1. Chunk(k, n) = v /\ Chunk(n, m) = z
        BY ChunkEnd
  <2>2. k \in 0..24 /\ n \in 0..24 /\ m \in 0..24 /\ k <= n /\ n <= m
        OBVIOUS
  <2> HIDE DEF k, v, z
  <2>3. QED
        BY <2>1, <2>2, ChunkType
<1>5. x \in Seq(Nat)
      BY <1>1 DEF Core
<1>6. a \o z = x \o Slice(Answer, k, m)
  <2> HIDE DEF v, z
  <2>1. (x \o v) \o z = x \o (v \o z)
        BY <1>4, <1>5, Regroup
  <2>2. a = x \o v
        BY <1>1 DEF v, k
  <2>3. QED
        BY <2>1, <2>2, <1>3
<1>7. \E y : Core(y, c) /\ a \o z = y \o Slice(Answer, 4, m)
      BY <1>1, <1>6 DEF k
<1>8. m # 0 /\ m # 1 /\ m \notin 2..3
      OBVIOUS
<1>9. QED
      BY <1>2, <1>7, <1>8 DEF Part

\* From the first byte on.
LEMMA PartFromOne ==
    ASSUME NEW n \in 1..7, NEW m \in 1..7, n <= m, NEW c \in BOOLEAN, NEW a \in Seq(Nat), Part(n, c, a)
    PROVE  Part(m, c \/ m \in {2, 3}, a \o Chunk(n, m))
<1>1. CASE n = m
  <2>1. Chunk(n, m) = <<>>
    <3>1. n \in 0..24
          OBVIOUS
    <3>2. QED
          BY <3>1, <1>1, ChunkNone
  <2>2. a \o Chunk(n, m) = a
        BY <2>1, NoneJoined
  <2>3. (c \/ m \in {2, 3}) = c
    <3>1. m \in {2, 3} => m \in 2..3
          OBVIOUS
    <3>2. m \in {2, 3} => c
          BY <3>1, <1>1 DEF Part
    <3>3. QED
          BY <3>2
  <2>4. QED
        BY <2>2, <2>3, <1>1
<1>2. CASE n < m /\ m <= 4
  <2>1. n \in 1..3 /\ m \in 2..4
        BY <1>2
  <2>2. QED
        BY <2>1, <1>2, PartWide
<1>3. CASE n < m /\ n >= 4
  <2>1. n \in 4..7 /\ m \in 4..7
        BY <1>3
  <2>2. (c \/ m \in {2, 3}) = c
        BY <2>1
  <2>3. Part(m, c, a \o Chunk(n, m))
        BY <2>1, PartEnd
  <2>4. QED
        BY <2>2, <2>3
<1>4. CASE n < 4 /\ 4 < m
  <2> DEFINE k == 4
             d == Chunk(n, k)
             e == Chunk(k, m)
  <2>1. n \in 1..3 /\ k \in 2..4 /\ n < k /\ k \in 4..7 /\ m \in 4..7 /\ k <= m /\ n <= k
        /\ n \in 0..24 /\ k \in {0, 1, 4, 5, 6, 7} /\ m \in 0..24 /\ k \in 0..24
        BY <1>4
  <2>2. (c \/ k \in {2, 3}) = c /\ (c \/ m \in {2, 3}) = c
        BY <2>1
  <2> HIDE DEF k
  <2>3. Part(k, c \/ k \in {2, 3}, a \o d)
        BY <2>1, PartWide
  <2>4. Part(k, c, a \o d)
        BY <2>2, <2>3
  <2>5. Part(m, c, (a \o d) \o e)
        BY <2>1, <2>4, PartEnd
  <2>6. Chunk(n, m) = d \o e
        BY <2>1, ChunkSplit
  <2>7. d \in Seq(Nat) /\ e \in Seq(Nat)
        BY <2>1, ChunkType
  <2> HIDE DEF d, e
  <2>8. (a \o d) \o e = a \o Chunk(n, m)
        BY <2>6, <2>7, Regroup
  <2>9. QED
        BY <2>2, <2>5, <2>8
<1>5. QED
      BY <1>1, <1>2, <1>3, <1>4

\* However the reads cut the JSON line.
LEMMA PartMore ==
    ASSUME NEW n \in 0..7, NEW m \in 0..7, n <= m, NEW c \in BOOLEAN, NEW a \in Seq(Nat), Part(n, c, a)
    PROVE  Part(m, c \/ m \in {2, 3}, a \o Chunk(n, m))
<1>1. CASE n # 0
  <2>1. n \in 1..7 /\ m \in 1..7
        BY <1>1
  <2>2. QED
        BY <2>1, PartFromOne
<1>2. CASE n = 0 /\ m = 0
  <2>1. Chunk(n, m) = <<>>
    <3>1. n \in 0..24
          OBVIOUS
    <3>2. QED
          BY <3>1, <1>2, ChunkNone
  <2>2. a \o Chunk(n, m) = a
        BY <2>1, NoneJoined
  <2>3. (c \/ m \in {2, 3}) = c
        BY <1>2
  <2>4. QED
        BY <2>2, <2>3, <1>2
<1>3. CASE n = 0 /\ m # 0
  <2> DEFINE k == 1
             o == 0
             b == <<123>>
  <2>1. a = <<>> /\ c = FALSE
    <3>1. n = 0
          BY <1>3
    <3>2. QED
          BY <3>1 DEF Part
  <2>2. o \in 0..24 /\ k \in {0, 1, 4, 5, 6, 7} /\ m \in 0..24 /\ o <= k /\ k <= m
        /\ k \in 1..7 /\ m \in 1..7 /\ o = n /\ k \in 0..24
        BY <1>3
  <2>3. Part(k, FALSE, b)
    <3>1. k # 0 /\ k = 1 /\ k \notin 2..3 /\ k \notin 4..7
          OBVIOUS
    <3>2. QED
          BY <3>1 DEF Part
  <2>4. b \in Seq(Nat) /\ Chunk(o, k) = b
        BY ChunkFirst
  <2> HIDE DEF k, o, b
  <2>5. Part(m, FALSE \/ m \in {2, 3}, b \o Chunk(k, m))
        BY <2>2, <2>3, <2>4, PartFromOne
  <2>6. Chunk(o, m) = Chunk(o, k) \o Chunk(k, m)
        BY <2>2, ChunkSplit
  <2>7. Chunk(o, m) \in Seq(Nat)
    <3>1. o <= m
          BY <2>2
    <3>2. QED
          BY <3>1, <2>2, ChunkType
  <2>8. a \o Chunk(n, m) = b \o Chunk(k, m)
        BY <2>1, <2>2, <2>4, <2>6, <2>7, NoneJoined
  <2>9. QED
        BY <2>1, <2>5, <2>8
<1>4. QED
      BY <1>1, <1>2, <1>3

\* Before its line feed there is none.
LEMMA PartNoFeed ==
    ASSUME NEW n \in 0..6, NEW c, NEW a, Part(n, c, a)
    PROVE  a \in Seq(Nat) /\ LF \notin ToSet(a)
<1>c. ASSUME NEW x, Core(x, c) PROVE x \in Seq(Nat) /\ LF \notin ToSet(x)
  <2>1. ~(32 <= LF)
        BY DEF LF
  <2>2. QED
        BY <2>1, <1>c DEF Core
<1>1. CASE n = 0
  <2>1. a = <<>>
        BY <1>1 DEF Part
  <2>2. QED
        BY <2>1 DEF ToSet
<1>2. CASE n = 1
  <2>1. a = <<123>>
        BY <1>2 DEF Part
  <2>2. <<123>> \in Seq(Nat) /\ ToSet(<<123>>) = {123} /\ LF # 123
        BY DEF ToSet, LF
  <2>3. QED
        BY <2>1, <2>2
<1>3. CASE n \in 2..3
  <2>1. Core(a, c)
        BY <1>3 DEF Part
  <2>2. QED
        BY <2>1, <1>c
<1>4. CASE n \in 4..6
  <2> DEFINE k == 4
             s == Slice(Answer, k, n)
  <2>1. n \in 4..7 /\ k \in 4..7 /\ k <= n /\ k \in 0..24 /\ n \in 0..24
        BY <1>4
  <2>2. PICK x : Core(x, c) /\ a = x \o s
        BY <2>1 DEF Part
  <2>3. x \in Seq(Nat) /\ LF \notin ToSet(x)
        BY <2>2, <1>c
  <2>4. \A i \in 1..(n - k) : k + i = 5 \/ k + i = 6
        BY <1>4
  <2> HIDE DEF k
  <2>5. s \in Seq(Byte) /\ Len(s) = n - k /\ \A i \in 1..(n - k) : s[i] = Answer[k + i]
        BY <2>1, AnswerSlice
  <2>6. s \in Seq(Nat)
        BY <2>1, ChunkEnd, ChunkType
  <2> HIDE DEF s
  <2>7. LF \notin ToSet(s)
    <3>1. DOMAIN s = 1..(n - k)
          BY <2>5, SeqAt
    <3>2. Answer[5] # LF /\ Answer[6] # LF
          BY AnswerCarried DEF LF
    <3>3. \A i \in 1..(n - k) : s[i] # LF
          BY <2>4, <2>5, <3>2
    <3>4. QED
          BY <3>1, <3>3 DEF ToSet
  <2>8. QED
        BY <2>2, <2>3, <2>6, <2>7, Joint, ToSetConcat
<1>5. QED
      BY <1>1, <1>2, <1>3, <1>4

\* The text whose only line is the JSON line.
IsJson(p, x, c) == /\ Core(x, c)
                   /\ p = x \o Slice(Answer, 4, 7)

\* What is where in it.
LEMMA JsonAt ==
    ASSUME NEW p, NEW x, NEW c, IsJson(p, x, c)
    PROVE  /\ p \in Seq(Nat) /\ Len(x) \in Nat /\ Len(x) # 0 /\ Len(p) = Len(x) + 3
           /\ \A i \in 1..Len(x) : p[i] = x[i] /\ x[i] >= 32
           /\ p[Len(x) + 1] = 125 /\ p[Len(x) + 2] = CR /\ p[Len(x) + 3] = LF
           /\ p[1] = 123
<1> DEFINE k == 4
           m == 7
           s == Slice(Answer, k, m)
           n == Len(x)
<1>1. k \in 4..7 /\ m \in 4..7 /\ k <= m /\ k \in 0..24 /\ m \in 0..24 /\ m - k = 3
      /\ k + 1 = 5 /\ k + 2 = 6 /\ k + 3 = 7
      OBVIOUS
<1>2. /\ x \in Seq(Nat) /\ x # <<>> /\ x[1] = 123
      /\ \A y \in ToSet(x) : 32 <= y
      /\ p = x \o s
      BY DEF IsJson, Core
<1> HIDE DEF k, m
<1>3. s \in Seq(Byte) /\ Len(s) = m - k /\ \A i \in 1..(m - k) : s[i] = Answer[k + i]
      BY <1>1, AnswerSlice
<1>4. s \in Seq(Nat)
      BY <1>1, ChunkEnd, ChunkType
<1> HIDE DEF s
<1>5. Len(s) = 3 /\ s[1] = 125 /\ s[2] = CR /\ s[3] = LF
      BY <1>1, <1>3, AnswerCarried DEF CR, LF
<1>6. /\ p \in Seq(Nat) /\ n \in Nat /\ Len(p) = n + 3
      /\ \A i \in 1..n : p[i] = x[i]
      /\ \A i \in 1..3 : p[n + i] = s[i]
  <2>1. /\ x \o s \in Seq(Nat) /\ Len(x) \in Nat /\ Len(s) \in Nat
        /\ Len(x \o s) = Len(x) + Len(s)
        /\ \A i \in 1..Len(x) : (x \o s)[i] = x[i]
        /\ \A i \in 1..Len(s) : (x \o s)[Len(x) + i] = s[i]
        BY <1>2, <1>4, Joint
  <2>2. QED
        BY <2>1, <1>2, <1>5
<1>7. DOMAIN x = 1..n /\ n # 0
      BY <1>2, SeqAt, EmptySeq
<1>8. \A i \in 1..n : x[i] >= 32
  <2>1. \A i \in 1..n : x[i] \in ToSet(x) /\ x[i] \in Nat
        BY <1>2, <1>7, SeqAt DEF ToSet
  <2>2. QED
        BY <2>1, <1>2
<1>9. p[n + 1] = 125 /\ p[n + 2] = CR /\ p[n + 3] = LF
  <2>1. 1 \in 1..3 /\ 2 \in 1..3 /\ 3 \in 1..3
        OBVIOUS
  <2>2. QED
        BY ONLY <2>1, <1>5, <1>6
<1>10. p[1] = 123
  <2>1. 1 \in 1..n
        BY <1>6, <1>7
  <2>2. QED
        BY <2>1, <1>2, <1>6
<1>11. QED
       BY <1>6, <1>7, <1>8, <1>9, <1>10 DEF n

\* That line.
LEMMA JsonLines ==
    ASSUME NEW p, NEW x, NEW c, IsJson(p, x, c)
    PROVE  CompleteLines(p) = {SubSeq(p, 1, Len(x) + 1)}
<1> DEFINE n == Len(x)
           line == SubSeq(p, 1, n + 1)
<1>1. /\ p \in Seq(Nat) /\ n \in Nat /\ n # 0 /\ Len(p) = n + 3
      /\ \A i \in 1..n : p[i] >= 32
      /\ p[n + 1] = 125 /\ p[n + 2] = CR /\ p[n + 3] = LF
      /\ p[1] = 123
  <2>1. /\ p \in Seq(Nat) /\ Len(x) \in Nat /\ Len(x) # 0 /\ Len(p) = Len(x) + 3
           /\ \A i \in 1..Len(x) : p[i] = x[i] /\ x[i] >= 32
           /\ p[Len(x) + 1] = 125 /\ p[Len(x) + 2] = CR /\ p[Len(x) + 3] = LF
           /\ p[1] = 123
        BY JsonAt
  <2>2. \A i \in 1..Len(x) : p[i] >= 32
        BY <2>1
  <2>3. QED
        BY ONLY <2>1, <2>2
<1> HIDE DEF n
<1>2. \A i \in 1..(n + 3) : p[i] = LF <=> i = n + 3
  <2>1. \A i \in 1..(n + 3) : i \in 1..n \/ i = n + 1 \/ i = n + 2 \/ i = n + 3
        BY <1>1
  <2>2. \A i \in 1..n : p[i] # LF
        BY <1>1 DEF LF
  <2>3. p[n + 1] # LF /\ p[n + 2] # LF
        BY <1>1 DEF LF, CR
  <2>4. QED
        BY <2>1, <2>2, <2>3, <1>1
<1>3. ASSUME NEW b, NEW e PROVE IsLine(p, b, e) <=> b = 0 /\ e = n + 3
  <2>1. IsLine(p, b, e) <=>
               /\ b \in 0..(n + 3) /\ e \in 1..(n + 3) /\ b < e
               /\ b = 0 \/ p[b] = LF
               /\ p[e] = LF
               /\ \A i \in 1..(n + 3) : b < i /\ i < e => p[i] # LF
    <3>1. p \in Seq(Nat) /\ Len(p) = n + 3
          BY <1>1
    <3>2. IsLine(p, b, e) <=>
               /\ b \in 0..Len(p) /\ e \in 1..Len(p) /\ b < e
               /\ b = 0 \/ p[b] = LF
               /\ p[e] = LF
               /\ \A i \in 1..Len(p) : b < i /\ i < e => p[i] # LF
          BY ONLY <3>1, LineIs
    <3>3. QED
          BY ONLY <3>1, <3>2
  <2>2. ASSUME IsLine(p, b, e) PROVE b = 0 /\ e = n + 3
    <3>1. e = n + 3
          BY <2>1, <2>2, <1>2
    <3>2. b \notin 1..(n + 3)
          BY <2>1, <2>2, <3>1, <1>1, <1>2
    <3>3. QED
          BY <3>1, <3>2, <2>1, <2>2, <1>1
  <2>3. ASSUME b = 0, e = n + 3 PROVE IsLine(p, b, e)
    <3>1. b \in 0..(n + 3) /\ e \in 1..(n + 3) /\ b < e
          BY <2>3, <1>1
    <3>2. \A i \in 1..(n + 3) : i < e => p[i] # LF
          BY <2>3, <1>1, <1>2
    <3>3. QED
          BY <2>1, <2>3, <3>1, <3>2, <1>1
  <2>4. QED
        BY <2>2, <2>3
<1>4. Strip(SubSeq(p, 0 + 1, (n + 3) - 1)) = line
  <2> DEFINE m == n + 2
             z == n + 1
  <2>1. /\ p \in Seq(Nat) /\ m \in Nat /\ z \in 1..m /\ m <= Len(p)
        BY <1>1
  <2>2. 123 \notin White /\ 125 \notin White /\ CR \in White
        BY DEF White, CR
  <2>3. p[1] \notin White /\ p[z] \notin White /\ \A i \in (z + 1)..m : p[i] \in White
    <3>1. \A i \in (z + 1)..m : i = n + 2
          BY <1>1
    <3>2. QED
          BY <3>1, <2>2, <1>1
  <2> HIDE DEF m, z
  <2>4. Strip(SubSeq(p, 1, m)) = SubSeq(p, 1, z)
        BY ONLY <2>1, <2>3, StripStart
  <2>5. 0 + 1 = 1 /\ (n + 3) - 1 = m
        BY <1>1 DEF m
  <2>6. QED
        BY <2>4, <2>5 DEF z
<1>5. line # <<>>
  <2>1. line \in Seq(Nat) /\ Len(line) = n + 1
    <3> DEFINE a == 1
               z == n + 1
    <3>1. p \in Seq(Nat) /\ a \in Nat /\ z \in Nat /\ 1 <= a /\ a <= z + 1 /\ z <= Len(p) /\ z - a + 1 = z
          BY <1>1
    <3> HIDE DEF a, z
    <3>2. SubSeq(p, a, z) \in Seq(Nat) /\ Len(SubSeq(p, a, z)) = z - a + 1
          BY <3>1, SubSeqAt
    <3>3. QED
          BY <3>1, <3>2 DEF a, z
  <2> HIDE DEF line
  <2>2. Len(line) # 0
        BY <2>1, <1>1
  <2>3. QED
        BY <2>1, <2>2, NonEmpty
<1> HIDE DEF line
<1>6. ASSUME NEW l PROVE l \in CompleteLines(p) <=> l = line
  <2>1. l \in CompleteLines(p) <=>
               /\ l # <<>>
               /\ \E b, e : IsLine(p, b, e) /\ l = Strip(SubSeq(p, b + 1, e - 1))
        BY <1>1, LinesAre
  <2>2. (\E b, e : IsLine(p, b, e) /\ l = Strip(SubSeq(p, b + 1, e - 1))) <=> l = line
        BY <1>3, <1>4
  <2>3. QED
        BY <2>1, <2>2, <1>5
<1>7. QED
      BY <1>6 DEF line, n

\* It is a record, and the one that was sent unless it was cut.
LEMMA JsonIs ==
    ASSUME NEW p, NEW x, NEW c, IsJson(p, x, c)
    PROVE  LET line == SubSeq(p, 1, Len(x) + 1)
           IN  IsRecord(line) /\ (line = JsonLine <=> ~c)
<1> DEFINE n == Len(x)
           line == SubSeq(p, 1, n + 1)
<1>1. /\ p \in Seq(Nat) /\ n \in Nat /\ n # 0 /\ Len(p) = n + 3
      /\ \A i \in 1..n : p[i] = x[i] /\ x[i] >= 32
      /\ p[n + 1] = 125 /\ p[1] = 123
      BY JsonAt
<1>c. /\ c => WideChar \notin ToSet(x)
      /\ ~c => x = <<123, WideChar>>
      /\ x \in Seq(Nat)
      BY DEF IsJson, Core
<1> HIDE DEF n
<1>2. /\ line \in Seq(Nat) /\ Len(line) = n + 1
      /\ \A i \in 1..(n + 1) : line[i] = p[i]
  <2> DEFINE a == 1
             z == n + 1
  <2>1. p \in Seq(Nat) /\ a \in Nat /\ z \in Nat /\ 1 <= a /\ a <= z + 1 /\ z <= Len(p) /\ z - a + 1 = z
        /\ \A i \in 1..z : a + i - 1 = i
        BY <1>1
  <2> HIDE DEF a, z
  <2>2. SubSeq(p, a, z) \in Seq(Nat) /\ Len(SubSeq(p, a, z)) = z - a + 1
        /\ \A i \in 1..(z - a + 1) : SubSeq(p, a, z)[i] = p[a + i - 1]
        BY <2>1, SubSeqAt
  <2>3. QED
        BY <2>1, <2>2 DEF a, z
<1> HIDE DEF line
<1>3. IsRecord(line)
  <2>1. DOMAIN line = 1..(n + 1)
        BY <1>2, SeqAt
  <2>2. line[1] = 123 /\ line[n + 1] = 125
    <3>1. 1 \in 1..(n + 1) /\ n + 1 \in 1..(n + 1)
          BY <1>1
    <3>2. QED
          BY <3>1, <1>1, <1>2
  <2>3. Last(line) = 125
        BY <2>2, <1>2 DEF Last
  <2>4. ASSUME NEW i \in 1..(n + 1) PROVE line[i] >= 32
    <3>1. CASE i \in 1..n
          BY <3>1, <1>1, <1>2
    <3>2. CASE i = n + 1
          BY <3>2, <2>2
    <3>3. QED
          BY <3>1, <3>2, <1>1
  <2>5. QED
        BY <2>1, <2>2, <2>3, <2>4 DEF IsRecord
<1>4. JsonLine[2] = WideChar /\ Len(JsonLine) = 3
      BY DEF JsonLine
<1>5. ASSUME c PROVE line # JsonLine
  <2>1. SUFFICES ASSUME line = JsonLine PROVE FALSE
        OBVIOUS
  <2>2. n = 2
    <3>1. Len(line) = n + 1 /\ Len(line) = 3 /\ n \in Nat
          BY <2>1, <1>1, <1>2, <1>4
    <3>2. n + 1 = 3
          BY ONLY <3>1
    <3>3. QED
          BY ONLY <3>1, <3>2
  <2>3. 2 \in 1..n /\ 2 \in 1..(n + 1)
        BY <2>2
  <2>4. x[2] = WideChar
        BY <2>1, <2>3, <1>1, <1>2, <1>4
  <2>5. DOMAIN x = 1..n
        BY <1>c, SeqAt DEF n
  <2>6. x[2] \in ToSet(x)
        BY <2>3, <2>5 DEF ToSet
  <2>7. QED
        BY <2>4, <2>6, <1>5, <1>c
<1>6. ASSUME ~c PROVE line = JsonLine
  <2>1. x = <<123, WideChar>>
        BY <1>6, <1>c
  <2>2. n = 2 /\ x[1] = 123 /\ x[2] = WideChar
        BY <2>1 DEF n
  <2>3. Len(line) = 3 /\ line[1] = 123 /\ line[2] = WideChar /\ line[3] = 125
    <3>1. 1 \in 1..n /\ 2 \in 1..n /\ n + 1 = 3 /\ 1 \in 1..(n + 1) /\ 2 \in 1..(n + 1) /\ 3 \in 1..(n + 1)
          BY <2>2
    <3>2. QED
          BY <3>1, <2>2, <1>1, <1>2
  <2>4. line = <<line[1], line[2], line[3]>>
    <3>1. line \in Seq(Nat) /\ Len(line) = 3
          BY <1>2, <2>3
    <3>2. QED
          BY ONLY <3>1
  <2>5. QED
        BY <2>3, <2>4 DEF JsonLine
<1>7. QED
      BY <1>3, <1>5, <1>6 DEF line, n

\* After the JSON line come no other lines than the acknowledgement's.
LEMMA AckBytes ==
    Later(Answer, 24) = BuildLine(AckPayload)
<1> DEFINE t == BuildLine(AckPayload)
           n == 7
           m == 24
           s == Slice(Answer, n, m)
<1>1. /\ \A i \in 1..17 : Answer[n + i] = t[i]
      /\ t \in Seq(Nat) /\ t \in Seq(Ascii) /\ t \in Seq(Byte) /\ Len(t) = 17
      BY AnswerAt
<1>2. n \in 0..24 /\ m \in 0..24 /\ n <= m /\ m - n = 17
      OBVIOUS
<1> HIDE DEF n, m
<1>3. s \in Seq(Byte) /\ Len(s) = m - n /\ \A i \in 1..(m - n) : s[i] = Answer[n + i]
      BY <1>2, AnswerSlice
<1> HIDE DEF t, s
<1>4. s = t
  <2>1. Len(s) = Len(t) /\ \A i \in 1..Len(s) : s[i] = t[i]
    <3>1. Len(s) = 17 /\ \A i \in 1..17 : s[i] = Answer[n + i]
          BY <1>2, <1>3
    <3>2. QED
          BY ONLY <3>1, <1>1
  <2>2. s \in Seq(Byte) /\ t \in Seq(Byte)
        BY <1>1, <1>3
  <2>3. QED
        BY ONLY <2>1, <2>2, SeqEqual
<1>5. Decode(s) = t
      BY <1>1, <1>4, DecodeAscii
<1>6. QED
      BY <1>5 DEF Later, s, t, n, m

\* Its only line begins with a dollar.
LEMMA AckLines ==
    ASSUME NEW line \in CompleteLines(BuildLine(AckPayload))
    PROVE  line[1] = Dollar
<1> DEFINE p == AckPayload
           t == BuildLine(p)
<1>1. p \in Seq(Nat) /\ Len(p) = 11 /\ Plain(p) /\ p # <<>>
      BY AckIs DEF Plain
<1>2. t \in Seq(Nat) /\ Len(t) = 17
      BY AnswerAt
<1>3. \A i \in 1..17 : t[i] = LF <=> i = 17
  <2>1. \A i \in 1..(Len(p) + 6) : t[i] = LF <=> i = Len(p) + 6
        BY <1>1, LineMarks
  <2>2. Len(p) + 6 = 17
        BY <1>1
  <2>3. QED
        BY ONLY <2>1, <2>2
<1> HIDE DEF p, t
<1>4. PICK b, e : IsLine(t, b, e) /\ line = Strip(SubSeq(t, b + 1, e - 1))
      BY <1>2, LinesAre DEF t, p
<1>5. b = 0 /\ e = 17
  <2>1. /\ b \in 0..Len(t) /\ e \in 1..Len(t) /\ b < e
        /\ b = 0 \/ t[b] = LF
        /\ t[e] = LF
        BY <1>2, <1>4, LineIs
  <2>2. QED
        BY <2>1, <1>2, <1>3
<1>6. line = Strip(SubSeq(t, 1, 16))
  <2>1. b + 1 = 1 /\ e - 1 = 16
        BY <1>5
  <2>2. QED
        BY <2>1, <1>4
<1>7. IsFrame(line)
  <2>1. 16 = Len(p) + 5
        BY <1>1
  <2>2. IsFrame(Strip(SubSeq(BuildLine(p), 1, Len(p) + 5)))
        BY <1>1, BuiltIsRead
  <2>3. QED
        BY <2>1, <2>2, <1>6 DEF t
<1>8. QED
      BY <1>7 DEF IsFrame

\* So no line after the JSON line is a record.
LEMMA LaterLines ==
    ASSUME NEW m \in 7..24, NEW line \in CompleteLines(Later(Answer, m))
    PROVE  ~IsRecord(line) /\ line # JsonLine
<1> DEFINE z == 24
<1>1. PICK at, byte : Carried(Answer, at, byte)
      BY AnswerCarried
<1>2. z \in 7..24 /\ m <= z
      OBVIOUS
<1> HIDE DEF z
<1>3. /\ Later(Answer, m) \in Seq(Nat) /\ Decode(Slice(Answer, m, z)) \in Seq(Nat)
      /\ Later(Answer, z) = Later(Answer, m) \o Decode(Slice(Answer, m, z))
      BY <1>1, <1>2, TailMore
<1>4. line \in CompleteLines(Later(Answer, z))
      BY <1>3, LinesMore
<1>5. line[1] = Dollar
      BY <1>4, AckBytes, AckLines DEF z
<1>6. QED
      BY <1>5 DEF IsRecord, JsonLine, Dollar

\* Until the line feed of the JSON line has come no line is taken in.
LEMMA RecordAwaited ==
    ASSUME NEW n \in 0..6, NEW m \in 0..6, n <= m, NEW c \in BOOLEAN, NEW a \in Seq(Nat),
           Part(n, c, a)
    PROVE  LET text == a \o Chunk(n, m)
           IN  CompleteLines(text) = {} /\ Part(m, c \/ m \in {2, 3}, RestOf(text))
<1> DEFINE text == a \o Chunk(n, m)
           d == c \/ m \in {2, 3}
<1>1. Part(m, d, text)
      BY PartMore
<1>2. text \in Seq(Nat) /\ LF \notin ToSet(text)
  <2> HIDE DEF text, d
  <2>1. QED
        BY <1>1, PartNoFeed
<1>3. CompleteLines(text) = {} /\ RestOf(text) = text
  <2> HIDE DEF text, d
  <2>1. QED
        BY <1>2, NoFeed
<1> HIDE DEF text, d
<1>4. Part(m, d, RestOf(text))
      BY <1>1, <1>3
<1>5. QED
      BY <1>3, <1>4 DEF text, d

\* The read that reaches it takes in a record, mangled if it was cut.
LEMMA RecordTaken ==
    ASSUME NEW n \in 0..6, NEW m \in 7..24, NEW c \in BOOLEAN, NEW a \in Seq(Nat), Part(n, c, a)
    PROVE  LET lines == CompleteLines(a \o Chunk(n, m))
           IN  (\E line \in lines : IsRecord(line)) /\ (JsonLine \in lines <=> ~c)
<1> DEFINE k == 7
           u == Chunk(n, k)
           v == Chunk(k, m)
           p == a \o u
           d == c \/ k \in {2, 3}
<1>1. k \in 0..7 /\ k \in 0..24 /\ n \in 0..7 /\ n \in 0..24 /\ n <= k /\ k <= m
      /\ m \in 0..24 /\ k \in {0, 1, 4, 5, 6, 7} /\ k \notin {2, 3} /\ k \in 4..7 /\ k # 0 /\ k # 1
      OBVIOUS
<1> HIDE DEF k
<1>2. Part(k, d, p)
      BY <1>1, PartMore
<1>3. d = c
      BY <1>1
<1>4. Part(k, c, p)
      BY <1>2, <1>3
<1>5. u \in Seq(Nat) /\ v \in Seq(Nat)
      BY <1>1, ChunkType
<1>6. Chunk(n, m) = u \o v
      BY <1>1, ChunkSplit
<1> HIDE DEF u, v, d
<1>7. a \o Chunk(n, m) = p \o v
  <2>1. (a \o u) \o v = a \o (u \o v)
        BY <1>5, Regroup
  <2>2. QED
        BY <2>1, <1>6
<1> HIDE DEF p
<1>8. PICK x : IsJson(p, x, c)
      BY <1>1, <1>4 DEF Part, IsJson, k
<1>9. /\ p \in Seq(Nat) /\ Len(x) \in Nat /\ Len(p) = Len(x) + 3
      /\ p[Len(x) + 3] = LF
      BY <1>8, JsonAt
<1>10. EndsLine(p)
       BY <1>9 DEF EndsLine
<1>11. CompleteLines(p \o v) = CompleteLines(p) \cup CompleteLines(v)
       BY <1>5, <1>9, <1>10, LinesConcat
<1> DEFINE l == SubSeq(p, 1, Len(x) + 1)
<1>12. CompleteLines(p) = {l}
       BY <1>8, JsonLines
<1>13. IsRecord(l) /\ (l = JsonLine <=> ~c)
       BY <1>8, JsonIs
<1> HIDE DEF l
<1>14. JsonLine \notin CompleteLines(v)
       BY LaterLines DEF v, k, Chunk, Later
<1>15. QED
       BY <1>7, <1>11, <1>12, <1>13, <1>14

\* No read after it takes in another.
LEMMA RecordKept ==
    ASSUME NEW n \in 7..24, NEW m \in 7..24, n <= m,
           NEW line \in CompleteLines(RestOf(Later(Answer, n)) \o Chunk(n, m))
    PROVE  ~IsRecord(line)
<1>1. PICK at, byte : Carried(Answer, at, byte)
      BY AnswerCarried
<1>2. /\ Later(Answer, n) \in Seq(Nat) /\ Chunk(n, m) \in Seq(Nat)
      /\ Later(Answer, m) = Later(Answer, n) \o Chunk(n, m)
      BY <1>1, TailMore DEF Chunk
<1>3. line \in CompleteLines(Later(Answer, m))
      BY <1>2, LinesMore
<1>4. QED
      BY <1>3, LaterLines

\* What an undamaged JSON line has become.
Recorded ==
    /\ cut \in BOOLEAN
    /\ phase = "writing" => record = None /\ cut = FALSE
    /\ damage = None =>
          /\ taken < 7 => record = None /\ Part(taken, cut, buf)
          /\ taken >= 7 => record = IF cut THEN "mangled" ELSE "whole"

\* A read keeps that.
LEMMA RecordedRead ==
    ASSUME CallInv, Recorded, Read
    PROVE  Recorded'
<1> DEFINE n == taken
           m == Reached
           lines == CompleteLines(TextRead)
<1>1. /\ phase' # "writing" /\ taken' = m /\ buf' = RestOf(TextRead)
      /\ cut' = (cut \/ m \in {2, 3})
      /\ record' = IF \E line \in lines : IsRecord(line)
                   THEN IF JsonLine \in lines THEN "whole" ELSE "mangled"
                   ELSE record
      /\ damage' = damage
  <2>1. /\ phase' = IF \E line \in CompleteLines(TextRead) : Acknowledges(line)
                    THEN "answered" ELSE "checking"
        /\ taken' = Reached /\ buf' = RestOf(TextRead)
        /\ cut' = (cut \/ taken' \in {2, 3})
        /\ record' = IF \E line \in CompleteLines(TextRead) : IsRecord(line)
                     THEN IF JsonLine \in CompleteLines(TextRead) THEN "whole" ELSE "mangled"
                     ELSE record
        /\ damage' = damage
        BY ReadMoves
  <2>2. phase' # "writing"
        BY <2>1
  <2>3. QED
        BY <2>1, <2>2
<1>2. /\ arrived \in 0..24 /\ upTo \in 0..arrived /\ taken \in 0..arrived
      /\ Fits(Wire[damage], taken, buf)
      BY DEF CallInv, Arrival, TakenIn
<1>3. n \in 0..24 /\ m \in 0..24 /\ n <= m
  <2>1. m \in n..arrived
        BY <1>2, ReachedIs
  <2>2. QED
        BY <2>1, <1>2
<1>4. cut \in BOOLEAN
      BY DEF Recorded
<1>5. cut' \in BOOLEAN
      BY <1>1, <1>4
<1>6. buf \in Seq(Nat)
      BY <1>2 DEF Fits
<1>7. ASSUME damage = None
      PROVE  /\ TextRead = buf \o Chunk(n, m)
             /\ n < 7 => record = None /\ Part(n, cut, buf)
             /\ n >= 7 => /\ record = IF cut THEN "mangled" ELSE "whole"
                          /\ buf = RestOf(Later(Answer, n))
  <2>1. Wire[damage] = Answer /\ Answer[7] = LF
        BY <1>7, AnswerCarried DEF LF
  <2>2. n >= 7 => buf = RestOf(Later(Answer, n))
        BY <2>1, <1>2, <1>3 DEF Fits
  <2>3. TextRead = buf \o Chunk(n, m)
        BY <2>1 DEF TextRead, Chunk, Slice
  <2>4. /\ n < 7 => record = None /\ Part(n, cut, buf)
        /\ n >= 7 => record = IF cut THEN "mangled" ELSE "whole"
        BY <1>7 DEF Recorded
  <2>5. QED
        BY <2>2, <2>3, <2>4
<1> DEFINE c == cut
           d == cut'
           a == buf
           t == TextRead
<1>8. d = (c \/ m \in {2, 3})
      BY <1>1
<1> HIDE DEF n, m, c, d, a
<1>9. ASSUME damage = None, m < 7
      PROVE  record' = None /\ Part(m, d, RestOf(t))
  <2>1. n \in 0..6 /\ m \in 0..6 /\ n < 7
        BY <1>3, <1>9
  <2>2. Part(n, c, a) /\ record = None /\ t = a \o Chunk(n, m)
        BY <2>1, <1>7, <1>9 DEF c, a
  <2>3. c \in BOOLEAN /\ a \in Seq(Nat)
        BY <1>4, <1>6 DEF c, a
  <2>4. CompleteLines(t) = {} /\ Part(m, c \/ m \in {2, 3}, RestOf(t))
        BY <2>1, <2>2, <2>3, <1>3, RecordAwaited
  <2>5. record' = None
        BY <2>2, <2>4, <1>1
  <2>6. QED
        BY <2>4, <2>5, <1>8
<1>10. ASSUME damage = None, n < 7, m >= 7
       PROVE  record' = IF d THEN "mangled" ELSE "whole"
  <2>1. n \in 0..6 /\ m \in 7..24 /\ m \notin {2, 3}
        BY <1>3, <1>10
  <2>2. Part(n, c, a) /\ t = a \o Chunk(n, m)
        BY <1>7, <1>10 DEF c, a
  <2>3. c \in BOOLEAN /\ a \in Seq(Nat)
        BY <1>4, <1>6 DEF c, a
  <2>4. (\E line \in CompleteLines(t) : IsRecord(line)) /\ (JsonLine \in CompleteLines(t) <=> ~c)
        BY <2>1, <2>2, <2>3, RecordTaken
  <2>5. d <=> c
        BY <2>1, <1>8
  <2>6. QED
        BY <2>4, <2>5, <1>1
<1>11. ASSUME damage = None, n >= 7
       PROVE  record' = IF d THEN "mangled" ELSE "whole"
  <2>1. n \in 7..24 /\ m \in 7..24 /\ m \notin {2, 3}
        BY <1>3, <1>11
  <2>2. t = RestOf(Later(Answer, n)) \o Chunk(n, m)
        BY <1>7, <1>11 DEF a
  <2>3. \A line \in CompleteLines(t) : ~IsRecord(line)
        BY <2>1, <2>2, <1>3, RecordKept
  <2>4. record' = record
        BY <2>3, <1>1
  <2>5. record = IF c THEN "mangled" ELSE "whole"
        BY <1>7, <1>11 DEF c
  <2>6. d <=> c
        BY <2>1, <1>8
  <2>7. QED
        BY <2>4, <2>5, <2>6
<1>12. ASSUME damage' = None, taken' < 7
       PROVE  record' = None /\ Part(taken', cut', buf')
  <2>1. damage = None /\ m < 7
        BY <1>1, <1>12 DEF m
  <2>2. QED
        BY <2>1, <1>9, <1>1 DEF m, d
<1>13. ASSUME damage' = None, taken' >= 7
       PROVE  record' = IF cut' THEN "mangled" ELSE "whole"
  <2>1. damage = None /\ m >= 7
        BY <1>1, <1>13 DEF m
  <2>2. n < 7 \/ n >= 7
        BY <1>3
  <2>3. QED
        BY <2>1, <2>2, <1>10, <1>11 DEF d
<1>14. QED
       BY <1>1, <1>5, <1>12, <1>13 DEF Recorded

\* Every step keeps what the JSON line has become.
LEMMA RecordedStep == CallInv /\ Recorded /\ [Next]_vars => Recorded'
<1> SUFFICES ASSUME CallInv, Recorded, [Next]_vars PROVE Recorded'
    OBVIOUS
<1>1. CASE Read
      BY <1>1, RecordedRead
<1>2. CASE \E argument \in Arguments : Write(argument)
  <2>1. PICK argument \in Arguments : Write(argument)
        BY <1>2
  <2>2. phase = "writing" /\ phase' # "writing" /\ UNCHANGED <<taken, buf, cut, record>>
        BY <2>1 DEF Write
  <2>3. taken = 0 /\ buf = <<>>
        BY <2>2 DEF CallInv, Arrival
  <2>4. record = None /\ cut = FALSE
        BY <2>2 DEF Recorded
  <2>5. /\ taken' = 0 /\ buf' = <<>> /\ record' = None /\ ~cut' /\ cut' \in BOOLEAN
        /\ ~(taken' >= 7)
    <3>1. taken' = 0 /\ buf' = <<>> /\ record' = None
          BY <2>2, <2>3, <2>4
    <3>2. cut' = FALSE
          BY <2>2, <2>4
    <3>3. ~(0 >= 7)
          OBVIOUS
    <3>4. QED
          BY <3>1, <3>2, <3>3
  <2>6. Part(taken', cut', buf')
        BY <2>5 DEF Part
  <2>7. QED
        BY <2>2, <2>5, <2>6 DEF Recorded
<1>3. CASE \/ Look \/ GiveUp \/ Sleep \/ Wake \/ TimePasses
           \/ (\E count \in Bursts : BytesArrive(count)) \/ UNCHANGED vars
  <2>1. UNCHANGED <<damage, taken, buf, cut, record>> /\ (phase' = "writing" => phase = "writing")
        BY <1>3 DEF Look, GiveUp, Sleep, Wake, TimePasses, BytesArrive, rest, vars, callVars
  <2>2. QED
        BY <2>1 DEF Recorded
<1>4. QED
      BY <1>1, <1>2, <1>3 DEF Next, HostStep

\* An undamaged JSON line is taken in whatever the chunks are; its wide
\* character is lost exactly if a read ended inside it.
THEOREM ReadsWhatWasSentHolds == Spec => []ReadsWhatWasSent
<1>1. Init => Recorded
  <2> SUFFICES ASSUME Init PROVE Recorded
      OBVIOUS
  <2>1. taken = 0 /\ buf = <<>> /\ record = None /\ cut = FALSE /\ ~(taken >= 7)
        BY DEF Init
  <2>2. Part(taken, cut, buf)
        BY <2>1 DEF Part
  <2>3. QED
        BY <2>1, <2>2 DEF Recorded
<1>2. Spec => []Recorded
      BY <1>1, RecordedStep, CallHolds, PTL DEF Spec
<1>3. Recorded => ReadsWhatWasSent
      BY DEF Recorded, ReadsWhatWasSent
<1>4. QED
      BY <1>2, <1>3, PTL
=============================================================================
