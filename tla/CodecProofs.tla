---------------------------- MODULE CodecProofs ----------------------------
(***************************************************************************)
(* Proofs about Codec.                                                     *)
(***************************************************************************)
EXTENDS Codec, TLAPS, NaturalsInduction, WellFoundedInduction, SequenceTheorems

\* What is written and read.
ByteSeq == Seq(Byte)

(***************************************************************************)
(* Sequences.                                                              *)
(***************************************************************************)

\* Every set of numbers has a least one, and Smallest is it.
LEMMA SmallestIsLeast ==
  ASSUME NEW T \in SUBSET Nat, T # {}
  PROVE  Smallest(T) \in T /\ \A n \in T : Smallest(T) <= n
  <1> DEFINE R == {ss \in Nat \X Nat : ss[1] < ss[2]}
  <1>1. IsWellFoundedOn(R, Nat)
    BY NatLessThanWellFounded DEF OpToRel
  <1>2. \A x, y \in Nat : x < y => <<x, y>> \in R
    OBVIOUS
  <1> HIDE DEF R
  <1>3. PICK x \in T : \A y \in T : ~(<<y, x>> \in R)
    BY <1>1, WFMin
  <1>4. ASSUME NEW n \in T PROVE x <= n
    <2>1. n \in Nat /\ x \in Nat /\ ~(n < x)
      BY <1>2, <1>3
    <2> QED
      BY <2>1
  <1> QED
    BY <1>4 DEF Smallest

\* There is only one.
LEMMA SmallestIs ==
  ASSUME NEW T \in SUBSET Nat, NEW m \in T, \A n \in T : m <= n
  PROVE  Smallest(T) = m
  <1>1. Smallest(T) \in T /\ \A n \in T : Smallest(T) <= n
    BY SmallestIsLeast
  <1>2. m <= Smallest(T) /\ Smallest(T) <= m /\ m \in Nat /\ Smallest(T) \in Nat
    BY <1>1
  <1> QED
    BY <1>2

\* The two parts of a concatenation.
LEMMA Parts ==
  ASSUME NEW p \in ByteSeq, NEW t \in ByteSeq
  PROVE  /\ p \o t \in ByteSeq /\ Len(p \o t) = Len(p) + Len(t)
         /\ Len(p) \in Nat /\ Len(t) \in Nat
         /\ SubSeq(p \o t, 1, Len(p)) = p
         /\ SubSeq(p \o t, Len(p) + 1, Len(p \o t)) = t
  <1> DEFINE s == p \o t
  <1>1. /\ s \in Seq(Byte) /\ Len(s) = Len(p) + Len(t)
        /\ \A i \in 1 .. Len(p) + Len(t) :
              s[i] = IF i <= Len(p) THEN p[i] ELSE t[i - Len(p)]
    BY ConcatProperties DEF ByteSeq
  <1>2. Len(p) \in Nat /\ Len(t) \in Nat /\ p \in Seq(Byte) /\ t \in Seq(Byte)
    BY LenProperties DEF ByteSeq
  <1> HIDE DEF s
  <1>3. \A i \in 1 .. Len(s) : s[i] \in Byte
    BY <1>1, ElementOfSeq
  <1> DEFINE a == SubSeq(s, 1, Len(p))
             b == SubSeq(s, Len(p) + 1, Len(s))
  <1>4. a = p
    <2>1. \A i \in 1 .. Len(p) : s[i] \in Byte
      BY <1>1, <1>2, <1>3
    <2>2. /\ a \in Seq(Byte)
          /\ Len(a) = IF 1 <= Len(p) THEN Len(p) - 1 + 1 ELSE 0
          /\ \A i \in 1 .. Len(p) - 1 + 1 : a[i] = s[1 + i - 1]
      BY <1>2, <2>1, SubSeqProperties
    <2>3. Len(a) = Len(p) /\ \A i \in 1 .. Len(a) : a[i] = p[i]
      BY <1>1, <1>2, <2>2
    <2> QED
      BY <1>2, <2>2, <2>3, SeqEqual
  <1>5. b = t
    <2>1. \A i \in Len(p) + 1 .. Len(s) : s[i] \in Byte
      BY <1>1, <1>2, <1>3
    <2>2. Len(p) + 1 \in Int /\ Len(s) \in Int
      BY <1>1, <1>2
    <2>3. /\ b \in Seq(Byte)
          /\ Len(b) = IF Len(p) + 1 <= Len(s) THEN Len(s) - (Len(p) + 1) + 1 ELSE 0
          /\ \A i \in 1 .. Len(s) - (Len(p) + 1) + 1 : b[i] = s[(Len(p) + 1) + i - 1]
      BY <2>1, <2>2, SubSeqProperties
    <2>4. Len(b) = Len(t)
      BY <1>1, <1>2, <2>3
    <2> HIDE DEF b
    <2>5. ASSUME NEW i \in 1 .. Len(b) PROVE b[i] = t[i]
      <3>1. /\ i \in 1 .. Len(s) - (Len(p) + 1) + 1 /\ (Len(p) + 1) + i - 1 = Len(p) + i
            /\ Len(p) + i \in 1 .. Len(p) + Len(t) /\ ~(Len(p) + i <= Len(p))
            /\ (Len(p) + i) - Len(p) = i
        BY <1>1, <1>2, <2>4
      <3>2. b[i] = s[Len(p) + i]
        BY <2>3, <3>1
      <3> QED
        BY <1>1, <3>1, <3>2
    <2> QED
      BY <1>2, <2>3, <2>4, <2>5, SeqEqual
  <1> QED
    BY <1>1, <1>2, <1>4, <1>5 DEF s, ByteSeq

\* What follows the first n elements.
LEMMA Halves ==
  ASSUME NEW s \in ByteSeq, NEW n \in 0 .. Len(s)
  PROVE  LET p == SubSeq(s, 1, n)
             q == SubSeq(s, n + 1, Len(s))
         IN  /\ p \in ByteSeq /\ q \in ByteSeq /\ s = p \o q
             /\ Len(p) = n /\ Len(q) = Len(s) - n
  <1> DEFINE p == SubSeq(s, 1, n)
             q == SubSeq(s, n + 1, Len(s))
  <1>1. /\ s \in Seq(Byte) /\ Len(s) \in Nat /\ \A i \in 1 .. Len(s) : s[i] \in Byte
    BY LenProperties, ElementOfSeq DEF ByteSeq
  <1>2. p \in Seq(Byte) /\ Len(p) = n
    <2>1. /\ p \in Seq(Byte) /\ Len(p) = IF 1 <= n THEN n - 1 + 1 ELSE 0
      BY <1>1, SubSeqProperties
    <2> QED
      BY <1>1, <2>1
  <1>3. q \in Seq(Byte) /\ Len(q) = Len(s) - n
    <2>1. /\ q \in Seq(Byte)
          /\ Len(q) = IF n + 1 <= Len(s) THEN Len(s) - (n + 1) + 1 ELSE 0
      BY <1>1, SubSeqProperties
    <2> QED
      BY <1>1, <2>1
  <1>4. p \o q = SubSeq(s, 1, Len(s))
    <2>1. 1 \in 1 .. Len(s) + 1 /\ n \in 1 - 1 .. Len(s) /\ Len(s) \in n .. Len(s)
      BY <1>1
    <2> QED
      BY <1>1, <2>1, ConcatAdjacentSubSeq
  <1>5. SubSeq(s, 1, Len(s)) = s
    BY <1>1, SubSeqFull
  <1> QED
    BY <1>2, <1>3, <1>4, <1>5 DEF ByteSeq

\* It does not matter what is put together first.
LEMMA Assoc ==
  ASSUME NEW s \in ByteSeq, NEW t \in ByteSeq, NEW u \in ByteSeq
  PROVE  (s \o t) \o u = s \o (t \o u)
  BY ConcatAssociative DEF ByteSeq

\* Concatenation.
LEMMA Concat ==
  ASSUME NEW s \in ByteSeq, NEW t \in ByteSeq, NEW u \in ByteSeq
  PROVE  /\ (s \o t) \o u = s \o (t \o u)
         /\ s \o << >> = s /\ << >> \o s = s
         /\ << >> \in ByteSeq /\ Len(<< >>) = 0
         /\ (s = << >> <=> Len(s) = 0)
         /\ s \o t = s \o u => t = u
         /\ (s \o t = << >> <=> s = << >> /\ t = << >>)
  <1>1. s \in Seq(Byte) /\ t \in Seq(Byte) /\ u \in Seq(Byte)
    BY DEF ByteSeq
  <1>2. (s \o t) \o u = s \o (t \o u)
    BY <1>1, ConcatAssociative
  <1>3. s \o << >> = s /\ << >> \o s = s
    BY <1>1, ConcatEmptySeq
  <1>4. << >> \in Seq(Byte) /\ Len(<< >>) = 0 /\ (s # << >> => Len(s) \in Nat \ {0})
    BY <1>1, EmptySeq
  <1>5. s \o t = s \o u => t = u
    <2>1. /\ SubSeq(s \o t, Len(s) + 1, Len(s \o t)) = t
          /\ SubSeq(s \o u, Len(s) + 1, Len(s \o u)) = u
      BY Parts
    <2> QED
      BY <2>1
  <1>6. s \o t = << >> <=> s = << >> /\ t = << >>
    BY <1>1, ConcatEqualIffEmpty
  <1> QED
    BY <1>2, <1>3, <1>4, <1>5, <1>6 DEF ByteSeq

\* The sums of groups, one after the other.
LEMMA SumExists ==
  ASSUME NEW g, NEW k \in Nat
  PROVE  \E f : f = [n \in 0 .. k |-> IF n = 0 THEN [v |-> 0, unit |-> 1] ELSE AddGroup(f[n - 1], g[n])]
  <1> DEFINE Run(f, m) == f = [n \in 0 .. m |-> IF n = 0 THEN [v |-> 0, unit |-> 1] ELSE AddGroup(f[n - 1], g[n])]
             T == {m \in Nat : ~\E f : Run(f, m)}
  <1>1. \E f : Run(f, 0)
    <2> DEFINE f == [n \in 0 .. 0 |-> [v |-> 0, unit |-> 1]]
    <2>1. ASSUME NEW n \in 0 .. 0
          PROVE  f[n] = IF n = 0 THEN [v |-> 0, unit |-> 1] ELSE AddGroup(f[n - 1], g[n])
      OBVIOUS
    <2>2. Run(f, 0)
      <3> HIDE DEF f
      <3>1. f = [n \in 0 .. 0 |-> f[n]]
        BY DEF f
      <3> QED
        BY <2>1, <3>1
    <2> QED
      BY <2>2
  <1>2. ASSUME NEW m \in Nat, \E f : Run(f, m) PROVE \E f : Run(f, m + 1)
    <2>1. PICK f : Run(f, m)
      BY <1>2
    <2> DEFINE h == [n \in 0 .. m + 1 |-> IF n = m + 1 THEN AddGroup(f[m], g[m + 1]) ELSE f[n]]
    <2>2. \A n \in 0 .. m : f[n] = IF n = 0 THEN [v |-> 0, unit |-> 1] ELSE AddGroup(f[n - 1], g[n])
      BY <2>1
    <2>3. /\ h[m + 1] = AddGroup(f[m], g[m + 1])
          /\ \A n \in 0 .. m : h[n] = f[n]
          /\ h = [n \in 0 .. m + 1 |-> h[n]]
      OBVIOUS
    <2> HIDE DEF h
    <2>4. ASSUME NEW n \in 0 .. m + 1
          PROVE  h[n] = IF n = 0 THEN [v |-> 0, unit |-> 1] ELSE AddGroup(h[n - 1], g[n])
      <3>1. CASE n = m + 1
        <4>1. n # 0 /\ n - 1 = m /\ m \in 0 .. m
          BY <3>1
        <4> QED
          BY <2>3, <3>1, <4>1
      <3>2. CASE n # m + 1
        <4>1. n \in 0 .. m /\ (n # 0 => n - 1 \in 0 .. m)
          BY <3>2
        <4> QED
          BY <2>2, <2>3, <4>1
      <3> QED
        BY <3>1, <3>2
    <2>5. Run(h, m + 1)
      BY <2>3, <2>4
    <2> QED
      BY <2>5
  <1> HIDE DEF Run
  <1>3. T = {}
    <2> SUFFICES ASSUME T # {} PROVE FALSE
      OBVIOUS
    <2> DEFINE m == Smallest(T)
    <2>1. m \in T /\ \A n \in T : m <= n
      BY SmallestIsLeast
    <2> HIDE DEF m
    <2>2. m \in Nat /\ m # 0
      BY <1>1, <2>1
    <2>3. m - 1 \in Nat /\ ~(m <= m - 1) /\ (m - 1) + 1 = m
      BY <2>2
    <2>4. m - 1 \notin T
      BY <2>1, <2>3
    <2> QED
      BY <1>2, <2>1, <2>3, <2>4
  <1>4. \E f : Run(f, k)
    BY <1>3
  <1> QED
    BY <1>4 DEF Run

\* The quotients of a number.
LEMMA QuotientsExist ==
  ASSUME NEW v, NEW k \in Nat
  PROVE  \E f : f = [n \in 0 .. k |-> IF n = 0 THEN v ELSE f[n - 1] \div 128]
  <1> DEFINE Run(f, m) == f = [n \in 0 .. m |-> IF n = 0 THEN v ELSE f[n - 1] \div 128]
             T == {m \in Nat : ~\E f : Run(f, m)}
  <1>1. \E f : Run(f, 0)
    <2> DEFINE f == [n \in 0 .. 0 |-> v]
    <2>1. ASSUME NEW n \in 0 .. 0
          PROVE  f[n] = IF n = 0 THEN v ELSE f[n - 1] \div 128
      OBVIOUS
    <2>2. Run(f, 0)
      <3> HIDE DEF f
      <3>1. f = [n \in 0 .. 0 |-> f[n]]
        BY DEF f
      <3> QED
        BY <2>1, <3>1
    <2> QED
      BY <2>2
  <1>2. ASSUME NEW m \in Nat, \E f : Run(f, m) PROVE \E f : Run(f, m + 1)
    <2>1. PICK f : Run(f, m)
      BY <1>2
    <2> DEFINE h == [n \in 0 .. m + 1 |-> IF n = m + 1 THEN f[m] \div 128 ELSE f[n]]
    <2>2. \A n \in 0 .. m : f[n] = IF n = 0 THEN v ELSE f[n - 1] \div 128
      BY <2>1
    <2>3. /\ h[m + 1] = f[m] \div 128
          /\ \A n \in 0 .. m : h[n] = f[n]
          /\ h = [n \in 0 .. m + 1 |-> h[n]]
      OBVIOUS
    <2> HIDE DEF h
    <2>4. ASSUME NEW n \in 0 .. m + 1
          PROVE  h[n] = IF n = 0 THEN v ELSE h[n - 1] \div 128
      <3>1. CASE n = m + 1
        <4>1. n # 0 /\ n - 1 = m /\ m \in 0 .. m
          BY <3>1
        <4> QED
          BY <2>3, <3>1, <4>1
      <3>2. CASE n # m + 1
        <4>1. n \in 0 .. m /\ (n # 0 => n - 1 \in 0 .. m)
          BY <3>2
        <4> QED
          BY <2>2, <2>3, <4>1
      <3> QED
        BY <3>1, <3>2
    <2>5. Run(h, m + 1)
      BY <2>3, <2>4
    <2> QED
      BY <2>5
  <1> HIDE DEF Run
  <1>3. T = {}
    <2> SUFFICES ASSUME T # {} PROVE FALSE
      OBVIOUS
    <2> DEFINE m == Smallest(T)
    <2>1. m \in T /\ \A n \in T : m <= n
      BY SmallestIsLeast
    <2> HIDE DEF m
    <2>2. m \in Nat /\ m # 0
      BY <1>1, <2>1
    <2>3. m - 1 \in Nat /\ ~(m <= m - 1) /\ (m - 1) + 1 = m
      BY <2>2
    <2>4. m - 1 \notin T
      BY <2>1, <2>3
    <2> QED
      BY <1>2, <2>1, <2>3, <2>4
  <1>4. \E f : Run(f, k)
    BY <1>3
  <1> QED
    BY <1>4 DEF Run

\* The turns of the loops of decode.
LEMMA RunExists ==
  ASSUME NEW s, NEW k \in Nat
  PROVE  \E f : f = [n \in 0 .. k |-> IF n = 0 THEN Top(s) ELSE ReadOn(f[n - 1])]
  <1> DEFINE Run(f, m) == f = [n \in 0 .. m |-> IF n = 0 THEN Top(s) ELSE ReadOn(f[n - 1])]
             T == {m \in Nat : ~\E f : Run(f, m)}
  <1>1. \E f : Run(f, 0)
    <2> DEFINE f == [n \in 0 .. 0 |-> Top(s)]
    <2>1. ASSUME NEW n \in 0 .. 0
          PROVE  f[n] = IF n = 0 THEN Top(s) ELSE ReadOn(f[n - 1])
      OBVIOUS
    <2>2. Run(f, 0)
      <3> HIDE DEF f
      <3>1. f = [n \in 0 .. 0 |-> f[n]]
        BY DEF f
      <3> QED
        BY <2>1, <3>1
    <2> QED
      BY <2>2
  <1>2. ASSUME NEW m \in Nat, \E f : Run(f, m) PROVE \E f : Run(f, m + 1)
    <2>1. PICK f : Run(f, m)
      BY <1>2
    <2> DEFINE h == [n \in 0 .. m + 1 |-> IF n = m + 1 THEN ReadOn(f[m]) ELSE f[n]]
    <2>2. \A n \in 0 .. m : f[n] = IF n = 0 THEN Top(s) ELSE ReadOn(f[n - 1])
      BY <2>1
    <2>3. /\ h[m + 1] = ReadOn(f[m])
          /\ \A n \in 0 .. m : h[n] = f[n]
          /\ h = [n \in 0 .. m + 1 |-> h[n]]
      OBVIOUS
    <2> HIDE DEF h
    <2>4. ASSUME NEW n \in 0 .. m + 1
          PROVE  h[n] = IF n = 0 THEN Top(s) ELSE ReadOn(h[n - 1])
      <3>1. CASE n = m + 1
        <4>1. n # 0 /\ n - 1 = m /\ m \in 0 .. m
          BY <3>1
        <4> QED
          BY <2>3, <3>1, <4>1
      <3>2. CASE n # m + 1
        <4>1. n \in 0 .. m /\ (n # 0 => n - 1 \in 0 .. m)
          BY <3>2
        <4> QED
          BY <2>2, <2>3, <4>1
      <3> QED
        BY <3>1, <3>2
    <2>5. Run(h, m + 1)
      BY <2>3, <2>4
    <2> QED
      BY <2>5
  <1> HIDE DEF Run
  <1>3. T = {}
    <2> SUFFICES ASSUME T # {} PROVE FALSE
      OBVIOUS
    <2> DEFINE m == Smallest(T)
    <2>1. m \in T /\ \A n \in T : m <= n
      BY SmallestIsLeast
    <2> HIDE DEF m
    <2>2. m \in Nat /\ m # 0
      BY <1>1, <2>1
    <2>3. m - 1 \in Nat /\ ~(m <= m - 1) /\ (m - 1) + 1 = m
      BY <2>2
    <2>4. m - 1 \notin T
      BY <2>1, <2>3
    <2> QED
      BY <1>2, <2>1, <2>3, <2>4
  <1>4. \E f : Run(f, k)
    BY <1>3
  <1> QED
    BY <1>4 DEF Run

(***************************************************************************)
(* Varints.                                                                *)
(***************************************************************************)

\* A group of 7 bits.
LEMMA Group ==
  ASSUME NEW b \in Nat
  PROVE  b % 128 \in 0 .. 127 /\ b \div 128 \in Nat /\ b = 128 * (b \div 128) + (b % 128)
  OBVIOUS

\* What Groups computes.
LEMMA GroupsSum ==
  ASSUME NEW g \in ByteSeq
  PROVE  \E f : /\ f[0] = [v |-> 0, unit |-> 1]
                /\ \A n \in 1 .. Len(g) : f[n] = AddGroup(f[n - 1], g[n])
                /\ \A n \in 0 .. Len(g) : f[n].v \in Nat /\ f[n].unit \in Nat
                /\ Groups(g) = f[Len(g)].v
  <1> DEFINE f == CHOOSE f : f = [n \in 0 .. Len(g) |->
                    IF n = 0 THEN [v |-> 0, unit |-> 1] ELSE AddGroup(f[n - 1], g[n])]
  <1>0. Len(g) \in Nat /\ \A n \in 1 .. Len(g) : g[n] \in Byte
    BY Concat DEF ByteSeq
  <1>1. f = [n \in 0 .. Len(g) |->
               IF n = 0 THEN [v |-> 0, unit |-> 1] ELSE AddGroup(f[n - 1], g[n])]
    BY <1>0, SumExists
  <1>2. Groups(g) = f[Len(g)].v
    BY DEF Groups
  <1> HIDE DEF f
  <1>3. f[0] = [v |-> 0, unit |-> 1]
    BY <1>0, <1>1
  <1>4. \A n \in 1 .. Len(g) : f[n] = AddGroup(f[n - 1], g[n])
    <2>1. \A n \in 1 .. Len(g) : n \in 0 .. Len(g) /\ n # 0
      BY <1>0
    <2> QED
      BY <1>1, <2>1
  <1> DEFINE T == {n \in 0 .. Len(g) : ~(f[n].v \in Nat /\ f[n].unit \in Nat)}
  <1>5. T = {}
    <2> SUFFICES ASSUME T # {} PROVE FALSE
      OBVIOUS
    <2> DEFINE m == Smallest(T)
    <2>1. m \in T /\ \A n \in T : m <= n
      <3>1. T \in SUBSET Nat
        BY <1>0
      <3> HIDE DEF T
      <3> QED
        BY <3>1, SmallestIsLeast
    <2> HIDE DEF m
    <2>2. m # 0
      BY <1>3, <2>1
    <2>3. m \in 1 .. Len(g) /\ m - 1 \in 0 .. Len(g) /\ ~(m <= m - 1)
      BY <1>0, <2>1, <2>2
    <2>4. f[m - 1].v \in Nat /\ f[m - 1].unit \in Nat
      BY <2>1, <2>3
    <2>5. g[m] % 128 \in Nat
      <3>1. g[m] \in 0 .. 255
        BY <1>0, <2>3 DEF Byte
      <3> DEFINE b == g[m]
      <3> HIDE DEF b, T
      <3>2. b \in 0 .. 255
        BY <3>1 DEF b
      <3>3. b \in Nat
        BY <3>2
      <3>4. b % 128 \in Nat
        BY <3>3, Group
      <3> QED
        BY <3>4 DEF b
    <2>6. f[m].v \in Nat /\ f[m].unit \in Nat
      <3>1. f[m] = [v    |-> f[m - 1].v + (g[m] % 128) * f[m - 1].unit,
                    unit |-> 128 * f[m - 1].unit]
        BY <1>4, <2>3 DEF AddGroup
      <3>2. (g[m] % 128) * f[m - 1].unit \in Nat
        BY <2>4, <2>5
      <3> QED
        BY <2>4, <3>1, <3>2
    <2> QED
      BY <2>1, <2>6
  <1> QED
    BY <1>2, <1>3, <1>4, <1>5

\* What was read: a value, and bytes that follow it.
Well(r) == r = [ok |-> TRUE, v |-> r.v, rest |-> r.rest] /\ r.rest \in ByteSeq

\* The same, where t follows what was given.
Longer(r, t) == [ok |-> r.ok, v |-> r.v, rest |-> r.rest \o t]

\* Reading n bytes.
LEMMA ReadLocal ==
  ASSUME NEW s \in ByteSeq, NEW n \in 0 .. Len(s), NEW v
  PROVE  /\ Well(Read(s, n, v)) /\ Read(s, n, v).v = v
         /\ Len(Read(s, n, v).rest) = Len(s) - n
         /\ \A t \in ByteSeq : Read(s \o t, n, v) = Longer(Read(s, n, v), t)
  <1> DEFINE p == SubSeq(s, 1, n)
             q == SubSeq(s, n + 1, Len(s))
  <1>1. /\ p \in ByteSeq /\ q \in ByteSeq /\ s = p \o q
        /\ Len(p) = n /\ Len(q) = Len(s) - n
    BY Halves
  <1>2. Read(s, n, v) = [ok |-> TRUE, v |-> v, rest |-> q]
    BY DEF Read
  <1> HIDE DEF p, q
  <1>3. ASSUME NEW t \in ByteSeq PROVE Read(s \o t, n, v) = [ok |-> TRUE, v |-> v, rest |-> q \o t]
    <2>1. q \o t \in ByteSeq
      BY <1>1, Parts
    <2>2. s \o t = p \o (q \o t)
      <3>0. p \in ByteSeq /\ q \in ByteSeq /\ t \in ByteSeq
        BY <1>1
      <3>1. (p \o q) \o t = p \o (q \o t)
        BY ONLY <3>0, Assoc
      <3> QED
        BY <1>1, <3>1
    <2>3. SubSeq(p \o (q \o t), n + 1, Len(p \o (q \o t))) = q \o t
      BY <1>1, <2>1, Parts
    <2> QED
      BY <2>2, <2>3 DEF Read
  <1>4. Well(Read(s, n, v)) /\ Read(s, n, v).v = v /\ Len(Read(s, n, v).rest) = Len(s) - n
    BY <1>1, <1>2 DEF Well
  <1> QED
    BY <1>2, <1>3, <1>4 DEF Longer

\* Reading all of p.
LEMMA ReadAll ==
  ASSUME NEW p \in ByteSeq, NEW t \in ByteSeq, NEW v
  PROVE  Read(p \o t, Len(p), v) = [ok |-> TRUE, v |-> v, rest |-> t]
  BY Parts DEF Read

\* A varint is read in the same way whatever follows it.
LEMMA VarintLocal ==
  ASSUME NEW s \in ByteSeq, varint(s).ok
  PROVE  /\ Well(varint(s)) /\ varint(s).v \in 0 .. Word - 1
         /\ Len(varint(s).rest) < Len(s)
         /\ \A t \in ByteSeq : varint(s \o t) = Longer(varint(s), t)
  <1> DEFINE Last(u) == {n \in DOMAIN u : n <= MaxGroups /\ u[n] < 128}
             n == Smallest(Last(s))
             g == SubSeq(s, 1, n)
  <1>0. \A u \in ByteSeq : /\ DOMAIN u = 1 .. Len(u) /\ Len(u) \in Nat
                         /\ \A i \in 1 .. Len(u) : u[i] \in Byte
    BY LenProperties, ElementOfSeq DEF ByteSeq
  <1>1. \A u \in ByteSeq : Last(u) \in SUBSET Nat
    BY <1>0
  <1>2. Last(s) # {}
    BY DEF varint, Fail
  <1>3. varint(s) = Read(s, n, Groups(g) % Word)
    BY <1>2 DEF varint
  <1>4. n \in Last(s) /\ \A k \in Last(s) : n <= k
    <2> HIDE DEF Last
    <2> QED
      BY <1>1, <1>2, SmallestIsLeast
  <1> HIDE DEF n
  <1>5. n \in 1 .. Len(s) /\ n \in 0 .. Len(s) /\ Len(s) \in Nat
    BY <1>0, <1>4
  <1>6. g \in ByteSeq
    BY <1>5, Halves
  <1>7. Groups(g) % Word \in 0 .. Word - 1
    <2>1. Groups(g) \in Nat
      <3>1. PICK f : /\ \A k \in 0 .. Len(g) : f[k].v \in Nat
                     /\ Groups(g) = f[Len(g)].v
        <4> HIDE DEF g
        <4> QED
          BY <1>6, GroupsSum
      <3>2. Len(g) \in 0 .. Len(g)
        <4> DEFINE len == Len(g)
        <4>1. len \in Nat
          BY <1>0, <1>6
        <4> HIDE DEF len
        <4>2. len \in 0 .. len
          BY <4>1
        <4> QED
          BY <4>2 DEF len
      <3> QED
        BY <3>1, <3>2
    <2> QED
      BY <2>1, CodecAssumption
  <1>8. ASSUME NEW t \in ByteSeq
        PROVE  varint(s \o t) = Read(s \o t, n, Groups(g) % Word)
    <2>1. /\ s \o t \in ByteSeq /\ Len(s \o t) = Len(s) + Len(t) /\ Len(t) \in Nat
          /\ \A k \in 1 .. Len(s) : (s \o t)[k] = s[k]
      BY <1>0, Parts, ConcatProperties DEF ByteSeq
    <2>2. \A k \in 1 .. Len(s) : k \in Last(s \o t) <=> k \in Last(s)
      BY <1>0, <1>5, <2>1
    <2>3. n \in Last(s \o t)
      BY <1>4, <1>5, <2>2
    <2>4. ASSUME NEW k \in Last(s \o t) PROVE n <= k
      <3>1. k \in 1 .. Len(s) + Len(t)
        BY <1>0, <2>1, <2>4
      <3>2. CASE k <= Len(s)
        BY <1>4, <1>5, <2>2, <2>4, <3>1, <3>2
      <3>3. CASE ~(k <= Len(s))
        BY <1>5, <2>1, <3>1, <3>3
      <3> QED
        BY <3>2, <3>3
    <2>5. Smallest(Last(s \o t)) = n
      <3> HIDE DEF Last
      <3> QED
        BY <1>1, <2>1, <2>3, <2>4, SmallestIs
    <2>6. SubSeq(s \o t, 1, n) = g
      BY <1>5, SubSeqOfConcat1 DEF ByteSeq
    <2> QED
      BY <2>3, <2>5, <2>6 DEF varint
  <1> QED
    BY <1>3, <1>5, <1>7, <1>8, ReadLocal

\* Taking bytes: the same whatever follows them.
LEMMA FixedLocal ==
  ASSUME NEW s \in ByteSeq, NEW size \in Nat, fixed(s, size).ok
  PROVE  /\ Well(fixed(s, size)) /\ fixed(s, size).v \in ByteSeq
         /\ Len(fixed(s, size).v) = size /\ Len(fixed(s, size).rest) = Len(s) - size
         /\ size \in 0 .. Len(s)
         /\ \A t \in ByteSeq : fixed(s \o t, size) = Longer(fixed(s, size), t)
  <1> DEFINE p == SubSeq(s, 1, size)
  <1>1. Len(s) \in Nat /\ ~(Len(s) < size)
    BY LenProperties DEF fixed, Fail, ByteSeq
  <1>2. size \in 0 .. Len(s)
    <2> DEFINE len == Len(s)
    <2>1. len \in Nat /\ ~(len < size)
      BY <1>1
    <2> HIDE DEF len
    <2>2. size \in 0 .. len
      BY <2>1
    <2> QED
      BY <2>2 DEF len
  <1>3. fixed(s, size) = Read(s, size, p)
    BY <1>1 DEF fixed
  <1>4. p \in ByteSeq /\ Len(p) = size
    BY <1>2, Halves
  <1>5. ASSUME NEW t \in ByteSeq PROVE fixed(s \o t, size) = Read(s \o t, size, p)
    <2>1. Len(s \o t) = Len(s) + Len(t) /\ Len(t) \in Nat
      BY Parts
    <2>2. ~(Len(s \o t) < size)
      BY <1>1, <2>1
    <2>3. SubSeq(s \o t, 1, size) = p
      BY <1>2, SubSeqOfConcat1 DEF ByteSeq
    <2> QED
      BY <2>2, <2>3 DEF fixed
  <1> HIDE DEF p
  <1>6. /\ Well(Read(s, size, p)) /\ Read(s, size, p).v = p
        /\ Len(Read(s, size, p).rest) = Len(s) - size
        /\ \A t \in ByteSeq : Read(s \o t, size, p) = Longer(Read(s, size, p), t)
    BY <1>2, ReadLocal
  <1> QED
    BY <1>2, <1>3, <1>4, <1>5, <1>6

\* Taking as many bytes as a varint says.
LEMMA SubLocal ==
  ASSUME NEW s \in ByteSeq, sub(s).ok
  PROVE  /\ Well(sub(s)) /\ sub(s).v \in ByteSeq
         /\ Len(sub(s).v) + Len(sub(s).rest) < Len(s)
         /\ \A t \in ByteSeq : sub(s \o t) = Longer(sub(s), t)
  <1> DEFINE n == varint(s)
             r == fixed(n.rest, n.v)
  <1>1. n.ok /\ sub(s) = r
    BY DEF sub, Counted, Fail
  <1>2. /\ Well(n) /\ n.v \in 0 .. Word - 1 /\ Len(n.rest) < Len(s)
        /\ \A t \in ByteSeq : varint(s \o t) = Longer(n, t)
    BY <1>1, VarintLocal
  <1>3. n.rest \in ByteSeq /\ n.v \in Nat
    BY <1>2, CodecAssumption DEF Well
  <1>4. /\ Well(r) /\ r.v \in ByteSeq /\ n.v \in 0 .. Len(n.rest)
        /\ Len(r.v) = n.v /\ Len(r.rest) = Len(n.rest) - n.v
        /\ \A t \in ByteSeq : fixed(n.rest \o t, n.v) = Longer(r, t)
    <2> HIDE DEF n
    <2> QED
      BY <1>1, <1>3, FixedLocal
  <1>5. Len(r.v) + Len(r.rest) < Len(s)
    <2>1. Len(n.rest) \in Nat /\ Len(s) \in Nat
      BY <1>3, Parts
    <2> HIDE DEF n, r
    <2> QED
      BY <1>2, <1>4, <2>1
  <1>6. ASSUME NEW t \in ByteSeq PROVE sub(s \o t) = Longer(r, t)
    <2>1. /\ varint(s \o t).ok /\ varint(s \o t).v = n.v
          /\ varint(s \o t).rest = n.rest \o t
      BY <1>1, <1>2 DEF Longer
    <2> QED
      BY <1>4, <2>1 DEF sub, Counted
  <1> QED
    BY <1>1, <1>4, <1>5, <1>6

\* A field of any wire type.
LEMMA SkipLocal ==
  ASSUME NEW s \in ByteSeq, NEW wire, skip(s, wire).ok
  PROVE  /\ Well(skip(s, wire)) /\ Len(skip(s, wire).rest) <= Len(s)
         /\ wire = 2 => /\ skip(s, wire).v \in ByteSeq
                        /\ Len(skip(s, wire).v) + Len(skip(s, wire).rest) < Len(s)
         /\ \A t \in ByteSeq : skip(s \o t, wire) = Longer(skip(s, wire), t)
  <1>1. Len(s) \in Nat
    BY LenProperties DEF ByteSeq
  <1>2. CASE wire = 0
    <2>1. \A u : skip(u, wire) = varint(u)
      BY <1>2 DEF skip
    <2>2. varint(s).ok
      BY <2>1
    <2>3. /\ Well(varint(s)) /\ Len(varint(s).rest) < Len(s)
          /\ \A t \in ByteSeq : varint(s \o t) = Longer(varint(s), t)
      BY <2>2, VarintLocal
    <2>4. Len(varint(s).rest) \in Nat
      BY <2>3, LenProperties DEF Well, ByteSeq
    <2> DEFINE r == varint(s)
    <2> HIDE DEF r
    <2>5. Well(r) /\ Len(r.rest) <= Len(s) /\ \A t \in ByteSeq : varint(s \o t) = Longer(r, t)
      BY <1>1, <2>3, <2>4 DEF r
    <2> QED
      BY <1>2, <2>1, <2>5 DEF r
  <1>3. ASSUME NEW size \in Nat, wire # 2, \A u : skip(u, wire) = fixed(u, size)
        PROVE  /\ Well(skip(s, wire)) /\ Len(skip(s, wire).rest) <= Len(s)
               /\ \A t \in ByteSeq : skip(s \o t, wire) = Longer(skip(s, wire), t)
    <2>1. fixed(s, size).ok
      BY <1>3
    <2>2. /\ Well(fixed(s, size)) /\ Len(fixed(s, size).rest) = Len(s) - size
          /\ \A t \in ByteSeq : fixed(s \o t, size) = Longer(fixed(s, size), t)
      BY <2>1, FixedLocal
    <2> DEFINE r == fixed(s, size)
    <2> HIDE DEF r
    <2>3. Well(r) /\ Len(r.rest) = Len(s) - size /\ \A t \in ByteSeq : fixed(s \o t, size) = Longer(r, t)
      BY <2>2 DEF r
    <2>4. Len(r.rest) <= Len(s)
      BY <1>1, <2>3
    <2> QED
      BY <1>3, <2>3, <2>4 DEF r
  <1>4. CASE wire = 1
    <2>1. \A u : skip(u, wire) = fixed(u, DoubleLen)
      BY <1>4 DEF skip
    <2> QED
      BY <1>3, <1>4, <2>1, CodecAssumption
  <1>5. CASE wire = 2
    <2>1. \A u : skip(u, wire) = sub(u)
      BY <1>5 DEF skip
    <2>2. sub(s).ok
      BY <2>1
    <2>3. /\ Well(sub(s)) /\ sub(s).v \in ByteSeq
          /\ Len(sub(s).v) + Len(sub(s).rest) < Len(s)
          /\ \A t \in ByteSeq : sub(s \o t) = Longer(sub(s), t)
      BY <2>2, SubLocal
    <2>4. Len(sub(s).v) \in Nat /\ Len(sub(s).rest) \in Nat
      BY <2>3, LenProperties DEF Well, ByteSeq
    <2>5. Len(sub(s).rest) <= Len(s)
      <3> DEFINE a == Len(sub(s).v)
                 b == Len(sub(s).rest)
                 c == Len(s)
      <3>1. a \in Nat /\ b \in Nat /\ c \in Nat /\ a + b < c
        BY <1>1, <2>3, <2>4
      <3> HIDE DEF a, b, c
      <3>2. b <= c
        BY <3>1
      <3> QED
        BY <3>2 DEF b, c
    <2> QED
      BY <2>1, <2>3, <2>5
  <1>6. CASE wire = 5
    <2>1. \A u : skip(u, wire) = fixed(u, FloatLen)
      BY <1>6 DEF skip
    <2> QED
      BY <1>3, <1>6, <2>1, CodecAssumption
  <1>7. wire \in {0, 1, 2, 5}
    BY DEF skip, Fail
  <1> QED
    BY <1>2, <1>4, <1>5, <1>6, <1>7

\* The values of a repeated field.
LEMMA RepeatedShrinks ==
  ASSUME NEW s \in ByteSeq, NEW wire, NEW size \in Nat, repeated(s, wire, size).ok
  PROVE  /\ repeated(s, wire, size).rest \in ByteSeq
         /\ Len(repeated(s, wire, size).rest) <= Len(s)
  <1> DEFINE r == IF wire = 2 THEN sub(s) ELSE fixed(s, size)
  <1>1. r.ok /\ repeated(s, wire, size).rest = r.rest
    <2> DEFINE u == r
    <2> HIDE DEF u
    <2>1. Split(u, size).ok => u.ok /\ Split(u, size).rest = u.rest
      BY DEF Split, Fail
    <2> QED
      BY <2>1 DEF repeated, u
  <1>2. Len(s) \in Nat
    BY LenProperties DEF ByteSeq
  <1>3. CASE wire = 2
    <2>1. skip(s, 2) = sub(s) /\ r = sub(s)
      BY <1>3 DEF skip
    <2>2. Well(skip(s, 2)) /\ Len(skip(s, 2).rest) <= Len(s)
      BY <1>1, <2>1, SkipLocal
    <2> QED
      BY <1>1, <2>1, <2>2 DEF Well
  <1>4. CASE wire # 2
    <2>1. r = fixed(s, size)
      BY <1>4
    <2>2. Well(fixed(s, size)) /\ Len(fixed(s, size).rest) = Len(s) - size
      BY <1>1, <2>1, FixedLocal
    <2>3. Len(fixed(s, size).rest) <= Len(s)
      <3> DEFINE a == Len(fixed(s, size).rest)
                 b == Len(s)
      <3>1. a = b - size /\ b \in Nat
        BY <1>2, <2>2
      <3> HIDE DEF a, b
      <3>2. a <= b
        BY <3>1
      <3> QED
        BY <3>2 DEF a, b
    <2> QED
      BY <1>1, <2>1, <2>2, <2>3 DEF Well
  <1> QED
    BY <1>3, <1>4

\* The quotients of a number, and the first below 128.
LEMMA QuotientsDo ==
  ASSUME NEW v \in 0 .. Word - 1
  PROVE  LET quo == Quotients(v)
             small == {n \in 0 .. MaxGroups - 1 : quo[n] < 128}
         IN  /\ quo[0] = v
             /\ \A n \in 0 .. MaxGroups - 1 : quo[n] \in Nat
             /\ \A n \in 1 .. MaxGroups - 1 : quo[n] = quo[n - 1] \div 128
             /\ Smallest(small) \in small /\ \A n \in small : Smallest(small) <= n
  <1> DEFINE quo == Quotients(v)
             small == {n \in 0 .. MaxGroups - 1 : quo[n] < 128}
  <1>0. MaxGroups - 1 \in Nat /\ v \in Nat
    BY CodecAssumption
  <1> DEFINE f == CHOOSE f : f = [n \in 0 .. MaxGroups - 1 |-> IF n = 0 THEN v ELSE f[n - 1] \div 128]
  <1>1. f = [n \in 0 .. MaxGroups - 1 |-> IF n = 0 THEN v ELSE f[n - 1] \div 128]
    BY <1>0, QuotientsExist
  <1>2. quo = f
    BY DEF Quotients
  <1> HIDE DEF f, quo
  <1>3. quo[0] = v
    BY <1>0, <1>1, <1>2
  <1>4. \A n \in 1 .. MaxGroups - 1 : quo[n] = quo[n - 1] \div 128
    <2>1. \A n \in 1 .. MaxGroups - 1 : n \in 0 .. MaxGroups - 1 /\ n # 0
      BY <1>0
    <2> QED
      BY <1>1, <1>2, <2>1
  <1> DEFINE T == {n \in 0 .. MaxGroups - 1 : quo[n] \notin Nat}
  <1>5. T = {}
    <2> SUFFICES ASSUME T # {} PROVE FALSE
      OBVIOUS
    <2> DEFINE m == Smallest(T)
    <2>1. m \in T /\ \A n \in T : m <= n
      <3>1. T \in SUBSET Nat
        BY <1>0
      <3> HIDE DEF T
      <3> QED
        BY <3>1, SmallestIsLeast
    <2> HIDE DEF m
    <2>2. m # 0
      BY <1>0, <1>3, <2>1
    <2>3. m \in 1 .. MaxGroups - 1 /\ m - 1 \in 0 .. MaxGroups - 1 /\ ~(m <= m - 1)
      BY <1>0, <2>1, <2>2
    <2>4. quo[m - 1] \in Nat
      BY <2>1, <2>3
    <2>5. quo[m] = quo[m - 1] \div 128
      BY <1>4, <2>3
    <2> DEFINE a == quo[m - 1]
    <2> HIDE DEF a, T
    <2>6. a \div 128 \in Nat
      BY <2>4, Group DEF a
    <2> QED
      BY <2>1, <2>5, <2>6 DEF a, T
  <1>6. small # {} /\ small \in SUBSET Nat
    <2>1. quo[MaxGroups - 1] < 128
      BY VarintAssumption DEF quo
    <2> QED
      BY <1>0, <2>1
  <1>7. Smallest(small) \in small /\ \A n \in small : Smallest(small) <= n
    <2> HIDE DEF small
    <2> QED
      BY <1>6, SmallestIsLeast
  <1> QED
    BY <1>3, <1>4, <1>5, <1>7 DEF quo

\* The bytes of a varint.
LEMMA VarintBytes ==
  ASSUME NEW v \in 0 .. Word - 1
  PROVE  LET quo == Quotients(v)
             p == put_varint(v)
         IN  \E last \in 0 .. MaxGroups - 1 :
                /\ p \in ByteSeq /\ Len(p) = last + 1
                /\ p[last + 1] = quo[last] /\ quo[last] \in 0 .. 127
                /\ \A n \in 1 .. last : p[n] = (quo[n - 1] % 128) + 128
                /\ v < 128 => p = <<v>>
  <1> DEFINE quo == Quotients(v)
             p == put_varint(v)
             small == {n \in 0 .. MaxGroups - 1 : quo[n] < 128}
             last == Smallest(small)
  <1>0. MaxGroups - 1 \in Nat /\ v \in Nat
    BY CodecAssumption
  <1>1. /\ quo[0] = v
        /\ \A n \in 0 .. MaxGroups - 1 : quo[n] \in Nat
        /\ last \in small /\ \A n \in small : last <= n
    BY QuotientsDo
  <1>2. p = [n \in 1 .. last + 1 |-> IF n = last + 1 THEN quo[last] ELSE (quo[n - 1] % 128) + 128]
    BY DEF put_varint
  <1> HIDE DEF quo, p, last
  <1>3. last \in 0 .. MaxGroups - 1 /\ quo[last] \in 0 .. 127 /\ last \in Nat
    <2> DEFINE b == quo[last]
    <2>1. last \in 0 .. MaxGroups - 1 /\ b \in Nat /\ b < 128
      BY <1>1
    <2> HIDE DEF b
    <2>2. b \in 0 .. 127 /\ last \in Nat
      BY <1>0, <2>1
    <2> QED
      BY <2>1, <2>2 DEF b
  <1>4. last + 1 \in 1 .. last + 1 /\ \A n \in 1 .. last : n \in 1 .. last + 1 /\ n # last + 1 /\ n - 1 \in 0 .. MaxGroups - 1
    BY <1>0, <1>3
  <1>5. p[last + 1] = quo[last] /\ \A n \in 1 .. last : p[n] = (quo[n - 1] % 128) + 128
    BY <1>2, <1>4
  <1>6. ASSUME NEW n \in 1 .. last + 1 PROVE p[n] \in Byte
    <2>1. CASE n = last + 1
      BY <1>3, <1>5, <2>1 DEF Byte
    <2>2. CASE n # last + 1
      <3>1. n \in 1 .. last
        BY <1>3, <2>2
      <3> DEFINE q == quo[n - 1]
      <3>2. q \in Nat
        BY <1>1, <1>4, <3>1
      <3> HIDE DEF q
      <3>3. (q % 128) + 128 \in 0 .. 255
        BY <3>2, Group
      <3> QED
        BY <1>5, <3>1, <3>3 DEF q, Byte
    <2> QED
      BY <2>1, <2>2
  <1>7. p \in Seq(Byte) /\ Len(p) = last + 1
    <2>1. p = [n \in 1 .. last + 1 |-> p[n]]
      BY <1>2
    <2>2. last + 1 \in Nat
      BY <1>3
    <2> DEFINE k == last + 1
    <2> HIDE DEF k
    <2>3. /\ k \in Nat /\ p = [n \in 1 .. k |-> p[n]] /\ \A n \in 1 .. k : p[n] \in Byte
      BY <1>6, <2>1, <2>2 DEF k
    <2>4. p \in Seq(Byte) /\ Len(p) = k
      <3>1. p \in [1 .. k -> Byte]
        BY <2>3
      <3>2. p \in Seq(Byte)
        BY <2>3, <3>1, SeqDef
      <3> QED
        BY <2>3, <3>1, <3>2, LenProperties
    <2> QED
      BY <2>4 DEF k
  <1>8. ASSUME v < 128 PROVE p = <<v>>
    <2>1. 0 \in small
      BY <1>0, <1>1, <1>8
    <2>2. last = 0
      BY <1>1, <1>3, <2>1
    <2>3. Len(p) = 1 /\ p[1] = v /\ p \in Seq(Byte)
      BY <1>1, <1>5, <1>7, <2>2
    <2>4. <<v>> \in Seq(Byte) /\ Len(<<v>>) = 1 /\ <<v>>[1] = v
      <3>1. v \in Byte
        BY <1>0, <1>8 DEF Byte
      <3> QED
        BY <3>1
    <2> QED
      BY <2>3, <2>4, SeqEqual
  <1> QED
    BY <1>3, <1>5, <1>7, <1>8 DEF quo, p, ByteSeq

\* One group more: what is added to the sum is taken from the quotient.
LEMMA AddedGroup ==
  ASSUME NEW a \in Nat, NEW unit \in Nat, NEW q \in Nat
  PROVE  (a + (q % 128) * unit) + (128 * unit) * (q \div 128) = a + unit * q
  <1> DEFINE d == q \div 128
             r == q % 128
  <1>1. d \in Nat /\ r \in Nat /\ q = 128 * d + r
    BY Group
  <1> HIDE DEF d, r
  <1>2. unit * q = unit * (128 * d + r)
    BY <1>1
  <1>3. unit * (128 * d + r) = (128 * unit) * d + r * unit
    BY <1>1
  <1>4. (a + r * unit) + (128 * unit) * d = a + unit * q
    BY <1>1, <1>2, <1>3
  <1> QED
    BY <1>4 DEF d, r

\* Groups joins what put_varint took apart.
LEMMA GroupsOfVarint ==
  ASSUME NEW v \in 0 .. Word - 1
  PROVE  Groups(put_varint(v)) = v
  <1> DEFINE quo == Quotients(v)
             p == put_varint(v)
  <1>0. v \in Nat /\ MaxGroups - 1 \in Nat
    BY CodecAssumption
  <1>1. PICK last \in 0 .. MaxGroups - 1 :
           /\ p \in ByteSeq /\ Len(p) = last + 1
           /\ p[last + 1] = quo[last] /\ quo[last] \in 0 .. 127
           /\ \A n \in 1 .. last : p[n] = (quo[n - 1] % 128) + 128
    BY VarintBytes
  <1>2. /\ quo[0] = v
        /\ \A n \in 0 .. MaxGroups - 1 : quo[n] \in Nat
        /\ \A n \in 1 .. MaxGroups - 1 : quo[n] = quo[n - 1] \div 128
    BY QuotientsDo
  <1> HIDE DEF quo, p
  <1>3. PICK f : /\ f[0] = [v |-> 0, unit |-> 1]
                 /\ \A n \in 1 .. Len(p) : f[n] = AddGroup(f[n - 1], p[n])
                 /\ \A n \in 0 .. Len(p) : f[n].v \in Nat /\ f[n].unit \in Nat
                 /\ Groups(p) = f[Len(p)].v
    BY <1>1, GroupsSum
  <1>4. \A n \in 1 .. last + 1 : /\ f[n].v = f[n - 1].v + (p[n] % 128) * f[n - 1].unit
                                 /\ f[n].unit = 128 * f[n - 1].unit
    <2>1. \A a, b : /\ AddGroup(a, b).v = a.v + (b % 128) * a.unit
                    /\ AddGroup(a, b).unit = 128 * a.unit
      BY DEF AddGroup
    <2>2. \A n \in 1 .. last + 1 : f[n] = AddGroup(f[n - 1], p[n])
      BY <1>1, <1>3
    <2> QED
      BY <2>1, <2>2
  <1>5. \A n \in 0 .. last + 1 : f[n].v \in Nat /\ f[n].unit \in Nat
    BY <1>1, <1>3
  <1> DEFINE T == {n \in 0 .. last : f[n].v + f[n].unit * quo[n] # v}
  <1>6. T = {}
    <2> SUFFICES ASSUME T # {} PROVE FALSE
      OBVIOUS
    <2> DEFINE m == Smallest(T)
    <2>1. m \in T /\ \A n \in T : m <= n
      <3>1. T \in SUBSET Nat
        BY <1>0
      <3> HIDE DEF T
      <3> QED
        BY <3>1, SmallestIsLeast
    <2> HIDE DEF m
    <2>2. m # 0
      <3>1. f[0].v = 0 /\ f[0].unit = 1
        BY <1>3
      <3>2. f[0].v + f[0].unit * quo[0] = v
        BY <1>0, <1>2, <3>1
      <3> QED
        BY <2>1, <3>2
    <2>3. /\ m \in 1 .. last /\ m - 1 \in 0 .. last /\ ~(m <= m - 1)
          /\ m \in 1 .. last + 1 /\ m - 1 \in 0 .. last + 1
          /\ m \in 1 .. MaxGroups - 1 /\ m - 1 \in 0 .. MaxGroups - 1
      <3>1. m \in 0 .. last
        BY <2>1
      <3> HIDE DEF T
      <3> QED
        BY <1>0, <2>2, <3>1
    <2> DEFINE a == f[m - 1].v
               unit == f[m - 1].unit
               q == quo[m - 1]
    <2>4. /\ a + unit * q = v /\ a \in Nat /\ unit \in Nat /\ q \in Nat
          /\ quo[m] = q \div 128 /\ p[m] = (q % 128) + 128
          /\ f[m].v = a + (p[m] % 128) * unit /\ f[m].unit = 128 * unit
      <3>1. m - 1 \notin T
        BY <2>1, <2>3
      <3> QED
        BY <1>1, <1>2, <1>4, <1>5, <2>3, <3>1
    <2> HIDE DEF a, unit, q, T
    <2>5. ((q % 128) + 128) % 128 = q % 128
      <3>1. q % 128 \in 0 .. 127
        BY <2>4, Group
      <3> DEFINE r == q % 128
      <3> HIDE DEF r
      <3>2. (r + 128) % 128 = r
        BY <3>1 DEF r
      <3> QED
        BY <3>2 DEF r
    <2>6. f[m].v = a + (q % 128) * unit
      BY <2>4, <2>5
    <2>7. (a + (q % 128) * unit) + (128 * unit) * (q \div 128) = a + unit * q
      BY <2>4, AddedGroup
    <2>8. f[m].v + f[m].unit * quo[m] = v
      BY <2>4, <2>6, <2>7
    <2> QED
      BY <2>1, <2>8 DEF T
  <1>7. f[last + 1].v = f[last].v + quo[last] * f[last].unit
    <2>1. last + 1 \in 1 .. last + 1 /\ (last + 1) - 1 = last
      OBVIOUS
    <2>2. quo[last] % 128 = quo[last]
      <3> DEFINE q == quo[last]
      <3>1. q \in 0 .. 127
        BY <1>1
      <3> HIDE DEF q
      <3>2. q % 128 = q
        BY <3>1
      <3> QED
        BY <3>2 DEF q
    <2> QED
      BY <1>1, <1>4, <2>1, <2>2
  <1>8. f[last].v + f[last].unit * quo[last] = v
    <2>1. last \in 0 .. last
      OBVIOUS
    <2> QED
      BY <1>6, <2>1
  <1>9. f[last].unit * quo[last] = quo[last] * f[last].unit
    <2> DEFINE a == f[last].unit
               b == quo[last]
    <2>1. a \in Nat /\ b \in Nat
      <3>1. last \in 0 .. last + 1 /\ \A x \in 0 .. 127 : x \in Nat
        OBVIOUS
      <3> QED
        BY <1>1, <1>5, <3>1
    <2> HIDE DEF a, b
    <2>2. a * b = b * a
      BY <2>1
    <2> QED
      BY <2>2 DEF a, b
  <1>10. Groups(p) = v
    BY <1>1, <1>3, <1>7, <1>8, <1>9
  <1> QED
    BY <1>10 DEF p

\* Every number of a word comes back, whatever follows it.
LEMMA VarintComesBack ==
  ASSUME NEW v \in 0 .. Word - 1, NEW t \in ByteSeq
  PROVE  /\ varint(put_varint(v) \o t) = [ok |-> TRUE, v |-> v, rest |-> t]
         /\ put_varint(v) \in ByteSeq /\ put_varint(v) # << >>
         /\ Len(put_varint(v)) \in 1 .. MaxGroups
         /\ v < 128 => put_varint(v) = <<v>>
  <1> DEFINE quo == Quotients(v)
             p == put_varint(v)
             s == p \o t
  <1>0. v \in Nat /\ MaxGroups - 1 \in Nat /\ MaxGroups \in Nat
    BY CodecAssumption
  <1>1. PICK last \in 0 .. MaxGroups - 1 :
           /\ p \in ByteSeq /\ Len(p) = last + 1
           /\ p[last + 1] = quo[last] /\ quo[last] \in 0 .. 127
           /\ \A n \in 1 .. last : p[n] = (quo[n - 1] % 128) + 128
           /\ v < 128 => p = <<v>>
    BY VarintBytes
  <1>2. \A n \in 0 .. MaxGroups - 1 : quo[n] \in Nat
    BY QuotientsDo
  <1>3. Groups(p) = v
    BY GroupsOfVarint
  <1> HIDE DEF quo, p
  <1>4. /\ s \in Seq(Byte) /\ Len(s) = last + 1 + Len(t) /\ Len(t) \in Nat
        /\ \A n \in 1 .. last + 1 : s[n] = p[n]
        /\ DOMAIN s = 1 .. Len(s)
    <2>1. p \in Seq(Byte) /\ t \in Seq(Byte)
      BY <1>1 DEF ByteSeq
    <2>2. s \in Seq(Byte) /\ Len(s) = Len(p) + Len(t) /\ Len(t) \in Nat
          /\ \A n \in 1 .. Len(p) + Len(t) : s[n] = IF n <= Len(p) THEN p[n] ELSE t[n - Len(p)]
      BY <2>1, ConcatProperties, LenProperties
    <2>3. DOMAIN s = 1 .. Len(s)
      BY <2>2, LenProperties
    <2> HIDE DEF s
    <2> DEFINE len == Len(t)
    <2> HIDE DEF len
    <2>4. len \in Nat /\ \A n \in 1 .. last + 1 : n \in 1 .. last + 1 + len /\ n <= last + 1
      BY <2>2 DEF len
    <2> QED
      BY <1>1, <2>2, <2>3, <2>4 DEF len
  <1> HIDE DEF s
  <1> DEFINE Last == {n \in DOMAIN s : n <= MaxGroups /\ s[n] < 128}
  <1>5. last + 1 \in Last
    <2>1. last + 1 \in DOMAIN s
      <3> DEFINE len == Len(t)
      <3>1. len \in Nat
        BY <1>4
      <3> HIDE DEF len
      <3>2. last + 1 \in 1 .. last + 1 + len
        BY <3>1
      <3> QED
        BY <1>4, <3>2 DEF len
    <2>2. s[last + 1] = quo[last] /\ last + 1 <= MaxGroups
      BY <1>0, <1>1, <1>4
    <2>3. s[last + 1] < 128
      <3>1. \A x \in 0 .. 127 : x < 128
        OBVIOUS
      <3>2. quo[last] < 128
        BY <1>1, <3>1
      <3> QED
        BY <2>2, <3>2
    <2> QED
      BY <2>1, <2>2, <2>3
  <1>6. ASSUME NEW n \in Last PROVE last + 1 <= n
    <2> SUFFICES ASSUME ~(last + 1 <= n) PROVE FALSE
      OBVIOUS
    <2>1. n \in 1 .. last /\ n \in 1 .. last + 1 /\ n - 1 \in 0 .. MaxGroups - 1
      <3>1. n \in 1 .. Len(s) /\ Len(s) \in Nat
        BY <1>4, <1>6, LenProperties
      <3> DEFINE len == Len(s)
      <3> HIDE DEF len, Last
      <3>2. n \in 1 .. len /\ len \in Nat
        BY <3>1 DEF len
      <3> QED
        BY <1>0, <3>2
    <2> DEFINE q == quo[n - 1]
    <2>2. q \in Nat
      BY <1>2, <2>1
    <2>3. s[n] = (q % 128) + 128
      BY <1>1, <1>4, <2>1
    <2>4. s[n] < 128
      BY <1>6
    <2> HIDE DEF q, Last
    <2>5. q % 128 \in Nat
      BY <2>2, Group
    <2> QED
      BY <2>3, <2>4, <2>5
  <1>7. Smallest(Last) = last + 1 /\ Last # {}
    <2>1. Last \in SUBSET Nat
      BY <1>4, LenProperties
    <2> HIDE DEF Last
    <2> QED
      BY <1>5, <1>6, <2>1, SmallestIs
  <1>8. SubSeq(s, 1, last + 1) = p
    BY <1>1, Parts DEF s
  <1>9. v % Word = v
    <2>1. v \in 0 .. Word - 1 /\ Word \in Nat \ {0}
      BY <1>0, CodecAssumption
    <2> QED
      BY <2>1
  <1>10. varint(s) = Read(s, last + 1, v)
    BY <1>3, <1>7, <1>8, <1>9 DEF varint
  <1>11. Read(s, last + 1, v) = [ok |-> TRUE, v |-> v, rest |-> t]
    <2>1. Read(p \o t, Len(p), v) = [ok |-> TRUE, v |-> v, rest |-> t]
      <3>1. p \in ByteSeq /\ t \in ByteSeq
        BY <1>1
      <3> QED
        BY ONLY <3>1, ReadAll
    <2> QED
      BY <1>1, <2>1 DEF s
  <1>12. p # << >> /\ Len(p) \in 1 .. MaxGroups
    <2>1. Len(<< >>) = 0
      OBVIOUS
    <2> QED
      BY <1>0, <1>1, <2>1
  <1> QED
    BY <1>1, <1>10, <1>11, <1>12 DEF s, p

\* Bytes taken are the bytes put.
LEMMA FixedComesBack ==
  ASSUME NEW b \in ByteSeq, NEW t \in ByteSeq
  PROVE  fixed(b \o t, Len(b)) = [ok |-> TRUE, v |-> b, rest |-> t]
  <1>1. /\ Len(b \o t) = Len(b) + Len(t) /\ Len(b) \in Nat /\ Len(t) \in Nat
        /\ SubSeq(b \o t, 1, Len(b)) = b
    BY Parts
  <1>2. ~(Len(b \o t) < Len(b))
    BY <1>1
  <1>3. fixed(b \o t, Len(b)) = Read(b \o t, Len(b), b)
    BY <1>1, <1>2 DEF fixed
  <1> QED
    BY <1>3, ReadAll

\* So are the bytes of a block.
LEMMA BlockComesBack ==
  ASSUME NEW b \in ByteSeq, NEW t \in ByteSeq, Len(b) < Word
  PROVE  /\ sub(Block(b) \o t) = [ok |-> TRUE, v |-> b, rest |-> t]
         /\ Block(b) \in ByteSeq
  <1> DEFINE p == put_varint(Len(b))
  <1>1. Len(b) \in 0 .. Word - 1
    <2> DEFINE len == Len(b)
    <2>1. len \in Nat /\ len < Word /\ Word \in Nat
      BY Parts, CodecAssumption
    <2> HIDE DEF len
    <2>2. len \in 0 .. Word - 1
      BY <2>1
    <2> QED
      BY <2>2 DEF len
  <1>2. b \o t \in ByteSeq
    BY Parts
  <1>3. /\ varint(p \o (b \o t)) = [ok |-> TRUE, v |-> Len(b), rest |-> b \o t]
        /\ p \in ByteSeq
    BY <1>1, <1>2, VarintComesBack
  <1> HIDE DEF p
  <1>4. (p \o b) \o t = p \o (b \o t)
    BY <1>3, Assoc
  <1>5. sub(p \o (b \o t)) = fixed(b \o t, Len(b))
    BY <1>3 DEF sub, Counted
  <1>6. p \o b \in ByteSeq
    BY <1>3, Parts
  <1> QED
    BY <1>4, <1>5, <1>6, FixedComesBack DEF Block, p

\* Division of a place by the size of an element.
LEMMA Places ==
  ASSUME NEW size \in Nat \ {0}, NEW k \in Nat, NEW j \in 0 .. size - 1
  PROVE  /\ (k * size + j) \div size = k
         /\ (k * size + j) % size = j
  <1>1. k * size = size * k
    OBVIOUS
  <1>2. (size * k + j) \div size = k
    OBVIOUS
  <1>3. (size * k + j) % size = j
    OBVIOUS
  <1> QED
    BY <1>1, <1>2, <1>3

\* Any place is a place in an element.
LEMMA PlaceIn ==
  ASSUME NEW size \in Nat \ {0}, NEW k \in Nat, NEW n \in 1 .. size * k
  PROVE  /\ ((n - 1) \div size) + 1 \in 1 .. k
         /\ ((n - 1) % size) + 1 \in 1 .. size
  <1> DEFINE m == n - 1
             d == m \div size
             r == m % size
  <1>1. m \in Nat /\ m < size * k
    OBVIOUS
  <1>2. d \in Nat /\ r \in 0 .. size - 1 /\ m = size * d + r
    <2> HIDE DEF m
    <2> QED
      BY <1>1
  <1> HIDE DEF d, r, m
  <1>3. d < k
    <2> SUFFICES ASSUME ~(d < k) PROVE FALSE
      OBVIOUS
    <2>1. size * d >= size * k
      BY <1>2
    <2>2. size * d \in Nat /\ size * k \in Nat
      BY <1>2
    <2> QED
      BY <1>1, <1>2, <2>1, <2>2
  <1>4. d + 1 \in 1 .. k /\ r + 1 \in 1 .. size
    BY <1>2, <1>3
  <1> QED
    BY <1>4 DEF d, r, m

\* Elements put one after the other come back.
LEMMA ElementsComeBack ==
  ASSUME NEW size \in Nat \ {0}, NEW q \in Seq([1 .. size -> Byte])
  PROVE  /\ Joined(q, size) \in ByteSeq
         /\ Len(Joined(q, size)) = size * Len(q)
         /\ \A t : Split([ok |-> TRUE, v |-> Joined(q, size), rest |-> t], size)
                      = [ok |-> TRUE, v |-> q, rest |-> t]
  <1> DEFINE J == Joined(q, size)
             k == Len(q)
  <1>1. /\ k \in Nat /\ q = [n \in 1 .. k |-> q[n]]
        /\ \A n \in 1 .. k : q[n] \in [1 .. size -> Byte]
    BY LenProperties, ElementOfSeq
  <1>2. J = [n \in 1 .. size * k |-> q[((n - 1) \div size) + 1][((n - 1) % size) + 1]]
    BY DEF Joined
  <1>3. size * k \in Nat
    <2> HIDE DEF k
    <2> QED
      BY <1>1
  <1> HIDE DEF J, k
  <1>4. ASSUME NEW n \in 1 .. size * k PROVE J[n] \in Byte
    <2> DEFINE a == ((n - 1) \div size) + 1
               b == ((n - 1) % size) + 1
    <2>1. a \in 1 .. k /\ b \in 1 .. size
      BY <1>1, PlaceIn
    <2>2. J[n] = q[a][b]
      BY <1>2
    <2> HIDE DEF a, b
    <2>3. q[a] \in [1 .. size -> Byte]
      BY <1>1, <2>1
    <2> QED
      BY <2>1, <2>2, <2>3
  <1>5. J \in ByteSeq /\ Len(J) = size * k
    <2> DEFINE len == size * k
    <2>1. len \in Nat /\ J = [n \in 1 .. len |-> J[n]] /\ \A n \in 1 .. len : J[n] \in Byte
      BY <1>2, <1>3, <1>4
    <2> HIDE DEF len
    <2>2. J \in [1 .. len -> Byte]
      BY <2>1
    <2>3. J \in Seq(Byte)
      BY <2>1, <2>2, SeqDef
    <2>4. Len(J) = len
      BY <2>1, <2>2, <2>3, LenProperties
    <2> QED
      BY <2>3, <2>4 DEF len, ByteSeq
  <1>6. (size * k) % size = 0 /\ (size * k) \div size = k
    <2>0. 0 \in 0 .. size - 1
      OBVIOUS
    <2>1. (k * size + 0) \div size = k /\ (k * size + 0) % size = 0
      BY <1>1, <2>0, Places
    <2>2. k * size + 0 = size * k
      BY <1>1
    <2> QED
      BY <2>1, <2>2
  <1>7. ASSUME NEW n \in 1 .. k PROVE SubSeq(J, (n - 1) * size + 1, n * size) = q[n]
    <2> DEFINE lo == (n - 1) * size
               e == SubSeq(J, lo + 1, n * size)
    <2>1. lo \in Nat /\ n * size = lo + size /\ lo + size <= size * k
      <3>1. n - 1 \in Nat /\ n \in Nat
        BY <1>1
      <3>2. lo \in Nat
        BY <3>1
      <3>3. n * size = lo + size
        BY <3>1
      <3>4. n * size <= size * k
        <4>1. n <= k /\ k \in Nat
          BY <1>1
        <4>2. size * n <= size * k
          BY <3>1, <4>1
        <4>3. n * size = size * n
          BY <3>1
        <4> QED
          BY <4>2, <4>3
      <3> QED
        BY <3>2, <3>3, <3>4
    <2>2. \A i \in 1 .. size : lo + i \in 1 .. size * k
      <3> DEFINE len == size * k
      <3>1. len \in Nat /\ lo \in Nat /\ lo + size <= len
        BY <1>3, <2>1
      <3> HIDE DEF len, lo
      <3>2. \A i \in 1 .. size : lo + i \in 1 .. len
        BY <3>1
      <3> QED
        BY <3>2 DEF len
    <2>3. \A i \in 1 .. size : J[lo + i] = q[n][i]
      <3> SUFFICES ASSUME NEW i \in 1 .. size PROVE J[lo + i] = q[n][i]
        OBVIOUS
      <3>1. J[lo + i] = q[((lo + i - 1) \div size) + 1][((lo + i - 1) % size) + 1]
        <4> DEFINE m == lo + i
        <4>1. m \in 1 .. size * k
          BY <2>2
        <4> HIDE DEF m
        <4>2. J[m] = q[((m - 1) \div size) + 1][((m - 1) % size) + 1]
          BY <1>2, <4>1
        <4> QED
          BY <4>2 DEF m
      <3>2. n - 1 \in Nat /\ i - 1 \in 0 .. size - 1 /\ lo + i - 1 = lo + (i - 1)
        BY <1>1, <2>1
      <3>3. (lo + (i - 1)) \div size = n - 1 /\ (lo + (i - 1)) % size = i - 1
        BY <3>2, Places
      <3>4. (n - 1) + 1 = n /\ (i - 1) + 1 = i
        BY <1>1
      <3> QED
        BY <3>1, <3>2, <3>3, <3>4
    <2>4. n * size = lo + size
      BY <2>1
    <2> HIDE DEF lo
    <2>5. e \in Seq(Byte) /\ Len(e) = size /\ \A i \in 1 .. size : e[i] = J[lo + i]
      <3> DEFINE z == SubSeq(J, lo + 1, lo + size)
      <3>1. \A i \in lo + 1 .. lo + size : J[i] \in Byte
        <4> SUFFICES ASSUME NEW i \in lo + 1 .. lo + size PROVE J[i] \in Byte
          OBVIOUS
        <4>1. i - lo \in 1 .. size /\ lo + (i - lo) = i
          BY <2>1
        <4>2. i \in 1 .. size * k
          BY <2>2, <4>1
        <4> QED
          BY <1>4, <4>2
      <3>2. lo + 1 \in Int /\ lo + size \in Int
        BY <2>1
      <3>3. /\ z \in Seq(Byte)
            /\ Len(z) = IF lo + 1 <= lo + size THEN (lo + size) - (lo + 1) + 1 ELSE 0
            /\ \A i \in 1 .. (lo + size) - (lo + 1) + 1 : z[i] = J[(lo + 1) + i - 1]
        BY <3>1, <3>2, SubSeqProperties
      <3>4. lo + 1 <= lo + size /\ (lo + size) - (lo + 1) + 1 = size
            /\ \A i \in 1 .. size : (lo + 1) + i - 1 = lo + i
        BY <2>1
      <3> QED
        BY <2>4, <3>3, <3>4
    <2> HIDE DEF e
    <2>6. e = [i \in 1 .. size |-> e[i]]
      <3>1. DOMAIN e = 1 .. Len(e) /\ e \in [1 .. Len(e) -> Byte]
        BY <2>5, LenProperties
      <3> QED
        BY <2>5, <3>1
    <2>7. q[n] = [i \in 1 .. size |-> q[n][i]]
      BY <1>1
    <2> QED
      BY <2>3, <2>5, <2>6, <2>7 DEF e, lo
  <1>8. ASSUME NEW t
        PROVE  Split([ok |-> TRUE, v |-> J, rest |-> t], size) = [ok |-> TRUE, v |-> q, rest |-> t]
    <2> DEFINE r == [ok |-> TRUE, v |-> J, rest |-> t]
    <2>1. r.ok /\ r.v = J /\ r.rest = t
      OBVIOUS
    <2> HIDE DEF r
    <2>2. Split(r, size) = [ok |-> TRUE, rest |-> t,
                            v  |-> [n \in 1 .. k |-> SubSeq(J, (n - 1) * size + 1, n * size)]]
      BY <1>5, <1>6, <2>1 DEF Split
    <2>3. [n \in 1 .. k |-> SubSeq(J, (n - 1) * size + 1, n * size)] = q
      BY <1>1, <1>7
    <2> QED
      BY <2>2, <2>3 DEF r
  <1> QED
    BY <1>5, <1>8 DEF J, k

(***************************************************************************)
(* The loops of decode.                                                    *)
(***************************************************************************)

\* The loops come from x to y: y is in every set that has x and in which they stay.
Reaches(x, y) == \A R : x \in R /\ (\A z \in R : ReadOn(z) \in R) => y \in R

\* A state is reached from itself, in a turn and in turns after turns.
LEMMA ReachesSteps ==
  ASSUME NEW x, NEW y, NEW z
  PROVE  /\ Reaches(x, x)
         /\ Reaches(x, ReadOn(x))
         /\ Reaches(x, y) /\ Reaches(y, z) => Reaches(x, z)
         /\ Reaches(x, y) => Reaches(x, ReadOn(y))
  BY DEF Reaches

\* A varint takes a byte, if there is one.
LEMMA VarintTakes ==
  ASSUME NEW s \in ByteSeq, s # << >>
  PROVE  varint(s).rest \in ByteSeq /\ Len(varint(s).rest) < Len(s)
  <1>1. CASE varint(s).ok
    BY <1>1, VarintLocal DEF Well
  <1>2. CASE ~varint(s).ok
    <2>1. varint(s) = Fail
      BY <1>2 DEF varint, Read
    <2>2. varint(s).rest = << >>
      BY <2>1 DEF Fail
    <2>3. Len(s) \in Nat /\ Len(s) # 0 /\ << >> \in ByteSeq /\ Len(<< >>) = 0
      BY Concat, Parts
    <2>4. 0 < Len(s)
      <3> DEFINE len == Len(s)
      <3>1. len \in Nat /\ len # 0
        BY <2>3
      <3> HIDE DEF len
      <3>2. 0 < len
        BY <3>1
      <3> QED
        BY <3>2 DEF len
    <2> QED
      BY <2>2, <2>3, <2>4
  <1> QED
    BY <1>1, <1>2

\* A turn of a loop takes a byte.
LEMMA TurnTakes ==
  ASSUME NEW x, x.inner \in ByteSeq, x.rest \in ByteSeq, Reading(x), ReadOn(x).ok
  PROVE  /\ ReadOn(x).inner \in ByteSeq /\ ReadOn(x).rest \in ByteSeq
         /\ Len(ReadOn(x).inner) + Len(ReadOn(x).rest) < Len(x.inner) + Len(x.rest)
  <1>0. \A s \in ByteSeq : Len(s) \in Nat
    BY LenProperties DEF ByteSeq
  <1>1. CASE x.inner # << >>
    <2> DEFINE t == varint(x.inner)
               w == t.v % 8
               member == Member(x.m.kind, t.v \div 8, w)
               r == Value(t.rest, member, w)
    <2>1. t.rest \in ByteSeq /\ Len(t.rest) < Len(x.inner)
      BY <1>1, VarintTakes
    <2>2. /\ ReadOn(x).ok = r.ok /\ ReadOn(x).inner = r.rest
          /\ ReadOn(x).rest = x.rest
      BY <1>1 DEF ReadOn, Inside, ReadField, Stored
    <2> HIDE DEF t, w, member
    <2>3. r.ok
      BY <2>2
    <2>4. r.rest \in ByteSeq /\ Len(r.rest) <= Len(t.rest)
      <3>1. CASE member = "q"
        <4>1. r = repeated(t.rest, w, DoubleLen)
          BY <3>1 DEF Value
        <4> QED
          BY <2>1, <2>3, <4>1, RepeatedShrinks, CodecAssumption
      <3>2. CASE member = "pos"
        <4>1. r = repeated(t.rest, w, FloatLen)
          BY <3>2 DEF Value
        <4> QED
          BY <2>1, <2>3, <4>1, RepeatedShrinks, CodecAssumption
      <3>3. CASE member # "q" /\ member # "pos"
        <4>1. r = skip(t.rest, w)
          BY <3>3 DEF Value
        <4> QED
          BY <2>1, <2>3, <4>1, SkipLocal DEF Well
      <3> QED
        BY <3>1, <3>2, <3>3
    <2>5. Len(r.rest) + Len(x.rest) < Len(x.inner) + Len(x.rest)
      <3> DEFINE a == Len(r.rest)
                 b == Len(t.rest)
                 c == Len(x.inner)
                 d == Len(x.rest)
      <3>1. a \in Nat /\ b \in Nat /\ c \in Nat /\ d \in Nat /\ a <= b /\ b < c
        BY <1>0, <2>1, <2>4
      <3> HIDE DEF a, b, c, d
      <3>2. a + d < c + d
        BY <3>1
      <3> QED
        BY <3>2 DEF a, c, d
    <2> QED
      BY <2>2, <2>4, <2>5
  <1>2. CASE x.inner = << >>
    <2> DEFINE t == varint(x.rest)
               w == t.v % 8
               e == skip(t.rest, w)
    <2>0. x.rest # << >>
      BY <1>2 DEF Reading
    <2>1. t.rest \in ByteSeq /\ Len(t.rest) < Len(x.rest)
      BY <2>0, VarintTakes
    <2>2. /\ ReadOn(x).ok = e.ok /\ ReadOn(x).rest = e.rest
          /\ ReadOn(x).inner = IF IsMessage(t) THEN e.v ELSE << >>
      BY <1>2 DEF ReadOn, Between
    <2>3. IsMessage(t) => w = 2
      BY DEF IsMessage
    <2> HIDE DEF t, w
    <2>4. /\ Well(e) /\ Len(e.rest) <= Len(t.rest)
          /\ w = 2 => e.v \in ByteSeq /\ Len(e.v) + Len(e.rest) < Len(t.rest)
      BY <2>1, <2>2, SkipLocal
    <2>5. e.rest \in ByteSeq
      BY <2>4 DEF Well
    <2> HIDE DEF e
    <2>6. << >> \in ByteSeq /\ Len(<< >>) = 0
      BY <2>1, Concat
    <2>7. Len(x.inner) = 0
      BY <1>2, <2>6
    <2>8. CASE IsMessage(t)
      <3> DEFINE a == Len(e.v)
                 b == Len(e.rest)
                 c == Len(t.rest)
                 d == Len(x.rest)
      <3>1. a \in Nat /\ b \in Nat /\ c \in Nat /\ d \in Nat /\ a + b < c /\ c < d
        BY <1>0, <2>1, <2>3, <2>4, <2>5, <2>8
      <3> HIDE DEF a, b, c, d
      <3>2. a + b < 0 + d
        BY <3>1
      <3> QED
        BY <2>2, <2>3, <2>4, <2>5, <2>7, <2>8, <3>2 DEF a, b, d
    <2>9. CASE ~IsMessage(t)
      <3> DEFINE b == Len(e.rest)
                 c == Len(t.rest)
                 d == Len(x.rest)
      <3>1. b \in Nat /\ c \in Nat /\ d \in Nat /\ b <= c /\ c < d
        BY <1>0, <2>1, <2>4, <2>5
      <3> HIDE DEF b, c, d
      <3>2. 0 + b < 0 + d
        BY <3>1
      <3> QED
        BY <2>2, <2>5, <2>6, <2>7, <2>9, <3>2 DEF b, d
    <2> QED
      BY <2>8, <2>9
  <1> QED
    BY <1>1, <1>2

\* decode finds where the loops end.
LEMMA DecodeIs ==
  ASSUME NEW s \in ByteSeq, NEW y, Reaches(Top(s), y), ~Reading(y)
  PROVE  decode(s) = [ok |-> y.ok /\ y.m.kind # kNone, v |-> y.m]
  <1> DEFINE len == Len(s)
             f == CHOOSE f : f = [n \in 0 .. len |-> IF n = 0 THEN Top(s) ELSE ReadOn(f[n - 1])]
  <1>0. len \in Nat
    BY LenProperties DEF ByteSeq
  <1>1. f = [n \in 0 .. len |-> IF n = 0 THEN Top(s) ELSE ReadOn(f[n - 1])]
    BY <1>0, RunExists
  <1>2. decode(s) = [ok |-> f[len].ok /\ f[len].m.kind # kNone, v |-> f[len].m]
    BY DEF decode
  <1> HIDE DEF f
  <1>3. f[0] = Top(s)
    BY <1>0, <1>1
  <1>4. \A n \in 1 .. len : f[n] = ReadOn(f[n - 1])
    <2> HIDE DEF len
    <2>1. \A n \in 1 .. len : n \in 0 .. len /\ n # 0
      BY <1>0
    <2> QED
      BY <1>1, <2>1
  <1> DEFINE Taken(n) == /\ f[n].inner \in ByteSeq /\ f[n].rest \in ByteSeq
                         /\ Len(f[n].inner) + Len(f[n].rest) + n <= len
             T == {n \in 0 .. len : Reading(f[n]) /\ ~Taken(n)}
  <1>5. T = {}
    <2> SUFFICES ASSUME T # {} PROVE FALSE
      OBVIOUS
    <2> DEFINE m == Smallest(T)
    <2>1. m \in T /\ \A n \in T : m <= n
      <3>1. T \in SUBSET Nat
        <4> HIDE DEF len, Taken
        <4> QED
          BY <1>0
      <3> HIDE DEF T
      <3> QED
        BY <3>1, SmallestIsLeast
    <2> HIDE DEF m
    <2>2. m # 0
      <3>1. f[0].inner = << >> /\ f[0].rest = s
        BY <1>3 DEF Top
      <3>2. << >> \in ByteSeq /\ Len(<< >>) = 0
        BY Concat
      <3>3. 0 + len + 0 <= len
        <4> HIDE DEF len
        <4> QED
          BY <1>0
      <3>4. Taken(0)
        BY <3>1, <3>2, <3>3
      <3> HIDE DEF Taken
      <3> QED
        BY <2>1, <3>4
    <2>3. m \in 1 .. len /\ m - 1 \in 0 .. len /\ ~(m <= m - 1) /\ Reading(f[m]) /\ ~Taken(m)
      <3> HIDE DEF Taken, len
      <3> QED
        BY <1>0, <2>1, <2>2
    <2>4. f[m] = ReadOn(f[m - 1])
      BY <1>4, <2>3
    <2>5. Reading(f[m - 1]) /\ ReadOn(f[m - 1]).ok
      <3>1. ReadOn(f[m - 1]).ok /\ Reading(ReadOn(f[m - 1]))
        BY <2>3, <2>4 DEF Reading
      <3>2. ~Reading(f[m - 1]) => ReadOn(f[m - 1]) = f[m - 1]
        BY DEF ReadOn
      <3> QED
        BY <3>1, <3>2
    <2>6. Taken(m - 1)
      <3> HIDE DEF Taken
      <3>1. m - 1 \notin T
        BY <2>1, <2>3
      <3> QED
        BY <2>3, <2>5, <3>1
    <2>7. /\ f[m].inner \in ByteSeq /\ f[m].rest \in ByteSeq
          /\ Len(f[m].inner) + Len(f[m].rest) < Len(f[m - 1].inner) + Len(f[m - 1].rest)
      BY <2>4, <2>5, <2>6, TurnTakes
    <2>8. Len(f[m].inner) + Len(f[m].rest) + m <= len
      <3> DEFINE a == Len(f[m].inner)
                 b == Len(f[m].rest)
                 c == Len(f[m - 1].inner)
                 d == Len(f[m - 1].rest)
      <3>1. a \in Nat /\ b \in Nat /\ c \in Nat /\ d \in Nat
        BY <2>6, <2>7, LenProperties DEF ByteSeq
      <3>2. a + b < c + d /\ c + d + (m - 1) <= len
        BY <2>6, <2>7
      <3> HIDE DEF a, b, c, d, len
      <3>3. a + b + m <= len
        BY <1>0, <2>3, <3>1, <3>2
      <3> QED
        BY <3>3 DEF a, b
    <2> QED
      BY <2>3, <2>7, <2>8
  <1>6. ~Reading(f[len])
    <2> SUFFICES ASSUME Reading(f[len]) PROVE FALSE
      OBVIOUS
    <2>1. Taken(len)
      <3>1. len \in 0 .. len
        <4> HIDE DEF len
        <4> QED
          BY <1>0
      <3> HIDE DEF Taken
      <3> QED
        BY <1>5, <3>1
    <2> DEFINE a == Len(f[len].inner)
               b == Len(f[len].rest)
    <2>2. a \in Nat /\ b \in Nat /\ a + b + len <= len
      BY <2>1, LenProperties DEF ByteSeq
    <2> HIDE DEF a, b, len
    <2>3. a = 0 /\ b = 0
      BY <1>0, <2>2
    <2>4. f[len].inner = << >> /\ f[len].rest = << >>
      BY <2>1, <2>3, Concat DEF a, b
    <2> QED
      BY <2>4 DEF Reading
  <1> HIDE DEF len, T
  <1> DEFINE R == {f[n] : n \in 0 .. len}
  <1>7. Top(s) \in R
    BY <1>0, <1>3
  <1>8. ASSUME NEW z \in R PROVE ReadOn(z) \in R
    <2>1. PICK n \in 0 .. len : z = f[n]
      OBVIOUS
    <2>2. CASE n = len
      BY <1>6, <2>1, <2>2 DEF ReadOn
    <2>3. CASE n # len
      <3>1. n + 1 \in 1 .. len /\ n + 1 \in 0 .. len /\ (n + 1) - 1 = n
        BY <1>0, <2>3
      <3>2. f[n + 1] = ReadOn(f[n])
        BY <1>4, <3>1
      <3> QED
        BY <2>1, <3>1, <3>2
    <2> QED
      BY <2>2, <2>3
  <1>9. PICK j \in 0 .. len : y = f[j]
    <2>1. y \in R
      <3> HIDE DEF R
      <3> QED
        BY <1>7, <1>8 DEF Reaches
    <2> QED
      BY <2>1
  <1> DEFINE Q == {n \in j .. len : f[n] # y}
  <1>10. Q = {}
    <2> SUFFICES ASSUME Q # {} PROVE FALSE
      OBVIOUS
    <2> DEFINE m == Smallest(Q)
    <2>1. m \in Q /\ \A n \in Q : m <= n
      <3>1. Q \in SUBSET Nat
        BY <1>0
      <3> HIDE DEF Q
      <3> QED
        BY <3>1, SmallestIsLeast
    <2> HIDE DEF m
    <2>2. m # j
      BY <1>9, <2>1
    <2>3. m \in 1 .. len /\ m - 1 \in j .. len /\ ~(m <= m - 1) /\ f[m] # y
      BY <1>0, <2>1, <2>2
    <2>4. f[m - 1] = y
      BY <2>1, <2>3
    <2>5. f[m] = ReadOn(y)
      BY <1>4, <2>3, <2>4
    <2> QED
      BY <2>3, <2>5 DEF ReadOn
  <1>11. f[len] = y
    <2>1. len \in j .. len
      BY <1>0
    <2> QED
      BY <1>10, <2>1
  <1> QED
    BY <1>2, <1>11

(***************************************************************************)
(* Fields.                                                                 *)
(***************************************************************************)

\* How values are written.
Types == {"int", "bool", "float", "double", "text", "doubles", "floats"}

\* Members, by how decode sets them.
Counters == {"tracker_id", "role", "status", "wip_status"}
Plain    == {"name", "battery", "wip_x", "wip_y"}
Switches == {"open_wip", "output_as_treadmill", "use_left_hand",
             "joystick_control", "replace_hand_pose"}

\* How decode takes a field: by its member, packed or not.
Known(k, field) ==
    /\ field.f \in 1 .. 20 /\ field.type \in Types
    /\ Member(k, field.f, Wire(field.type)) = field.member
    /\ field.type \in Repeated =>
          Member(k, field.f, Wire(Element(field.type))) = field.member
    /\ \/ field.member = "none"
       \/ field.member = "q" /\ field.type = "doubles"
       \/ field.member = "pos" /\ field.type = "floats"
       \/ field.member \in Counters /\ field.type = "int"
       \/ field.member = "name" /\ field.type = "text"
       \/ field.member \in {"battery", "wip_x", "wip_y"} /\ field.type = "float"
       \/ field.member \in Switches /\ field.type = "bool"
    /\ k = 1 => field.member \in {"none", "tracker_id", "q", "pos"}
    /\ k = 3 => field.member \in {"none", "tracker_id", "status", "battery"}

\* So it takes every field of the schema, and of a later one.
LEMMA MemberOf ==
  ASSUME NEW k, NEW field \in FieldsOf(k)
  PROVE  Known(k, field)
  <1> USE DEF Known, Member, Wire, Types, Repeated, Element, Field, kTrackerStatus
  <1>1. ASSUME NEW type \in {"int", "float", "double", "text"}, field = Field(k, 20, type, "none")
        PROVE  Known(k, field)
    <2>1. \A w : Member(k, 20, w) = "none"
      OBVIOUS
    <2> QED
      BY <1>1, <2>1
  <1>2. ASSUME k = 1, field = Field(1, 1, "int", "tracker_id") PROVE Known(k, field)
    BY <1>2 DEF Counters, Switches
  <1>3. ASSUME k = 1, field = Field(1, 10, "doubles", "q") PROVE Known(k, field)
    BY <1>3 DEF Counters, Switches
  <1>4. ASSUME k = 1, field = Field(1, 11, "floats", "pos") PROVE Known(k, field)
    BY <1>4 DEF Counters, Switches
  <1>5. ASSUME k = 2, field = Field(2, 1, "int", "tracker_id") PROVE Known(k, field)
    BY <1>5 DEF Counters, Switches
  <1>6. ASSUME k = 2, field = Field(2, 3, "int", "role") PROVE Known(k, field)
    BY <1>6 DEF Counters, Switches
  <1>7. ASSUME k = 2, field = Field(2, 4, "text", "name") PROVE Known(k, field)
    BY <1>7 DEF Counters, Switches
  <1>8. ASSUME k = 3, field = Field(3, 1, "int", "tracker_id") PROVE Known(k, field)
    BY <1>8 DEF Counters, Switches
  <1>9. ASSUME k = 3, field = Field(3, 2, "int", "status") PROVE Known(k, field)
    BY <1>9 DEF Counters, Switches
  <1>10. ASSUME k = 3, field = Field(3, 3, "float", "battery") PROVE Known(k, field)
    BY <1>10 DEF Counters, Switches
  <1>11. ASSUME k = 4, field = Field(4, 1, "float", "none") PROVE Known(k, field)
    BY <1>11 DEF Counters, Switches
  <1>12. ASSUME k = 4, field = Field(4, 2, "floats", "none") PROVE Known(k, field)
    BY <1>12 DEF Counters, Switches
  <1>13. ASSUME k = 5, field = Field(5, 1, "int", "none") PROVE Known(k, field)
    BY <1>13 DEF Counters, Switches
  <1>14. ASSUME k = 6, field = Field(6, 1, "text", "none") PROVE Known(k, field)
    BY <1>14 DEF Counters, Switches
  <1>15. ASSUME k = 6, field = Field(6, 2, "float", "wip_x") PROVE Known(k, field)
    BY <1>15 DEF Counters, Switches
  <1>16. ASSUME k = 6, field = Field(6, 3, "float", "wip_y") PROVE Known(k, field)
    BY <1>16 DEF Counters, Switches
  <1>17. ASSUME k = 6, field = Field(6, 4, "int", "wip_status") PROVE Known(k, field)
    BY <1>17 DEF Counters, Switches
  <1>18. ASSUME k = 7, field = Field(7, 1, "bool", "open_wip") PROVE Known(k, field)
    BY <1>18 DEF Counters, Switches
  <1>19. ASSUME k = 7, field = Field(7, 2, "bool", "output_as_treadmill") PROVE Known(k, field)
    BY <1>19 DEF Counters, Switches
  <1>20. ASSUME k = 7, field = Field(7, 3, "bool", "use_left_hand") PROVE Known(k, field)
    BY <1>20 DEF Counters, Switches
  <1>21. ASSUME k = 7, field = Field(7, 4, "bool", "joystick_control") PROVE Known(k, field)
    BY <1>21 DEF Counters, Switches
  <1>22. ASSUME k = 7, field = Field(7, 5, "bool", "replace_hand_pose") PROVE Known(k, field)
    BY <1>22 DEF Counters, Switches
  <1>23. ASSUME k = 8, field = Field(8, 1, "bool", "none") PROVE Known(k, field)
    BY <1>23 DEF Counters, Switches
  <1> HIDE DEF Known, Member, Wire, Types, Repeated, Element, kTrackerStatus
  <1>24. CASE field \in Later(k)
    BY <1>1, <1>24 DEF Later
  <1>25. CASE field \in Schema /\ field.kind = k
    <2>1. \/ k = 1 /\ field = Field(1, 1, "int", "tracker_id")
          \/ k = 1 /\ field = Field(1, 10, "doubles", "q")
          \/ k = 1 /\ field = Field(1, 11, "floats", "pos")
          \/ k = 2 /\ field = Field(2, 1, "int", "tracker_id")
          \/ k = 2 /\ field = Field(2, 3, "int", "role")
          \/ k = 2 /\ field = Field(2, 4, "text", "name")
          \/ k = 3 /\ field = Field(3, 1, "int", "tracker_id")
          \/ k = 3 /\ field = Field(3, 2, "int", "status")
          \/ k = 3 /\ field = Field(3, 3, "float", "battery")
          \/ k = 4 /\ field = Field(4, 1, "float", "none")
          \/ k = 4 /\ field = Field(4, 2, "floats", "none")
          \/ k = 5 /\ field = Field(5, 1, "int", "none")
          \/ k = 6 /\ field = Field(6, 1, "text", "none")
          \/ k = 6 /\ field = Field(6, 2, "float", "wip_x")
          \/ k = 6 /\ field = Field(6, 3, "float", "wip_y")
          \/ k = 6 /\ field = Field(6, 4, "int", "wip_status")
          \/ k = 7 /\ field = Field(7, 1, "bool", "open_wip")
          \/ k = 7 /\ field = Field(7, 2, "bool", "output_as_treadmill")
          \/ k = 7 /\ field = Field(7, 3, "bool", "use_left_hand")
          \/ k = 7 /\ field = Field(7, 4, "bool", "joystick_control")
          \/ k = 7 /\ field = Field(7, 5, "bool", "replace_hand_pose")
          \/ k = 8 /\ field = Field(8, 1, "bool", "none")
      <3>1. \A a, b, c, d : Field(a, b, c, d).kind = a
        OBVIOUS
      <3> HIDE DEF Field
      <3> QED
        BY <1>25, <3>1 DEF Schema
    <2> HIDE DEF Field
    <2> QED
      BY <2>1, <1>2, <1>3, <1>4, <1>5, <1>6, <1>7, <1>8, <1>9, <1>10, <1>11, <1>12, <1>13, <1>14, <1>15, <1>16, <1>17, <1>18, <1>19, <1>20, <1>21, <1>22, <1>23
  <1> QED
    BY <1>24, <1>25 DEF FieldsOf

\* What a reader that knows only the wire type makes of a value.
Raw(type, v) == CASE type = "int"     -> v % Word
                  [] type = "bool"    -> IF v THEN 1 ELSE 0
                  [] type = "doubles" -> Joined(v, DoubleLen)
                  [] type = "floats"  -> Joined(v, FloatLen)
                  [] OTHER            -> v

\* A word of the sign of a number, and back.
LEMMA Signed ==
  ASSUME NEW v \in Ints
  PROVE  /\ v % Word \in 0 .. Word - 1 /\ Int32(v % Word) = v
         /\ Uint32(v) \in 0 .. Word - 1 /\ Int32(Uint32(v)) = v
  <1> DEFINE h == 2 * Half
  <1>1. /\ Word \in Nat /\ Half \in Nat \ {0} /\ Word % h = 0 /\ 256 < Word
        /\ v \in -Half .. Half - 1 /\ h \in Nat \ {0} /\ h = 2 * Half
    BY CodecAssumption
  <1> HIDE DEF h
  <1>2. PICK d \in Nat : Word = h * d /\ d # 0
    <2>1. Word \div h \in Nat /\ Word = h * (Word \div h) + (Word % h)
      BY <1>1
    <2>2. Word = h * (Word \div h)
      BY <1>1, <2>1
    <2>3. Word \div h # 0
      <3>1. h * 0 = 0
        BY <1>1
      <3> QED
        BY <1>1, <2>2, <3>1
    <2> QED
      BY <2>1, <2>2, <2>3
  <1>3. h <= Word
    <2>1. h * 1 <= h * d
      BY <1>1, <1>2
    <2> QED
      BY <1>1, <1>2, <2>1
  <1>4. v % h = IF v < 0 THEN v + h ELSE v
    BY <1>1
  <1>5. v % Word = IF v < 0 THEN v + Word ELSE v
    <2> DEFINE w == Word
    <2>1. w \in Nat \ {0} /\ h <= w
      BY <1>1, <1>3
    <2> HIDE DEF w
    <2>2. v \in -w .. w - 1
      BY <1>1, <2>1
    <2>3. v % w = IF v < 0 THEN v + w ELSE v
      BY <2>1, <2>2
    <2> QED
      BY <2>3 DEF w
  <1>6. (v % Word) % h = v % h
    <2>1. CASE v < 0
      <3> DEFINE j == v + h
      <3>1. j \in 0 .. h - 1 /\ d - 1 \in Nat
        BY <1>1, <1>2, <2>1
      <3>2. v + Word = (d - 1) * h + j
        BY <1>1, <1>2
      <3> HIDE DEF j
      <3>3. ((d - 1) * h + j) % h = j
        BY <1>1, <3>1, Places
      <3> QED
        BY <1>4, <1>5, <2>1, <3>2, <3>3 DEF j
    <2>2. CASE ~(v < 0)
      BY <1>5, <2>2
    <2> QED
      BY <2>1, <2>2
  <1>7. (v % h) % h = v % h /\ v % h \in 0 .. h - 1
    <2> DEFINE u == v % h
    <2>1. u \in 0 .. h - 1
      BY <1>1
    <2> HIDE DEF u
    <2>2. u % h = u
      BY <1>1, <2>1
    <2> QED
      BY <2>1, <2>2 DEF u
  <1>8. \A n : n % h = v % h => Int32(n) = v
    <2> DEFINE u == v % h
    <2>1. u = IF v < 0 THEN v + h ELSE v
      BY <1>4
    <2> HIDE DEF u
    <2>2. (IF u < Half THEN u ELSE u - h) = v
      BY <1>1, <2>1
    <2> QED
      BY <2>2 DEF u, h, Int32
  <1>9. v % Word \in 0 .. Word - 1 /\ v % h \in 0 .. Word - 1
    <2>1. v % h \in 0 .. h - 1
      BY <1>7
    <2>2. \A u \in 0 .. h - 1 : u \in 0 .. Word - 1
      BY <1>1, <1>3
    <2>3. v % Word \in 0 .. Word - 1
      BY <1>1
    <2> QED
      BY <2>1, <2>2, <2>3
  <1> QED
    BY <1>6, <1>7, <1>8, <1>9 DEF Uint32, h

\* Bytes of a fixed number are bytes.
LEMMA FixedBytes ==
  ASSUME NEW size \in Nat, NEW v \in [1 .. size -> Byte]
  PROVE  v \in ByteSeq /\ Len(v) = size
  <1>1. v \in Seq(Byte)
    BY SeqDef
  <1> QED
    BY <1>1, LenProperties DEF ByteSeq

\* Lists of one value.
LEMMA Copies ==
  ASSUME NEW S, NEW x \in S
  PROVE  /\ <<x>> \in Seq(S) /\ Len(<<x>>) = 1
         /\ <<x, x, x>> \in Seq(S) /\ Len(<<x, x, x>>) = 3
         /\ <<x, x, x, x>> \in Seq(S) /\ Len(<<x, x, x, x>>) = 4
  OBVIOUS

\* Every value that is written is read again, by its wire type.
LEMMA ValueComesBack ==
  ASSUME NEW type \in Types, NEW v \in Written(type), NEW t \in ByteSeq
  PROVE  /\ Bytes(type, v) \in ByteSeq
         /\ skip(Bytes(type, v) \o t, Wire(type)) = [ok |-> TRUE, v |-> Raw(type, v), rest |-> t]
  <1>0. DoubleLen \in Nat \ {0} /\ FloatLen \in Nat \ {0} /\ Word \in Nat /\ 256 < Word
    BY CodecAssumption
  <1>1. CASE type = "int"
    <2>1. v % Word \in 0 .. Word - 1
      <3>1. v \in Ints
        BY <1>1 DEF Written
      <3> QED
        BY <3>1, Signed
    <2> DEFINE n == v % Word
    <2>2. Bytes(type, v) = put_varint(n) /\ Raw(type, v) = n /\ Wire(type) = 0
      BY <1>1 DEF Bytes, Raw, Wire
    <2> HIDE DEF n
    <2>3. n \in 0 .. Word - 1
      BY <2>1 DEF n
    <2> QED
      BY <2>2, <2>3, VarintComesBack DEF skip
  <1>2. CASE type = "bool"
    <2> DEFINE n == IF v THEN 1 ELSE 0
    <2>1. Bytes(type, v) = <<n>> /\ Raw(type, v) = n /\ Wire(type) = 0
      BY <1>2 DEF Bytes, Raw, Wire
    <2>2. n \in 0 .. Word - 1 /\ n < 128
      BY <1>0
    <2> HIDE DEF n
    <2>3. put_varint(n) = <<n>> /\ put_varint(n) \in ByteSeq
      BY <2>2, VarintComesBack
    <2>4. \A s : skip(s, Wire(type)) = varint(s)
      BY <2>1 DEF skip
    <2>5. varint(put_varint(n) \o t) = [ok |-> TRUE, v |-> n, rest |-> t]
      BY <2>2, VarintComesBack
    <2> QED
      BY <2>1, <2>3, <2>4, <2>5
  <1>3. ASSUME NEW size \in Nat, v \in [1 .. size -> Byte], Bytes(type, v) = v, Raw(type, v) = v,
               \A s : skip(s, Wire(type)) = fixed(s, size)
        PROVE  /\ Bytes(type, v) \in ByteSeq
               /\ skip(Bytes(type, v) \o t, Wire(type)) = [ok |-> TRUE, v |-> Raw(type, v), rest |-> t]
    <2>1. v \in ByteSeq /\ Len(v) = size
      BY <1>3, FixedBytes
    <2> QED
      BY <1>3, <2>1, FixedComesBack
  <1>4. CASE type = "float"
    <2>1. v \in [1 .. FloatLen -> Byte]
      BY <1>4, CodecAssumption DEF Written
    <2>2. Bytes(type, v) = v /\ Raw(type, v) = v /\ \A s : skip(s, Wire(type)) = fixed(s, FloatLen)
      BY <1>4 DEF Bytes, Raw, Wire, skip
    <2> QED
      BY <1>0, <1>3, <2>1, <2>2
  <1>5. CASE type = "double"
    <2>1. v \in [1 .. DoubleLen -> Byte]
      BY <1>5, CodecAssumption DEF Written
    <2>2. Bytes(type, v) = v /\ Raw(type, v) = v /\ \A s : skip(s, Wire(type)) = fixed(s, DoubleLen)
      BY <1>5 DEF Bytes, Raw, Wire, skip
    <2> QED
      BY <1>0, <1>3, <2>1, <2>2
  <1>6. ASSUME NEW b \in ByteSeq, Len(b) < Word, Bytes(type, v) = Block(b), Raw(type, v) = b, Wire(type) = 2
        PROVE  /\ Bytes(type, v) \in ByteSeq
               /\ skip(Bytes(type, v) \o t, Wire(type)) = [ok |-> TRUE, v |-> Raw(type, v), rest |-> t]
    <2>1. \A s : skip(s, Wire(type)) = sub(s)
      BY <1>6 DEF skip
    <2> QED
      BY <1>6, <2>1, BlockComesBack
  <1>7. CASE type = "text"
    <2>1. v \in ByteSeq /\ Len(v) < Word
      BY <1>7, CodecAssumption DEF Written, ByteSeq
    <2>2. Bytes(type, v) = Block(v) /\ Raw(type, v) = v /\ Wire(type) = 2
      BY <1>7 DEF Bytes, Raw, Wire
    <2> QED
      BY <1>6, <2>1, <2>2
  <1>8. ASSUME NEW size \in Nat \ {0}, 4 * size < Word, v \in Seq([1 .. size -> Byte]), Len(v) \in {1, 3, 4},
               Bytes(type, v) = Block(Joined(v, size)), Raw(type, v) = Joined(v, size), Wire(type) = 2
        PROVE  /\ Bytes(type, v) \in ByteSeq
               /\ skip(Bytes(type, v) \o t, Wire(type)) = [ok |-> TRUE, v |-> Raw(type, v), rest |-> t]
    <2>1. Joined(v, size) \in ByteSeq /\ Len(Joined(v, size)) = size * Len(v)
      BY <1>8, ElementsComeBack
    <2>2. size * 1 < Word /\ size * 3 < Word /\ size * 4 < Word
      BY <1>0, <1>8
    <2>3. size * Len(v) < Word
      BY <1>8, <2>2
    <2> QED
      BY <1>6, <1>8, <2>1, <2>3
  <1>9. CASE type = "doubles"
    <2>1. v \in Lists(Doubles)
      BY <1>9 DEF Written
    <2>2. PICK x \in Doubles : v = <<x>> \/ v = <<x, x, x>> \/ v = <<x, x, x, x>>
      BY <2>1 DEF Lists
    <2>3. x \in [1 .. DoubleLen -> Byte]
      BY <2>2, CodecAssumption
    <2> DEFINE S == [1 .. DoubleLen -> Byte]
    <2> HIDE DEF S
    <2>4. v \in Seq(S) /\ Len(v) \in {1, 3, 4}
      BY <2>2, <2>3, Copies DEF S
    <2>5. Bytes(type, v) = Block(Joined(v, DoubleLen)) /\ Raw(type, v) = Joined(v, DoubleLen) /\ Wire(type) = 2
      BY <1>9 DEF Bytes, Raw, Wire
    <2>6. 4 * DoubleLen < Word
      BY <1>0, CodecAssumption
    <2> QED
      BY <1>0, <1>8, <2>4, <2>5, <2>6 DEF S
  <1>10. CASE type = "floats"
    <2>1. v \in Lists(Floats)
      BY <1>10 DEF Written
    <2>2. PICK x \in Floats : v = <<x>> \/ v = <<x, x, x>> \/ v = <<x, x, x, x>>
      BY <2>1 DEF Lists
    <2>3. x \in [1 .. FloatLen -> Byte]
      BY <2>2, CodecAssumption
    <2> DEFINE S == [1 .. FloatLen -> Byte]
    <2> HIDE DEF S
    <2>4. v \in Seq(S) /\ Len(v) \in {1, 3, 4}
      BY <2>2, <2>3, Copies DEF S
    <2>5. Bytes(type, v) = Block(Joined(v, FloatLen)) /\ Raw(type, v) = Joined(v, FloatLen) /\ Wire(type) = 2
      BY <1>10 DEF Bytes, Raw, Wire
    <2>6. 4 * FloatLen < Word
      BY <1>0, CodecAssumption
    <2> QED
      BY <1>0, <1>8, <2>4, <2>5, <2>6 DEF S
  <1> QED
    BY <1>1, <1>2, <1>4, <1>5, <1>7, <1>9, <1>10 DEF Types

\* One element alone is a list of it.
LEMMA OneElement ==
  ASSUME NEW size \in Nat \ {0}, NEW v \in [1 .. size -> Byte]
  PROVE  Joined(<<v>>, size) = v /\ <<v>> \in Seq([1 .. size -> Byte])
  <1>1. /\ Joined(<<v>>, size) = [n \in 1 .. size * Len(<<v>>) |->
              <<v>>[((n - 1) \div size) + 1][((n - 1) % size) + 1]]
    BY DEF Joined
  <1>2. size * Len(<<v>>) = size
    OBVIOUS
  <1>3. ASSUME NEW n \in 1 .. size
        PROVE  <<v>>[((n - 1) \div size) + 1][((n - 1) % size) + 1] = v[n]
    <2>1. n - 1 \in 0 .. size - 1 /\ 0 \in Nat /\ 0 * size + (n - 1) = n - 1
      OBVIOUS
    <2>2. (n - 1) \div size = 0 /\ (n - 1) % size = n - 1
      BY <2>1, Places
    <2>3. <<v>>[0 + 1] = v /\ (n - 1) + 1 = n
      OBVIOUS
    <2> QED
      BY <2>2, <2>3
  <1>4. v = [n \in 1 .. size |-> v[n]]
    OBVIOUS
  <1>5. Joined(<<v>>, size) = v
    BY <1>1, <1>2, <1>3, <1>4
  <1> DEFINE S == [1 .. size -> Byte]
  <1> HIDE DEF S
  <1>6. <<v>> \in Seq(S)
    BY Copies DEF S
  <1> QED
    BY <1>5, <1>6 DEF S

\* A repeated field is read again, packed or not.
LEMMA RepeatedComesBack ==
  ASSUME NEW t \in ByteSeq
  PROVE  /\ \A v \in Lists(Doubles) :
              repeated(Bytes("doubles", v) \o t, 2, DoubleLen) = [ok |-> TRUE, v |-> v, rest |-> t]
         /\ \A v \in Lists(Floats) :
              repeated(Bytes("floats", v) \o t, 2, FloatLen) = [ok |-> TRUE, v |-> v, rest |-> t]
         /\ \A v \in Doubles :
              repeated(Bytes("double", v) \o t, 1, DoubleLen) = [ok |-> TRUE, v |-> <<v>>, rest |-> t]
         /\ \A v \in Floats :
              repeated(Bytes("float", v) \o t, 5, FloatLen) = [ok |-> TRUE, v |-> <<v>>, rest |-> t]
  <1>0. DoubleLen \in Nat \ {0} /\ FloatLen \in Nat \ {0}
    BY CodecAssumption
  <1>1. ASSUME NEW v \in Lists(Doubles)
        PROVE  repeated(Bytes("doubles", v) \o t, 2, DoubleLen) = [ok |-> TRUE, v |-> v, rest |-> t]
    <2>1. /\ skip(Bytes("doubles", v) \o t, Wire("doubles")) = [ok |-> TRUE, v |-> Raw("doubles", v), rest |-> t]
      BY ValueComesBack DEF Types, Written
    <2>2. Wire("doubles") = 2 /\ Raw("doubles", v) = Joined(v, DoubleLen)
      BY DEF Wire, Raw
    <2>3. sub(Bytes("doubles", v) \o t) = [ok |-> TRUE, v |-> Joined(v, DoubleLen), rest |-> t]
      BY <2>1, <2>2 DEF skip
    <2>4. v \in Seq([1 .. DoubleLen -> Byte])
      <3>1. PICK x \in Doubles : v = <<x>> \/ v = <<x, x, x>> \/ v = <<x, x, x, x>>
        BY DEF Lists
      <3>2. x \in [1 .. DoubleLen -> Byte]
        BY <3>1, CodecAssumption
      <3> DEFINE S == [1 .. DoubleLen -> Byte]
      <3> HIDE DEF S
      <3>3. v \in Seq(S)
        BY <3>1, <3>2, Copies DEF S
      <3> QED
        BY <3>3 DEF S
    <2>5. Split([ok |-> TRUE, v |-> Joined(v, DoubleLen), rest |-> t], DoubleLen) = [ok |-> TRUE, v |-> v, rest |-> t]
      BY <1>0, <2>4, ElementsComeBack
    <2> QED
      BY <2>3, <2>5 DEF repeated
  <1>2. ASSUME NEW v \in Lists(Floats)
        PROVE  repeated(Bytes("floats", v) \o t, 2, FloatLen) = [ok |-> TRUE, v |-> v, rest |-> t]
    <2>1. /\ skip(Bytes("floats", v) \o t, Wire("floats")) = [ok |-> TRUE, v |-> Raw("floats", v), rest |-> t]
      BY ValueComesBack DEF Types, Written
    <2>2. Wire("floats") = 2 /\ Raw("floats", v) = Joined(v, FloatLen)
      BY DEF Wire, Raw
    <2>3. sub(Bytes("floats", v) \o t) = [ok |-> TRUE, v |-> Joined(v, FloatLen), rest |-> t]
      BY <2>1, <2>2 DEF skip
    <2>4. v \in Seq([1 .. FloatLen -> Byte])
      <3>1. PICK x \in Floats : v = <<x>> \/ v = <<x, x, x>> \/ v = <<x, x, x, x>>
        BY DEF Lists
      <3>2. x \in [1 .. FloatLen -> Byte]
        BY <3>1, CodecAssumption
      <3> DEFINE S == [1 .. FloatLen -> Byte]
      <3> HIDE DEF S
      <3>3. v \in Seq(S)
        BY <3>1, <3>2, Copies DEF S
      <3> QED
        BY <3>3 DEF S
    <2>5. Split([ok |-> TRUE, v |-> Joined(v, FloatLen), rest |-> t], FloatLen) = [ok |-> TRUE, v |-> v, rest |-> t]
      BY <1>0, <2>4, ElementsComeBack
    <2> QED
      BY <2>3, <2>5 DEF repeated
  <1>3. ASSUME NEW size \in Nat \ {0}, NEW v \in [1 .. size -> Byte], NEW wire, wire # 2
        PROVE  repeated(v \o t, wire, size) = [ok |-> TRUE, v |-> <<v>>, rest |-> t]
    <2>1. v \in ByteSeq /\ Len(v) = size
      BY FixedBytes
    <2>2. fixed(v \o t, size) = [ok |-> TRUE, v |-> v, rest |-> t]
      BY <2>1, FixedComesBack
    <2>3. Joined(<<v>>, size) = v /\ <<v>> \in Seq([1 .. size -> Byte])
      BY OneElement
    <2>4. Split([ok |-> TRUE, v |-> Joined(<<v>>, size), rest |-> t], size) = [ok |-> TRUE, v |-> <<v>>, rest |-> t]
      BY <2>3, ElementsComeBack
    <2> QED
      BY <1>3, <2>2, <2>3, <2>4 DEF repeated
  <1>4. ASSUME NEW v \in Doubles
        PROVE  repeated(Bytes("double", v) \o t, 1, DoubleLen) = [ok |-> TRUE, v |-> <<v>>, rest |-> t]
    <2>1. v \in [1 .. DoubleLen -> Byte] /\ Bytes("double", v) = v
      BY CodecAssumption DEF Bytes
    <2> QED
      BY <1>0, <1>3, <2>1
  <1>5. ASSUME NEW v \in Floats
        PROVE  repeated(Bytes("float", v) \o t, 5, FloatLen) = [ok |-> TRUE, v |-> <<v>>, rest |-> t]
    <2>1. v \in [1 .. FloatLen -> Byte] /\ Bytes("float", v) = v
      BY CodecAssumption DEF Bytes
    <2> QED
      BY <1>0, <1>3, <2>1
  <1> QED
    BY <1>1, <1>2, <1>4, <1>5

\* A tag is read again.
LEMMA TagComesBack ==
  ASSUME NEW f \in 1 .. 20, NEW type \in Types, NEW u \in ByteSeq
  PROVE  LET p == put_varint(f * 8 + Wire(type))
             x == varint(p \o u)
         IN  /\ p \in ByteSeq /\ p # << >>
             /\ x = [ok |-> TRUE, v |-> f * 8 + Wire(type), rest |-> u]
             /\ x.v % 8 = Wire(type) /\ x.v \div 8 = f
  <1>1. Wire(type) \in {0, 1, 2, 5}
    BY DEF Wire
  <1> DEFINE w == Wire(type)
             n == f * 8 + w
  <1>2. n \in 0 .. 255 /\ n % 8 = w /\ n \div 8 = f
    <2> HIDE DEF w
    <2>1. w \in {0, 1, 2, 5}
      BY <1>1 DEF w
    <2> QED
      BY <2>1
  <1>3. n \in 0 .. Word - 1
    <2> HIDE DEF n
    <2> QED
      BY <1>2, CodecAssumption
  <1> HIDE DEF n
  <1>4. /\ varint(put_varint(n) \o u) = [ok |-> TRUE, v |-> n, rest |-> u]
        /\ put_varint(n) \in ByteSeq /\ put_varint(n) # << >>
    BY <1>3, VarintComesBack
  <1> QED
    BY <1>2, <1>4 DEF n

\* m with another member.
With(m, member, x) == [m EXCEPT ![member] = x]

\* What m says when the writer has put a field of it.
Said(m, field, v) ==
    IF field.member = "none" THEN m
    ELSE With(m, field.member, IF field.type \in Repeated THEN m[field.member] \o v ELSE v)

\* What decode does to a message, by member.
LEMMA SetDoes ==
  ASSUME NEW m, NEW member, NEW r
  PROVE  /\ member = "none" => Set(m, member, r) = m
         /\ member \in {"q", "pos"} => Set(m, member, r) = With(m, member, m[member] \o r.v)
         /\ member \in Counters => Set(m, member, r) = With(m, member, Int32(r.v))
         /\ member \in Plain => Set(m, member, r) = With(m, member, r.v)
         /\ member \in Switches => Set(m, member, r) = With(m, member, r.v # 0)
  BY DEF Set, With, Counters, Plain, Switches

\* What the writer does, by member.
LEMMA SaidDoes ==
  ASSUME NEW m, NEW field, NEW v
  PROVE  /\ field.member = "none" => Said(m, field, v) = m
         /\ field.member # "none" /\ field.type \in {"doubles", "floats"} =>
               Said(m, field, v) = With(m, field.member, m[field.member] \o v)
         /\ field.member # "none" /\ field.type \notin {"doubles", "floats"} =>
               Said(m, field, v) = With(m, field.member, v)
  <1>1. field.member = "none" => Said(m, field, v) = m
    BY DEF Said, Repeated
  <1>2. field.member # "none" /\ field.type \in {"doubles", "floats"} =>
           Said(m, field, v) = With(m, field.member, m[field.member] \o v)
    BY DEF Said, Repeated
  <1>3. field.member # "none" /\ field.type \notin {"doubles", "floats"} =>
           Said(m, field, v) = With(m, field.member, v)
    BY DEF Said, Repeated
  <1> QED
    BY <1>1, <1>2, <1>3

\* Every field is understood: it sets what the writer means by it.
LEMMA FieldComesBack ==
  ASSUME NEW m, NEW field \in FieldsOf(m.kind), NEW v \in Written(field.type), NEW t \in ByteSeq
  PROVE  LET s == Tagged(field.f, field.type, v) IN
         /\ s \in ByteSeq /\ s # << >> /\ s \o t # << >>
         /\ ReadField(varint(s \o t), m) = [ok |-> TRUE, v |-> Said(m, field, v), rest |-> t]
  <1> DEFINE type == field.type
             member == field.member
             b == Bytes(type, v)
             p == put_varint(field.f * 8 + Wire(type))
             x == varint(p \o (b \o t))
             r == Value(x.rest, member, Wire(type))
  <1>1. Known(m.kind, field)
    BY MemberOf
  <1>2. /\ field.f \in 1 .. 20 /\ type \in Types /\ v \in Written(type)
        /\ Member(m.kind, field.f, Wire(type)) = member
    BY <1>1 DEF Known
  <1>3. /\ b \in ByteSeq
        /\ skip(b \o t, Wire(type)) = [ok |-> TRUE, v |-> Raw(type, v), rest |-> t]
    BY <1>2, ValueComesBack
  <1>4. b \o t \in ByteSeq
    BY <1>3, Parts
  <1>5. /\ p \in ByteSeq /\ p # << >>
        /\ x = [ok |-> TRUE, v |-> field.f * 8 + Wire(type), rest |-> b \o t]
        /\ x.v % 8 = Wire(type) /\ x.v \div 8 = field.f
    <2> HIDE DEF b, type
    <2> QED
      BY <1>2, <1>4, TagComesBack
  <1> HIDE DEF b, p
  <1>6. (p \o b) \o t = p \o (b \o t) /\ p \o b \in ByteSeq /\ p \o b # << >> /\ (p \o b) \o t # << >>
    <2>1. (p \o b) \o t = p \o (b \o t)
      BY <1>3, <1>5, Assoc
    <2>2. p \o b \in ByteSeq
      BY <1>3, <1>5, Parts
    <2>3. p \o b # << >>
      BY <1>3, <1>5, Concat
    <2>4. (p \o b) \o t # << >>
      BY <2>2, <2>3, Concat
    <2> QED
      BY <2>1, <2>2, <2>3, <2>4
  <1>7. Tagged(field.f, field.type, v) = p \o b
    BY DEF Tagged, p, b
  <1>8. ReadField(x, m) = [ok |-> r.ok, v |-> IF r.ok THEN Set(m, member, r) ELSE m, rest |-> r.rest]
    BY <1>2, <1>5 DEF ReadField, Stored
  <1>9. x.rest = b \o t
    BY <1>5
  <1> HIDE DEF x, type, member
  <1>10. r.ok = TRUE /\ r.rest = t /\ Set(m, member, r) = Said(m, field, v)
    <2>1. CASE member = "none"
      <3>1. r = [ok |-> TRUE, v |-> Raw(type, v), rest |-> t]
        BY <1>3, <1>9, <2>1 DEF Value
      <3> HIDE DEF r
      <3>2. Set(m, member, r) = m
        BY <2>1, SetDoes
      <3>3. Said(m, field, v) = m
        BY <2>1, SaidDoes DEF member
      <3> QED
        BY <3>1, <3>2, <3>3
    <2>2. CASE member = "q" /\ type = "doubles"
      <3>1. v \in Lists(Doubles) /\ Wire(type) = 2
        BY <1>2, <2>2 DEF Written, Wire
      <3>2. repeated(b \o t, 2, DoubleLen) = [ok |-> TRUE, v |-> v, rest |-> t]
        BY <2>2, <3>1, RepeatedComesBack DEF b, type
      <3>3. r = [ok |-> TRUE, v |-> v, rest |-> t]
        BY <1>9, <2>2, <3>1, <3>2 DEF Value
      <3> HIDE DEF r
      <3>4. r.ok = TRUE /\ r.rest = t /\ r.v = v
        BY <3>3
      <3>5. Set(m, member, r) = With(m, member, m[member] \o r.v)
        BY <2>2, SetDoes
      <3>6. Said(m, field, v) = With(m, member, m[member] \o v)
        BY <2>2, SaidDoes DEF member, type
      <3> QED
        BY <3>4, <3>5, <3>6
    <2>3. CASE member = "pos" /\ type = "floats"
      <3>1. v \in Lists(Floats) /\ Wire(type) = 2
        BY <1>2, <2>3 DEF Written, Wire
      <3>2. repeated(b \o t, 2, FloatLen) = [ok |-> TRUE, v |-> v, rest |-> t]
        BY <2>3, <3>1, RepeatedComesBack DEF b, type
      <3>3. r = [ok |-> TRUE, v |-> v, rest |-> t]
        BY <1>9, <2>3, <3>1, <3>2 DEF Value
      <3> HIDE DEF r
      <3>4. r.ok = TRUE /\ r.rest = t /\ r.v = v
        BY <3>3
      <3>5. Set(m, member, r) = With(m, member, m[member] \o r.v)
        BY <2>3, SetDoes
      <3>6. Said(m, field, v) = With(m, member, m[member] \o v)
        BY <2>3, SaidDoes DEF member, type
      <3> QED
        BY <3>4, <3>5, <3>6
    <2>4. CASE member \in Counters /\ type = "int"
      <3>1. r = [ok |-> TRUE, v |-> v % Word, rest |-> t]
        BY <1>3, <1>9, <2>4 DEF Value, Raw, Counters
      <3> HIDE DEF r
      <3>2. r.ok = TRUE /\ r.rest = t /\ r.v = v % Word
        BY <3>1
      <3>3. Int32(v % Word) = v
        BY <1>2, <2>4, Signed DEF Written
      <3>4. Set(m, member, r) = With(m, member, Int32(r.v))
        BY <2>4, SetDoes
      <3>5. Said(m, field, v) = With(m, member, v)
        BY <2>4, SaidDoes DEF Counters, member, type
      <3> QED
        BY <3>2, <3>3, <3>4, <3>5
    <2>5. CASE member \in Plain /\ type \in {"text", "float"}
      <3>1. r = [ok |-> TRUE, v |-> v, rest |-> t]
        BY <1>3, <1>9, <2>5 DEF Value, Raw, Plain
      <3> HIDE DEF r
      <3>2. r.ok = TRUE /\ r.rest = t /\ r.v = v
        BY <3>1
      <3>3. Set(m, member, r) = With(m, member, r.v)
        BY <2>5, SetDoes
      <3>4. Said(m, field, v) = With(m, member, v)
        BY <2>5, SaidDoes DEF Plain, member, type
      <3> QED
        BY <3>2, <3>3, <3>4
    <2>6. CASE member \in Switches /\ type = "bool"
      <3>1. r = [ok |-> TRUE, v |-> IF v THEN 1 ELSE 0, rest |-> t]
        BY <1>3, <1>9, <2>6 DEF Value, Raw, Switches
      <3> HIDE DEF r
      <3>2. r.ok = TRUE /\ r.rest = t /\ r.v = IF v THEN 1 ELSE 0
        BY <3>1
      <3>3. v \in BOOLEAN
        BY <1>2, <2>6 DEF Written
      <3>4. Set(m, member, r) = With(m, member, r.v # 0)
        BY <2>6, SetDoes
      <3>5. (r.v # 0) = v
        BY <3>2, <3>3
      <3>6. Said(m, field, v) = With(m, member, v)
        BY <2>6, SaidDoes DEF Switches, member, type
      <3> QED
        BY <3>2, <3>4, <3>5, <3>6
    <2> HIDE DEF r
    <2> QED
      BY <1>1, <2>1, <2>2, <2>3, <2>4, <2>5, <2>6 DEF Known, Plain, member, type
  <1> HIDE DEF r
  <1> QED
    BY <1>6, <1>7, <1>8, <1>10 DEF x

\* So is an element of a repeated field that is not packed.
LEMMA ElementComesBack ==
  ASSUME NEW m, NEW field \in FieldsOf(m.kind), field.type \in Repeated,
         NEW v \in Written(Element(field.type)), NEW t \in ByteSeq
  PROVE  LET s == Tagged(field.f, Element(field.type), v) IN
         /\ s \in ByteSeq /\ s # << >> /\ s \o t # << >>
         /\ ReadField(varint(s \o t), m) = [ok |-> TRUE, v |-> Said(m, field, <<v>>), rest |-> t]
  <1> DEFINE type == Element(field.type)
             member == field.member
             b == Bytes(type, v)
             p == put_varint(field.f * 8 + Wire(type))
             x == varint(p \o (b \o t))
             r == Value(x.rest, member, Wire(type))
  <1>1. Known(m.kind, field)
    BY MemberOf
  <1>2. /\ field.f \in 1 .. 20 /\ v \in Written(type)
        /\ Member(m.kind, field.f, Wire(type)) = member
    BY <1>1 DEF Known
  <1>3. type \in Types /\ type \in {"double", "float"}
    BY DEF Element, Types
  <1>4. /\ b \in ByteSeq
        /\ skip(b \o t, Wire(type)) = [ok |-> TRUE, v |-> Raw(type, v), rest |-> t]
    <2> HIDE DEF type
    <2> QED
      BY <1>2, <1>3, ValueComesBack
  <1>5. b \o t \in ByteSeq
    BY <1>4, Parts
  <1>6. /\ p \in ByteSeq /\ p # << >>
        /\ x = [ok |-> TRUE, v |-> field.f * 8 + Wire(type), rest |-> b \o t]
        /\ x.v % 8 = Wire(type) /\ x.v \div 8 = field.f
    <2> HIDE DEF b, type
    <2> QED
      BY <1>2, <1>3, <1>5, TagComesBack
  <1> HIDE DEF b, p
  <1>7. (p \o b) \o t = p \o (b \o t) /\ p \o b \in ByteSeq /\ p \o b # << >> /\ (p \o b) \o t # << >>
    <2>1. (p \o b) \o t = p \o (b \o t)
      BY <1>4, <1>6, Assoc
    <2>2. p \o b \in ByteSeq
      BY <1>4, <1>6, Parts
    <2>3. p \o b # << >>
      BY <1>4, <1>6, Concat
    <2>4. (p \o b) \o t # << >>
      BY <2>2, <2>3, Concat
    <2> QED
      BY <2>1, <2>2, <2>3, <2>4
  <1>8. Tagged(field.f, type, v) = p \o b
    BY DEF Tagged, p, b
  <1>9. ReadField(x, m) = [ok |-> r.ok, v |-> IF r.ok THEN Set(m, member, r) ELSE m, rest |-> r.rest]
    BY <1>2, <1>6 DEF ReadField, Stored
  <1>10. x.rest = b \o t
    BY <1>6
  <1> HIDE DEF x, member
  <1>11. r.ok = TRUE /\ r.rest = t /\ Set(m, member, r) = Said(m, field, <<v>>)
    <2>1. CASE member = "none"
      <3>1. r = [ok |-> TRUE, v |-> Raw(type, v), rest |-> t]
        BY <1>4, <1>10, <2>1 DEF Value
      <3> HIDE DEF r
      <3>2. Set(m, member, r) = m
        BY <2>1, SetDoes
      <3>3. Said(m, field, <<v>>) = m
        BY <2>1, SaidDoes DEF member
      <3> QED
        BY <3>1, <3>2, <3>3
    <2>2. CASE member = "q" /\ field.type = "doubles"
      <3>1. v \in Doubles /\ Wire(type) = 1 /\ type = "double"
        BY <1>2, <2>2 DEF Written, Wire, Element
      <3>2. repeated(b \o t, 1, DoubleLen) = [ok |-> TRUE, v |-> <<v>>, rest |-> t]
        BY <3>1, RepeatedComesBack DEF b
      <3>3. r = [ok |-> TRUE, v |-> <<v>>, rest |-> t]
        BY <1>10, <2>2, <3>1, <3>2 DEF Value
      <3> HIDE DEF r
      <3>4. r.ok = TRUE /\ r.rest = t /\ r.v = <<v>>
        BY <3>3
      <3>5. Set(m, member, r) = With(m, member, m[member] \o r.v)
        BY <2>2, SetDoes
      <3>6. Said(m, field, <<v>>) = With(m, member, m[member] \o <<v>>)
        BY <2>2, SaidDoes DEF member
      <3> QED
        BY <3>4, <3>5, <3>6
    <2>3. CASE member = "pos" /\ field.type = "floats"
      <3>1. v \in Floats /\ Wire(type) = 5 /\ type = "float"
        BY <1>2, <2>3 DEF Written, Wire, Element
      <3>2. repeated(b \o t, 5, FloatLen) = [ok |-> TRUE, v |-> <<v>>, rest |-> t]
        BY <3>1, RepeatedComesBack DEF b
      <3>3. r = [ok |-> TRUE, v |-> <<v>>, rest |-> t]
        BY <1>10, <2>3, <3>1, <3>2 DEF Value
      <3> HIDE DEF r
      <3>4. r.ok = TRUE /\ r.rest = t /\ r.v = <<v>>
        BY <3>3
      <3>5. Set(m, member, r) = With(m, member, m[member] \o r.v)
        BY <2>3, SetDoes
      <3>6. Said(m, field, <<v>>) = With(m, member, m[member] \o <<v>>)
        BY <2>3, SaidDoes DEF member
      <3> QED
        BY <3>4, <3>5, <3>6
    <2> HIDE DEF r
    <2>4. field.type \in {"doubles", "floats"}
      BY DEF Repeated
    <2>5. \/ member = "none"
          \/ member = "q" /\ field.type = "doubles"
          \/ member = "pos" /\ field.type = "floats"
      BY <1>1, <2>4 DEF Known, member
    <2> QED
      BY <2>1, <2>2, <2>3, <2>5
  <1> HIDE DEF r
  <1> QED
    BY <1>7, <1>8, <1>9, <1>11 DEF x

(***************************************************************************)
(* Turns of the loops.                                                     *)
(***************************************************************************)

\* A turn of the loops begins here.
At(m, inner, rest) == [ok |-> TRUE, m |-> m, inner |-> inner, rest |-> rest]

\* Its members, and where the loops end.
LEMMA AtHas ==
  ASSUME NEW m, NEW inner, NEW rest
  PROVE  /\ At(m, inner, rest).ok = TRUE /\ At(m, inner, rest).m = m
         /\ At(m, inner, rest).inner = inner /\ At(m, inner, rest).rest = rest
         /\ inner # << >> => Reading(At(m, inner, rest))
         /\ rest # << >> => Reading(At(m, inner, rest))
         /\ ~Reading(At(m, << >>, << >>))
         /\ Top(rest) = At(Blank, << >>, rest)
  BY DEF At, Reading, Top

\* Inside a message a field is taken, and the message says what it means.
LEMMA InsideTurn ==
  ASSUME NEW m, NEW n, NEW s, NEW t, NEW u, s # << >>,
         ReadField(varint(s), m) = [ok |-> TRUE, v |-> n, rest |-> t]
  PROVE  ReadOn(At(m, s, u)) = At(n, t, u)
  <1> DEFINE x == At(m, s, u)
  <1>1. x.ok = TRUE /\ x.m = m /\ x.inner = s /\ x.rest = u /\ Reading(x)
    BY DEF At, Reading
  <1> HIDE DEF x
  <1>2. ReadOn(x) = Inside(x)
    BY <1>1 DEF ReadOn
  <1> DEFINE f == ReadField(varint(x.inner), x.m)
  <1>3. Inside(x) = [ok |-> f.ok, m |-> f.v, inner |-> f.rest, rest |-> x.rest]
    BY DEF Inside
  <1>4. f.ok = TRUE /\ f.v = n /\ f.rest = t
    BY <1>1
  <1> HIDE DEF f
  <1> QED
    BY <1>1, <1>2, <1>3, <1>4 DEF x, At

\* Between messages, the next one is taken whole.
LEMMA WrapTurn ==
  ASSUME NEW m, NEW k \in MsgKinds, NEW b \in ByteSeq, NEW t \in ByteSeq, Len(b) < Word
  PROVE  /\ wrap(k, b) \in ByteSeq /\ wrap(k, b) # << >>
         /\ ReadOn(At(m, << >>, wrap(k, b) \o t)) = At(Start(m, k), b, t)
  <1> DEFINE p == put_varint(k * 8 + Wire("text"))
             l == put_varint(Len(b))
             c == Block(b)
             s == wrap(k, b) \o t
             x == At(m, << >>, s)
             y == varint(s)
  <1>1. c \in ByteSeq /\ sub(c \o t) = [ok |-> TRUE, v |-> b, rest |-> t] /\ l \in ByteSeq
    <2>1. Len(b) \in 0 .. Word - 1
      <3> DEFINE len == Len(b)
      <3>1. len \in Nat /\ len < Word /\ Word \in Nat
        BY Parts, CodecAssumption
      <3> HIDE DEF len
      <3>2. len \in 0 .. Word - 1
        BY <3>1
      <3> QED
        BY <3>2 DEF len
    <2> QED
      BY <2>1, BlockComesBack, VarintComesBack
  <1>2. c \o t \in ByteSeq
    BY <1>1, Parts
  <1>3. k \in 1 .. 20 /\ Wire("text") = 2 /\ "text" \in Types
    BY DEF MsgKinds, Wire, Types
  <1>4. LET z == varint(p \o (c \o t))
        IN  /\ p \in ByteSeq /\ p # << >>
            /\ z = [ok |-> TRUE, v |-> k * 8 + Wire("text"), rest |-> c \o t]
            /\ z.v % 8 = Wire("text") /\ z.v \div 8 = k
    <2> HIDE DEF c
    <2> QED
      BY <1>2, <1>3, TagComesBack
  <1>5. wrap(k, b) = p \o c
    <2>1. wrap(k, b) = (p \o l) \o b /\ c = l \o b
      BY <1>3 DEF wrap, Block
    <2>2. p \in ByteSeq /\ l \in ByteSeq
      BY <1>1, <1>4
    <2> HIDE DEF p, l
    <2>3. (p \o l) \o b = p \o (l \o b)
      BY <2>2, Assoc
    <2> HIDE DEF c
    <2> QED
      BY <2>1, <2>3
  <1> HIDE DEF p, c, l
  <1>6. /\ wrap(k, b) \in ByteSeq /\ wrap(k, b) # << >>
        /\ s = p \o (c \o t)
    <2>1. p \o c \in ByteSeq
      BY <1>1, <1>4, Parts
    <2>2. p \o c # << >>
      BY <1>1, <1>4, Concat
    <2>3. (p \o c) \o t = p \o (c \o t)
      <3>1. p \in ByteSeq /\ c \in ByteSeq /\ t \in ByteSeq
        BY <1>1, <1>4
      <3> QED
        BY ONLY <3>1, Assoc
    <2> QED
      BY <1>5, <2>1, <2>2, <2>3
  <1>7. s # << >>
    <2> DEFINE w == wrap(k, b)
    <2> HIDE DEF w
    <2>1. w \in ByteSeq /\ w # << >>
      BY <1>6 DEF w
    <2>2. w \o t # << >>
      BY <2>1, Concat
    <2> QED
      BY <2>2 DEF w
  <1>8. /\ y.rest = c \o t /\ y.v % 8 = 2 /\ y.v \div 8 = k
    BY <1>3, <1>4, <1>6
  <1> HIDE DEF y
  <1>9. IsMessage(y) /\ skip(y.rest, y.v % 8) = [ok |-> TRUE, v |-> b, rest |-> t]
    <2>1. IsMessage(y)
      BY <1>8 DEF IsMessage
    <2>2. skip(c \o t, 2) = sub(c \o t)
      BY DEF skip
    <2> QED
      BY <1>1, <1>8, <2>1, <2>2
  <1>10. x.ok = TRUE /\ x.m = m /\ x.inner = << >> /\ x.rest = s /\ Reading(x)
    BY <1>7 DEF At, Reading
  <1> HIDE DEF x, s, y
  <1>11. ReadOn(x) = Between(x)
    BY <1>10 DEF ReadOn
  <1> DEFINE e == skip(y.rest, y.v % 8)
  <1>12. Between(x) = [ok |-> e.ok, m |-> Start(m, k), inner |-> e.v, rest |-> e.rest]
    <2>1. varint(x.rest) = y
      BY <1>10 DEF y
    <2> QED
      BY <1>8, <1>9, <1>10, <2>1 DEF Between
  <1>13. e.ok = TRUE /\ e.v = b /\ e.rest = t
    BY <1>9
  <1> HIDE DEF e
  <1> QED
    BY <1>6, <1>11, <1>12, <1>13 DEF x, s, At

\* A field beside the messages is passed over.
LEMMA BesideTurn ==
  ASSUME NEW m, NEW field \in Later(kNone), NEW v \in Written(field.type), NEW t \in ByteSeq
  PROVE  LET e == Tagged(field.f, field.type, v) IN
         /\ e \in ByteSeq /\ e # << >>
         /\ ReadOn(At(m, << >>, e \o t)) = At(m, << >>, t)
  <1> DEFINE type == field.type
             b == Bytes(type, v)
             p == put_varint(20 * 8 + Wire(type))
             s == (p \o b) \o t
             x == At(m, << >>, s)
             y == varint(s)
  <1>1. field.f = 20 /\ type \in Types /\ 20 \in 1 .. 20
    BY DEF Later, Field, Types
  <1>2. /\ b \in ByteSeq
        /\ skip(b \o t, Wire(type)) = [ok |-> TRUE, v |-> Raw(type, v), rest |-> t]
    BY <1>1, ValueComesBack
  <1>3. b \o t \in ByteSeq
    BY <1>2, Parts
  <1>4. LET z == varint(p \o (b \o t))
        IN  /\ p \in ByteSeq /\ p # << >>
            /\ z = [ok |-> TRUE, v |-> 20 * 8 + Wire(type), rest |-> b \o t]
            /\ z.v % 8 = Wire(type) /\ z.v \div 8 = 20
    <2> HIDE DEF b, type
    <2> QED
      BY <1>1, <1>3, TagComesBack
  <1>5. Tagged(field.f, field.type, v) = p \o b
    BY <1>1 DEF Tagged
  <1> HIDE DEF b, p, type
  <1>6. /\ p \o b \in ByteSeq /\ p \o b # << >>
        /\ s = p \o (b \o t) /\ s # << >>
    <2>1. p \o b \in ByteSeq
      BY <1>2, <1>4, Parts
    <2>2. p \o b # << >>
      BY <1>2, <1>4, Concat
    <2>3. (p \o b) \o t = p \o (b \o t)
      BY <1>2, <1>4, Assoc
    <2>4. (p \o b) \o t # << >>
      BY <2>1, <2>2, Concat
    <2> QED
      BY <2>1, <2>2, <2>3, <2>4
  <1>7. y.rest = b \o t /\ y.v % 8 = Wire(type) /\ y.v \div 8 = 20
    BY <1>4, <1>6
  <1>8. ~IsMessage(y)
    BY <1>7 DEF IsMessage, MsgKinds
  <1>9. skip(y.rest, y.v % 8) = [ok |-> TRUE, v |-> Raw(type, v), rest |-> t]
    BY <1>2, <1>7
  <1>10. x.ok = TRUE /\ x.m = m /\ x.inner = << >> /\ x.rest = s /\ Reading(x)
    BY <1>6 DEF At, Reading
  <1> HIDE DEF x, s, y
  <1>11. ReadOn(x) = Between(x)
    BY <1>10 DEF ReadOn
  <1> DEFINE e == skip(y.rest, y.v % 8)
  <1>12. Between(x) = [ok |-> e.ok, m |-> m, inner |-> << >>, rest |-> e.rest]
    <2>1. varint(x.rest) = y
      BY <1>10 DEF y
    <2> QED
      BY <1>8, <1>10, <2>1 DEF Between
  <1>13. e.ok = TRUE /\ e.rest = t
    BY <1>9
  <1> HIDE DEF e
  <1> QED
    BY <1>5, <1>6, <1>11, <1>12, <1>13 DEF x, s, At

\* Cut short, neither is taken.
LEMMA CutTurn ==
  ASSUME NEW m, NEW n, NEW p \in ByteSeq, NEW q \in ByteSeq, p # << >>, q # << >>,
         ReadOn(At(m, << >>, p \o q)).ok, ReadOn(At(m, << >>, p \o q)).rest = << >>
  PROVE  ~ReadOn(At(n, << >>, p)).ok
  <1> SUFFICES ASSUME ReadOn(At(n, << >>, p)).ok PROVE FALSE
    OBVIOUS
  <1> DEFINE x == At(m, << >>, p \o q)
             y == At(n, << >>, p)
             tx == varint(p \o q)
             ty == varint(p)
             ex == skip(tx.rest, tx.v % 8)
             ey == skip(ty.rest, ty.v % 8)
  <1>1. p \o q \in ByteSeq /\ p \o q # << >>
    <2>1. p \o q # << >>
      BY Concat
    <2> QED
      BY <2>1, Parts
  <1>2. x.inner = << >> /\ x.rest = p \o q /\ Reading(x)
    BY <1>1 DEF At, Reading
  <1>3. y.inner = << >> /\ y.rest = p /\ Reading(y)
    BY DEF At, Reading
  <1>4. ReadOn(x).ok = ex.ok /\ ReadOn(x).rest = ex.rest
    <2> HIDE DEF x
    <2>1. ReadOn(x) = Between(x)
      BY <1>2 DEF ReadOn
    <2> QED
      BY <1>2, <2>1 DEF Between
  <1>5. ReadOn(y).ok = ey.ok
    <2> HIDE DEF y
    <2>1. ReadOn(y) = Between(y)
      BY <1>3 DEF ReadOn
    <2> QED
      BY <1>3, <2>1 DEF Between
  <1>6. ey.ok
    BY <1>5
  <1>7. ty.ok
    <2> SUFFICES ASSUME ~ty.ok PROVE FALSE
      OBVIOUS
    <2>1. ty = Fail
      BY DEF varint, Read
    <2>2. ty.rest = << >> /\ ty.v % 8 = 0
      BY <2>1 DEF Fail
    <2>3. skip(<< >>, 0) = Fail
      <3>1. DOMAIN << >> = {}
        OBVIOUS
      <3>2. {i \in DOMAIN << >> : i <= MaxGroups /\ << >>[i] < 128} = {}
        BY <3>1
      <3>3. varint(<< >>) = Fail
        BY <3>2 DEF varint
      <3> QED
        BY <3>3 DEF skip
    <2> QED
      BY <1>6, <2>2, <2>3 DEF Fail
  <1>8. /\ Well(ty) /\ tx = Longer(ty, q)
    BY <1>7, VarintLocal
  <1>9. ty.rest \in ByteSeq /\ tx.v = ty.v /\ tx.rest = ty.rest \o q
    BY <1>8 DEF Well, Longer
  <1> HIDE DEF tx, ty
  <1>10. Well(ey) /\ ex = Longer(ey, q)
    <2>1. /\ Well(ey)
          /\ \A t \in ByteSeq : skip(ty.rest \o t, ty.v % 8) = Longer(ey, t)
      BY <1>6, <1>9, SkipLocal
    <2>2. ex = skip(ty.rest \o q, ty.v % 8)
      BY <1>9
    <2> QED
      BY <2>1, <2>2
  <1>11. ey.rest \in ByteSeq /\ ex.rest = ey.rest \o q
    BY <1>10 DEF Well, Longer
  <1> HIDE DEF ex, ey
  <1>12. ey.rest \o q # << >>
    BY <1>11, Concat
  <1> QED
    BY <1>4, <1>11, <1>12

(***************************************************************************)
(* Messages.                                                               *)
(***************************************************************************)

\* The members of Msg.
Members == {"kind", "tracker_id", "q", "pos", "role", "name", "status", "battery"}
              \cup Switches \cup {"wip_x", "wip_y", "wip_status"}

\* What a message of a tracker, or of its status, may say.
Own(k) == IF k = 1 THEN {"tracker_id", "q", "pos"}
          ELSE IF k = 3 THEN {"tracker_id", "status", "battery"} ELSE Members

\* Only what its kind may say is set.
Shape(m) ==
    /\ m = [c \in Members |-> m[c]]
    /\ m["kind"] \in 0 .. 8
    /\ m["tracker_id"] \in Ints \cup {0} /\ m["status"] \in Ints \cup {0}
    /\ m["q"] \in Seq(Doubles) /\ m["pos"] \in Seq(Floats)
    /\ \A c \in Members : c # "kind" /\ c \notin Own(m["kind"]) => m[c] = Blank[c]

\* A message that says nothing has it, and one that only begins.
LEMMA BlankShape ==
  /\ Shape(Blank)
  /\ \A k \in MsgKinds : \A m : Shape(Start(m, k)) /\ Start(m, k)["kind"] = k
  <1>1. /\ Blank = [c \in Members |-> Blank[c]]
        /\ Blank["kind"] = 0 /\ Blank["tracker_id"] = 0 /\ Blank["status"] = 0
        /\ Blank["q"] = << >> /\ Blank["pos"] = << >>
    BY DEF Blank, Members, Switches, kNone
  <1>0. \A S : << >> \in Seq(S)
    OBVIOUS
  <1>2. Shape(Blank)
    <2> DEFINE b == Blank
    <2>0. /\ b = [c \in Members |-> b[c]]
          /\ b["kind"] = 0 /\ b["tracker_id"] = 0 /\ b["status"] = 0
          /\ b["q"] = << >> /\ b["pos"] = << >>
      BY <1>1
    <2> HIDE DEF b
    <2>1. /\ b = [c \in Members |-> b[c]]
          /\ b["kind"] \in 0 .. 8 /\ b["tracker_id"] \in Ints \cup {0} /\ b["status"] \in Ints \cup {0}
          /\ b["q"] \in Seq(Doubles) /\ b["pos"] \in Seq(Floats)
      <3>1. b["kind"] \in 0 .. 8
        BY <2>0
      <3>2. b["tracker_id"] \in Ints \cup {0} /\ b["status"] \in Ints \cup {0}
        BY <2>0
      <3>3. b["q"] \in Seq(Doubles) /\ b["pos"] \in Seq(Floats)
        BY <1>0, <2>0
      <3> QED
        BY <2>0, <3>1, <3>2, <3>3
    <2>2. \A c \in Members : c # "kind" /\ c \notin Own(b["kind"]) => b[c] = Blank[c]
      BY DEF b
    <2>3. Shape(b)
      BY <2>1, <2>2 DEF Shape
    <2> QED
      BY <2>3 DEF b
  <1>3. ASSUME NEW k \in MsgKinds, NEW m PROVE Shape(Start(m, k)) /\ Start(m, k)["kind"] = k
    <2> DEFINE b == Blank
    <2>1. Start(m, k) = [b EXCEPT !["kind"] = k]
      BY DEF Start
    <2>2. /\ b = [c \in Members |-> b[c]]
          /\ b["tracker_id"] = 0 /\ b["status"] = 0 /\ b["q"] = << >> /\ b["pos"] = << >>
      BY <1>1
    <2> HIDE DEF b
    <2> DEFINE s == [b EXCEPT !["kind"] = k]
    <2>3. s = [c \in Members |-> IF c = "kind" THEN k ELSE b[c]]
      BY <2>2
    <2> HIDE DEF s
    <2>4. s = [c \in Members |-> s[c]] /\ s["kind"] = k /\ \A c \in Members : c # "kind" => s[c] = b[c]
      BY <2>3 DEF Members
    <2>5. {"tracker_id", "status", "q", "pos"} \subseteq Members
      BY DEF Members
    <2>6. k \in 0 .. 8
      BY DEF MsgKinds
    <2>7. Shape(s)
      <3>1. s["tracker_id"] = 0 /\ s["status"] = 0 /\ s["q"] = << >> /\ s["pos"] = << >>
        BY <2>2, <2>4, <2>5
      <3>2. \A c \in Members : c # "kind" => s[c] = Blank[c]
        BY <2>4 DEF b
      <3> QED
        BY <1>0, <2>4, <2>6, <3>1, <3>2 DEF Shape
    <2> QED
      BY <2>1, <2>4, <2>7 DEF s
  <1> QED
    BY <1>2, <1>3

\* Putting a field keeps the shape, and the kind.
LEMMA SaidShape ==
  ASSUME NEW m, Shape(m), NEW field \in FieldsOf(m["kind"]), NEW v,
         \/ v \in Written(field.type)
         \/ field.type \in Repeated /\ \E x \in Written(Element(field.type)) : v = <<x>>
  PROVE  Shape(Said(m, field, v)) /\ Said(m, field, v)["kind"] = m["kind"]
  <1> DEFINE member == field.member
             type == field.type
             n == Said(m, field, v)
  <1>1. Known(m["kind"], field)
    BY MemberOf
  <1>2. CASE member = "none"
    BY <1>2 DEF Said
  <1>3. ASSUME member # "none", NEW x, n = With(m, member, x),
               member \in Members, member # "kind", member \in Own(m["kind"]),
               member \in {"tracker_id", "status"} => x \in Ints,
               member = "q" => x \in Seq(Doubles), member = "pos" => x \in Seq(Floats)
        PROVE  Shape(n) /\ n["kind"] = m["kind"]
    <2> HIDE DEF n, member
    <2>1. m = [c \in Members |-> m[c]]
      BY DEF Shape
    <2>2. n = [c \in Members |-> IF c = member THEN x ELSE m[c]]
      BY <1>3, <2>1 DEF With
    <2>3. n = [c \in Members |-> n[c]] /\ n[member] = x /\ \A c \in Members : c # member => n[c] = m[c]
      BY <1>3, <2>2
    <2>4. {"kind", "tracker_id", "status", "q", "pos"} \subseteq Members
      BY DEF Members
    <2>5. n["kind"] = m["kind"]
      BY <1>3, <2>3, <2>4
    <2>6. n["tracker_id"] \in Ints \cup {0} /\ n["status"] \in Ints \cup {0}
      BY <1>3, <2>3, <2>4 DEF Shape
    <2>7. n["q"] \in Seq(Doubles) /\ n["pos"] \in Seq(Floats)
      BY <1>3, <2>3, <2>4 DEF Shape
    <2>8. \A c \in Members : c # "kind" /\ c \notin Own(n["kind"]) => n[c] = Blank[c]
      BY <1>3, <2>3, <2>5 DEF Shape
    <2>9. n["kind"] \in 0 .. 8
      BY <2>5 DEF Shape
    <2> QED
      BY <2>3, <2>5, <2>6, <2>7, <2>8, <2>9 DEF Shape
  <1>4. ASSUME member # "none"
        PROVE  member \in Members /\ member # "kind" /\ member \in Own(m["kind"])
    <2>1. /\ m["kind"] = 1 => member \in {"tracker_id", "q", "pos"}
          /\ m["kind"] = 3 => member \in {"tracker_id", "status", "battery"}
          /\ member \in {"q", "pos", "name", "battery", "wip_x", "wip_y"} \cup Counters \cup Switches
      BY <1>1, <1>4 DEF Known
    <2>2. member \in Members /\ member # "kind"
      BY <2>1 DEF Members, Counters, Switches
    <2> HIDE DEF member
    <2> QED
      BY <2>1, <2>2 DEF Own
  <1>5. CASE member = "q" /\ type = "doubles"
    <2>1. v \in Seq(Doubles)
      <3>1. CASE v \in Written(type)
        <4>1. PICK x \in Doubles : v = <<x>> \/ v = <<x, x, x>> \/ v = <<x, x, x, x>>
          BY <1>5, <3>1 DEF Written, Lists
        <4> QED
          BY <4>1, Copies
      <3>2. CASE \E x \in Written(Element(type)) : v = <<x>>
        <4>1. PICK x \in Doubles : v = <<x>>
          BY <1>5, <3>2 DEF Written, Element
        <4> QED
          BY <4>1, Copies
      <3> QED
        BY <3>1, <3>2
    <2>2. m["q"] \o v \in Seq(Doubles)
      BY <2>1, ConcatProperties DEF Shape
    <2>3. n = With(m, member, m["q"] \o v)
      BY <1>5, SaidDoes
    <2> QED
      BY <1>3, <1>4, <1>5, <2>2, <2>3
  <1>6. CASE member = "pos" /\ type = "floats"
    <2>1. v \in Seq(Floats)
      <3>1. CASE v \in Written(type)
        <4>1. PICK x \in Floats : v = <<x>> \/ v = <<x, x, x>> \/ v = <<x, x, x, x>>
          BY <1>6, <3>1 DEF Written, Lists
        <4> QED
          BY <4>1, Copies
      <3>2. CASE \E x \in Written(Element(type)) : v = <<x>>
        <4>1. PICK x \in Floats : v = <<x>>
          BY <1>6, <3>2 DEF Written, Element
        <4> QED
          BY <4>1, Copies
      <3> QED
        BY <3>1, <3>2
    <2>2. m["pos"] \o v \in Seq(Floats)
      BY <2>1, ConcatProperties DEF Shape
    <2>3. n = With(m, member, m["pos"] \o v)
      BY <1>6, SaidDoes
    <2> QED
      BY <1>3, <1>4, <1>6, <2>2, <2>3
  <1>7. CASE member # "none" /\ type \notin {"doubles", "floats"}
    <2>1. v \in Written(type)
      BY <1>7 DEF Repeated
    <2>2. member \in {"tracker_id", "status"} => v \in Ints
      <3>1. member \in {"tracker_id", "status"} => type = "int"
        BY <1>1 DEF Known, Switches
      <3> QED
        BY <2>1, <3>1 DEF Written
    <2>3. member # "q" /\ member # "pos"
      BY <1>1, <1>7 DEF Known, Counters, Switches
    <2>4. n = With(m, member, v)
      BY <1>7, SaidDoes
    <2> QED
      BY <1>3, <1>4, <1>7, <2>2, <2>3, <2>4
  <1> QED
    BY <1>1, <1>2, <1>5, <1>6, <1>7 DEF Known, Counters, Switches

(***************************************************************************)
(* What is written, and what the driver makes of it.                       *)
(***************************************************************************)

\* After all of s and before what follows, the message is w.
Leads(s, w) == \A t \in ByteSeq : Reaches(At(Blank, << >>, s \o t), At(w, << >>, t))

\* Of all of s, an error is made.
Fails(s) == \E z : ~z.ok /\ Reaches(At(Blank, << >>, s), z)

\* The types, and that an open message has a kind.
Typed   == /\ open \in BOOLEAN /\ payload \in ByteSeq /\ body \in ByteSeq
           /\ Shape(want) /\ (open => want["kind"] \in MsgKinds /\ Len(body) < Word)
\* The payload up to here leads to what the finished messages say.
Meant   == \E w : (~open => w = want) /\ Leads(payload, w)
\* The fields put lead to what the open message says.
Saying  == open => \A t \in ByteSeq, u \in ByteSeq :
                      Reaches(At(Start(Blank, want["kind"]), body \o t, u), At(want, t, u))
\* A cut that is no end of a field is an error.
Cuts    == \A n \in 1 .. Len(payload) : n \in ends \/ Fails(SubSeq(payload, 1, n))

\* The invariant that Understood and SentAsMeant follow from.
CodecInv == Typed /\ Meant /\ Saying /\ Cuts

\* One entry more.
LEMMA OneMore ==
  ASSUME NEW s \in ByteSeq, NEW e \in ByteSeq, NEW w, NEW w2, Leads(s, w), e # << >>,
         \A t \in ByteSeq : Reaches(At(w, << >>, e \o t), At(w2, << >>, t))
  PROVE  s \o e \in ByteSeq /\ Leads(s \o e, w2)
  <1>1. s \o e \in ByteSeq
    BY Parts
  <1>2. ASSUME NEW t \in ByteSeq
        PROVE  Reaches(At(Blank, << >>, (s \o e) \o t), At(w2, << >>, t))
    <2>1. (s \o e) \o t = s \o (e \o t)
      BY Assoc
    <2>2. e \o t \in ByteSeq
      BY Parts
    <2>3. Reaches(At(Blank, << >>, s \o (e \o t)), At(w, << >>, e \o t))
      BY <2>2 DEF Leads
    <2> QED
      BY <2>1, <2>3, ReachesSteps
  <1> QED
    BY <1>1, <1>2 DEF Leads

\* A cut in it is an error.
LEMMA CutsMore ==
  ASSUME NEW s \in ByteSeq, NEW e \in ByteSeq, NEW w, Leads(s, w), e # << >>,
         ReadOn(At(w, << >>, e)).ok, ReadOn(At(w, << >>, e)).rest = << >>,
         NEW E, \A n \in 1 .. Len(s) : n \in E \/ Fails(SubSeq(s, 1, n))
  PROVE  \A n \in 1 .. Len(s \o e) : n \in E \cup {Len(s \o e)} \/ Fails(SubSeq(s \o e, 1, n))
  <1> DEFINE a == Len(s)
             b == Len(e)
  <1>1. a \in Nat /\ b \in Nat /\ Len(s \o e) = a + b
    BY Parts
  <1> HIDE DEF a, b
  <1> SUFFICES ASSUME NEW n \in 1 .. a + b, n # a + b
               PROVE  n \in E \/ Fails(SubSeq(s \o e, 1, n))
    BY <1>1
  <1>2. CASE n <= a
    <2>1. n \in 1 .. a /\ n \in 0 .. a
      BY <1>1, <1>2
    <2>2. SubSeq(s \o e, 1, n) = SubSeq(s, 1, n)
      BY <2>1, SubSeqOfConcat1 DEF ByteSeq, a
    <2> QED
      BY <2>1, <2>2 DEF a
  <1>3. CASE ~(n <= a)
    <2> DEFINE k == n - a
               p == SubSeq(e, 1, k)
               q == SubSeq(e, k + 1, Len(e))
    <2>1. k \in 0 .. b /\ k # 0 /\ b - k # 0 /\ n = a + k /\ k \in Nat
      BY <1>1, <1>3
    <2> HIDE DEF k
    <2>2. p \in ByteSeq /\ q \in ByteSeq /\ e = p \o q /\ Len(p) = k /\ Len(q) = b - k
      <3>1. k \in 0 .. Len(e)
        BY <2>1 DEF b
      <3> QED
        BY <3>1, Halves DEF b
    <2> HIDE DEF p, q
    <2>3. p # << >> /\ q # << >>
      BY <2>1, <2>2, Concat
    <2>4. ~ReadOn(At(w, << >>, p)).ok
      BY <2>2, <2>3, CutTurn
    <2>5. Reaches(At(Blank, << >>, s \o p), At(w, << >>, p))
      BY <2>2 DEF Leads
    <2>6. Reaches(At(Blank, << >>, s \o p), ReadOn(At(w, << >>, p)))
      BY <2>5, ReachesSteps
    <2>7. Fails(s \o p)
      BY <2>4, <2>6 DEF Fails
    <2>8. SubSeq(s \o e, 1, n) = s \o p
      <3>1. s \o p \in ByteSeq /\ Len(s \o p) = n
        BY <2>1, <2>2, Parts DEF a
      <3>2. s \o e = (s \o p) \o q
        BY <2>2, Assoc
      <3> DEFINE sp == s \o p
      <3> HIDE DEF sp
      <3>3. SubSeq(sp \o q, 1, Len(sp)) = sp
        BY <2>2, <3>1, Parts DEF sp
      <3> QED
        BY <3>1, <3>2, <3>3 DEF sp
    <2> QED
      BY <2>7, <2>8
  <1> QED
    BY <1>2, <1>3

\* Nothing says nothing.
LEMMA Empty ==
  /\ << >> \in ByteSeq /\ Leads(<< >>, Blank) /\ Shape(Blank)
  /\ \A n \in 1 .. Len(<< >>) : FALSE
  <1>1. << >> \in ByteSeq /\ Len(<< >>) = 0
    BY DEF ByteSeq
  <1>2. ASSUME NEW t \in ByteSeq
        PROVE  Reaches(At(Blank, << >>, << >> \o t), At(Blank, << >>, t))
    <2>1. << >> \o t = t
      BY Concat
    <2> QED
      BY <2>1, ReachesSteps
  <1>3. \A n \in 1 .. Len(<< >>) : FALSE
    BY <1>1
  <1> QED
    BY <1>1, <1>2, <1>3, BlankShape DEF Leads

\* CodecInv holds at the start.
LEMMA CodecInitially == CodecInit => CodecInv
  <1> SUFFICES ASSUME CodecInit PROVE CodecInv
    OBVIOUS
  <1>1. payload = << >> /\ open = FALSE /\ body = << >> /\ want = Blank
    BY DEF CodecInit
  <1>2. Typed /\ Saying
    BY <1>1, Empty DEF Typed, Saying
  <1>3. Meant
    BY <1>1, Empty DEF Meant
  <1>4. Cuts
    BY <1>1, Empty DEF Cuts
  <1> QED
    BY <1>2, <1>3, <1>4 DEF CodecInv

\* What is put in the open message is added to what it says.
LEMMA SaysMore ==
  ASSUME Typed, Saying, open, NEW e \in ByteSeq, NEW n,
         n["kind"] = want["kind"],
         \A t \in ByteSeq : e \o t # << >> /\ ReadField(varint(e \o t), want) = [ok |-> TRUE, v |-> n, rest |-> t]
  PROVE  /\ body \o e \in ByteSeq
         /\ \A t \in ByteSeq, u \in ByteSeq :
               Reaches(At(Start(Blank, n["kind"]), (body \o e) \o t, u), At(n, t, u))
  <1>1. body \in ByteSeq
    BY DEF Typed
  <1>2. body \o e \in ByteSeq
    BY <1>1, Parts
  <1>3. ASSUME NEW t \in ByteSeq, NEW u \in ByteSeq
        PROVE  Reaches(At(Start(Blank, n["kind"]), (body \o e) \o t, u), At(n, t, u))
    <2>1. (body \o e) \o t = body \o (e \o t)
      BY <1>1, Assoc
    <2>2. e \o t \in ByteSeq
      BY Parts
    <2>3. Reaches(At(Start(Blank, want["kind"]), body \o (e \o t), u), At(want, e \o t, u))
      BY <2>2 DEF Saying
    <2>4. ReadOn(At(want, e \o t, u)) = At(n, t, u)
      <3> DEFINE s == e \o t
      <3>1. s # << >> /\ ReadField(varint(s), want) = [ok |-> TRUE, v |-> n, rest |-> t]
        OBVIOUS
      <3> HIDE DEF s
      <3>2. ReadOn(At(want, s, u)) = At(n, t, u)
        BY <3>1, InsideTurn
      <3> QED
        BY <3>2 DEF s
    <2> QED
      BY <2>1, <2>3, <2>4, ReachesSteps
  <1> QED
    BY <1>2, <1>3

\* CodecInv holds after every step.
LEMMA CodecStep ==
  CodecInv /\ [CodecNext]_codecVars => CodecInv'
  <1> SUFFICES ASSUME CodecInv, [CodecNext]_codecVars PROVE CodecInv'
    OBVIOUS
  <1> USE DEF CodecInv
  <1>1. ASSUME NEW k \in MsgKinds, Begin(k) PROVE CodecInv'
    <2>1. /\ ~open /\ open' = TRUE /\ body' = << >> /\ want' = Start(Blank, k)
          /\ payload' = payload /\ ends' = ends
      BY <1>1 DEF Begin, Start
    <2>2. Shape(want') /\ want'["kind"] = k
      BY <2>1, BlankShape
    <2>3. Typed'
      BY <2>1, <2>2, Empty, CodecAssumption DEF Typed
    <2>4. Meant'
      BY <2>1 DEF Meant
    <2>5. Saying'
      <3>1. ASSUME NEW t \in ByteSeq, NEW u \in ByteSeq
            PROVE  Reaches(At(Start(Blank, k), << >> \o t, u), At(Start(Blank, k), t, u))
        <4>1. << >> \o t = t
          BY Concat
        <4> QED
          BY <4>1, ReachesSteps
      <3> QED
        BY <2>1, <2>2, <3>1 DEF Saying
    <2>6. Cuts'
      BY <2>1 DEF Cuts
    <2> QED
      BY <2>3, <2>4, <2>5, <2>6
  <1>2. ASSUME NEW field \in FieldsOf(want["kind"]), NEW v \in Written(field.type), Put(field, v)
        PROVE  CodecInv'
    <2> DEFINE e == Tagged(field.f, field.type, v)
               n == Said(want, field, v)
    <2>1. /\ open /\ body' = body \o e /\ want' = n /\ Len(body') < Word
          /\ payload' = payload /\ open' = open /\ ends' = ends
      BY <1>2 DEF Put, Says, Said, With
    <2>2. Shape(n) /\ n["kind"] = want["kind"]
      BY SaidShape DEF Typed
    <2>3. ASSUME NEW t \in ByteSeq
          PROVE  /\ e \in ByteSeq /\ e \o t # << >>
                 /\ ReadField(varint(e \o t), want) = [ok |-> TRUE, v |-> n, rest |-> t]
      BY FieldComesBack
    <2>4. e \in ByteSeq
      BY <2>3, Empty
    <2> HIDE DEF e, n
    <2>5. /\ body \o e \in ByteSeq
          /\ \A t \in ByteSeq, u \in ByteSeq :
                Reaches(At(Start(Blank, n["kind"]), (body \o e) \o t, u), At(n, t, u))
      BY <2>1, <2>2, <2>3, <2>4, SaysMore
    <2>6. Typed' /\ Saying'
      BY <2>1, <2>2, <2>5 DEF Typed, Saying
    <2>7. Meant' /\ Cuts'
      BY <2>1 DEF Meant, Cuts
    <2> QED
      BY <2>6, <2>7
  <1>3. ASSUME NEW field \in FieldsOf(want["kind"]), field.type \in Repeated,
               NEW v \in Written(Element(field.type)), PutUnpacked(field, v)
        PROVE  CodecInv'
    <2> DEFINE e == Tagged(field.f, Element(field.type), v)
               n == Said(want, field, <<v>>)
    <2>1. /\ open /\ body' = body \o e /\ want' = n /\ Len(body') < Word
          /\ payload' = payload /\ open' = open /\ ends' = ends
      BY <1>3 DEF PutUnpacked, Says, Said, With
    <2>2. Shape(n) /\ n["kind"] = want["kind"]
      BY <1>3, SaidShape DEF Typed
    <2>3. ASSUME NEW t \in ByteSeq
          PROVE  /\ e \in ByteSeq /\ e \o t # << >>
                 /\ ReadField(varint(e \o t), want) = [ok |-> TRUE, v |-> n, rest |-> t]
      BY <1>3, ElementComesBack
    <2>4. e \in ByteSeq
      BY <2>3, Empty
    <2> HIDE DEF e, n
    <2>5. /\ body \o e \in ByteSeq
          /\ \A t \in ByteSeq, u \in ByteSeq :
                Reaches(At(Start(Blank, n["kind"]), (body \o e) \o t, u), At(n, t, u))
      BY <2>1, <2>2, <2>3, <2>4, SaysMore
    <2>6. Typed' /\ Saying'
      BY <2>1, <2>2, <2>5 DEF Typed, Saying
    <2>7. Meant' /\ Cuts'
      BY <2>1 DEF Meant, Cuts
    <2> QED
      BY <2>6, <2>7
  <1>4. CASE End
    <2> DEFINE k == want["kind"]
               e == wrap(k, body)
    <2>1. /\ open /\ open' = FALSE /\ body' = << >> /\ payload' = payload \o e
          /\ ends' = ends \cup {Len(payload \o e)} /\ want' = want
      BY <1>4 DEF End
    <2>2. k \in MsgKinds /\ body \in ByteSeq /\ payload \in ByteSeq /\ Len(body) < Word
      BY <2>1 DEF Typed
    <2>3. PICK w : Leads(payload, w)
      BY DEF Meant
    <2>4. ASSUME NEW t \in ByteSeq
          PROVE  /\ e \in ByteSeq /\ e # << >>
                 /\ ReadOn(At(w, << >>, e \o t)) = At(Start(w, k), body, t)
      <3> HIDE DEF k
      <3> QED
        BY <2>2, WrapTurn
    <2>5. e \in ByteSeq /\ e # << >> /\ Start(w, k) = Start(Blank, k)
      BY <2>4, Empty DEF Start
    <2>6. ASSUME NEW t \in ByteSeq
          PROVE  Reaches(At(w, << >>, e \o t), At(want, << >>, t))
      <3>1. Reaches(At(w, << >>, e \o t), At(Start(Blank, k), body, t))
        BY <2>4, <2>5, ReachesSteps
      <3>2. body \o << >> = body /\ << >> \in ByteSeq
        BY <2>2, Concat
      <3>3. Reaches(At(Start(Blank, k), body \o << >>, t), At(want, << >>, t))
        BY <2>1, <3>2 DEF Saying
      <3> QED
        BY <3>1, <3>2, <3>3, ReachesSteps
    <2> HIDE DEF e
    <2>7. payload \o e \in ByteSeq /\ Leads(payload \o e, want)
      BY <2>2, <2>3, <2>5, <2>6, OneMore
    <2>8. ReadOn(At(w, << >>, e)).ok /\ ReadOn(At(w, << >>, e)).rest = << >>
      <3>1. e \o << >> = e /\ << >> \in ByteSeq
        BY <2>5, Concat
      <3>2. ReadOn(At(w, << >>, e)) = At(Start(w, k), body, << >>)
        BY <2>4, <3>1
      <3> QED
        BY <3>2 DEF At
    <2>9. \A n \in 1 .. Len(payload \o e) : n \in ends \cup {Len(payload \o e)} \/ Fails(SubSeq(payload \o e, 1, n))
      BY <2>2, <2>3, <2>5, <2>8, CutsMore DEF Cuts
    <2>10. Typed' /\ Saying'
      BY <2>1, <2>7, Empty DEF Typed, Saying
    <2>11. Meant'
      BY <2>1, <2>7 DEF Meant
    <2>12. Cuts'
      BY <2>1, <2>9 DEF Cuts
    <2> QED
      BY <2>10, <2>11, <2>12
  <1>5. ASSUME NEW field \in Later(kNone), NEW v \in Written(field.type), PutBeside(field, v)
        PROVE  CodecInv'
    <2> DEFINE e == Tagged(field.f, field.type, v)
    <2>1. /\ ~open /\ payload' = payload \o e /\ ends' = ends \cup {Len(payload \o e)}
          /\ open' = open /\ body' = body /\ want' = want
      BY <1>5 DEF PutBeside
    <2>2. body \in ByteSeq /\ payload \in ByteSeq
      BY DEF Typed
    <2>3. Leads(payload, want)
      BY <2>1 DEF Meant
    <2>4. ASSUME NEW t \in ByteSeq
          PROVE  /\ e \in ByteSeq /\ e # << >>
                 /\ ReadOn(At(want, << >>, e \o t)) = At(want, << >>, t)
      BY BesideTurn
    <2>5. e \in ByteSeq /\ e # << >>
      BY <2>4, Empty
    <2>6. ASSUME NEW t \in ByteSeq
          PROVE  Reaches(At(want, << >>, e \o t), At(want, << >>, t))
      BY <2>4, ReachesSteps
    <2> HIDE DEF e
    <2>7. payload \o e \in ByteSeq /\ Leads(payload \o e, want)
      BY <2>2, <2>3, <2>5, <2>6, OneMore
    <2>8. ReadOn(At(want, << >>, e)).ok /\ ReadOn(At(want, << >>, e)).rest = << >>
      <3>1. e \o << >> = e /\ << >> \in ByteSeq
        BY <2>5, Concat
      <3>2. ReadOn(At(want, << >>, e)) = At(want, << >>, << >>)
        BY <2>4, <3>1
      <3> QED
        BY <3>2 DEF At
    <2>9. \A n \in 1 .. Len(payload \o e) : n \in ends \cup {Len(payload \o e)} \/ Fails(SubSeq(payload \o e, 1, n))
      BY <2>2, <2>3, <2>5, <2>8, CutsMore DEF Cuts
    <2>10. Typed' /\ Saying'
      BY <2>1, <2>7 DEF Typed, Saying
    <2>11. Meant'
      BY <2>1, <2>7 DEF Meant
    <2>12. Cuts'
      BY <2>1, <2>9 DEF Cuts
    <2> QED
      BY <2>10, <2>11, <2>12
  <1>6. CASE NextPayload
    <2>1. ~open /\ payload' = << >> /\ want' = Blank /\ open' = open /\ body' = body
      BY <1>6 DEF NextPayload
    <2>2. Typed' /\ Saying'
      BY <2>1, Empty DEF Typed, Saying
    <2>3. Meant'
      BY <2>1, Empty DEF Meant
    <2>4. Cuts'
      BY <2>1, Empty DEF Cuts
    <2> QED
      BY <2>2, <2>3, <2>4
  <1>7. CASE UNCHANGED codecVars
    BY <1>7 DEF codecVars, Typed, Meant, Saying, Cuts
  <1> QED
    BY <1>1, <1>2, <1>3, <1>4, <1>5, <1>6, <1>7 DEF CodecNext

\* What CodecInv says of what the driver makes of a payload.
LEMMA CodecInvUnderstood == CodecInv => Understood
  <1> SUFFICES ASSUME CodecInv PROVE Understood
    OBVIOUS
  <1>1. payload \in ByteSeq /\ Len(payload) \in Nat
    BY Parts DEF CodecInv, Typed
  <1>2. ASSUME ~open
        PROVE  decode(payload) = [ok |-> want.kind # kNone, v |-> want]
    <2> DEFINE y == At(want, << >>, << >>)
    <2>1. Reaches(At(Blank, << >>, payload \o << >>), y)
      BY <1>2, Empty DEF CodecInv, Meant, Leads
    <2>2. payload \o << >> = payload /\ Top(payload) = At(Blank, << >>, payload)
      BY <1>1, Concat, AtHas
    <2>3. ~Reading(y)
      BY AtHas
    <2>4. y.ok = TRUE /\ y.m = want
      BY AtHas
    <2> HIDE DEF y
    <2>5. decode(payload) = [ok |-> y.ok /\ y.m.kind # kNone, v |-> y.m]
      BY <1>1, <2>1, <2>2, <2>3, DecodeIs
    <2> QED
      BY <2>4, <2>5
  <1>3. ASSUME NEW n \in 1 .. Len(payload) - 1, decode(SubSeq(payload, 1, n)).ok PROVE n \in ends
    <2> DEFINE p == SubSeq(payload, 1, n)
    <2>1. n \in 1 .. Len(payload) /\ n \in 0 .. Len(payload)
      BY <1>1
    <2>2. p \in ByteSeq
      BY <1>1, <2>1, Halves
    <2> SUFFICES ASSUME Fails(p) PROVE FALSE
      BY <2>1 DEF CodecInv, Cuts
    <2>3. PICK z : ~z.ok /\ Reaches(At(Blank, << >>, p), z)
      BY DEF Fails
    <2>4. ~Reading(z)
      BY <2>3 DEF Reading
    <2>5. Top(p) = At(Blank, << >>, p)
      BY AtHas
    <2> HIDE DEF p
    <2>6. decode(p) = [ok |-> z.ok /\ z.m.kind # kNone, v |-> z.m]
      BY <2>2, <2>3, <2>4, <2>5, DecodeIs
    <2> DEFINE b == z.ok /\ z.m.kind # kNone
               m == z.m
    <2>7. b = FALSE
      BY <2>3
    <2>8. ~decode(p).ok
      <3>1. decode(p) = [ok |-> b, v |-> m]
        BY <2>6
      <3> HIDE DEF b, m
      <3>2. decode(p) = [ok |-> FALSE, v |-> m]
        BY <2>7, <3>1
      <3> QED
        BY <3>2
    <2> QED
      BY <1>3, <2>8 DEF p
  <1> QED
    BY <1>2, <1>3 DEF Understood

\* CodecInv is an invariant.
LEMMA CodecAlways == CodecSpec => []CodecInv
  <1>1. CodecInit => CodecInv
    BY CodecInitially
  <1>2. CodecInv /\ [CodecNext]_codecVars => CodecInv'
    BY CodecStep
  <1> QED
    BY <1>1, <1>2, PTL DEF CodecSpec

\* The driver understands what the app means: fields in any order and number,
\* packed or not, of a later schema, and of several messages the last one.  A
\* payload cut short inside a field is rejected.
THEOREM UnderstoodAlways == CodecSpec => []Understood
  <1>1. CodecInv => Understood
    BY CodecInvUnderstood
  <1> QED
    BY <1>1, CodecAlways, PTL


(***************************************************************************)
(* What the driver sends.                                                  *)
(***************************************************************************)

\* Setting a member leaves the others.
LEMMA WithHas ==
  ASSUME NEW m, m = [c \in Members |-> m[c]], NEW member \in Members, NEW x
  PROVE  LET n == With(m, member, x)
         IN  /\ n = [c \in Members |-> n[c]] /\ n[member] = x
             /\ \A c \in Members : c # member => n[c] = m[c]
  <1> DEFINE n == With(m, member, x)
  <1>1. n = [c \in Members |-> IF c = member THEN x ELSE m[c]]
    BY DEF With
  <1> HIDE DEF n
  <1>2. n = [c \in Members |-> n[c]] /\ n[member] = x /\ \A c \in Members : c # member => n[c] = m[c]
    BY <1>1
  <1> QED
    BY <1>2 DEF n

\* A message that has only begun.
LEMMA StartHas ==
  ASSUME NEW k
  PROVE  LET n == Start(Blank, k)
         IN  /\ n = [c \in Members |-> n[c]] /\ n["kind"] = k
             /\ \A c \in Members : c # "kind" => n[c] = Blank[c]
  <1> DEFINE b == Blank
             n == With(b, "kind", k)
  <1>1. b = [c \in Members |-> b[c]]
    BY BlankShape DEF Shape
  <1>2. Start(Blank, k) = n /\ "kind" \in Members
    BY DEF Start, With, Members
  <1> HIDE DEF b
  <1>3. n = [c \in Members |-> n[c]] /\ n["kind"] = k /\ \A c \in Members : c # "kind" => n[c] = b[c]
    BY <1>1, <1>2, WithHas
  <1> HIDE DEF n
  <1> QED
    BY <1>2, <1>3 DEF b

\* A number the driver writes is read again.
LEMMA IntTurn ==
  ASSUME NEW m, NEW f \in 1 .. 2, NEW v \in Ints, NEW t \in ByteSeq, NEW u \in ByteSeq
  PROVE  LET e == <<f * 8>> \o put_varint(Uint32(v))
             member == Member(m["kind"], f, 0)
         IN  /\ e \in ByteSeq /\ Len(e) <= 1 + MaxGroups
             /\ member = "none" => ReadOn(At(m, e \o t, u)) = At(m, t, u)
             /\ member \in Counters => ReadOn(At(m, e \o t, u)) = At(With(m, member, v), t, u)
  <1> DEFINE p == put_varint(f * 8 + Wire("int"))
             w == Uint32(v)
             b == put_varint(w)
             e == p \o b
             x == varint(p \o (b \o t))
             member == Member(m["kind"], f, 0)
             r == Value(x.rest, member, 0)
  <1>1. w \in 0 .. Word - 1 /\ Int32(w) = v
    BY Signed
  <1> HIDE DEF w
  <1>2. /\ varint(b \o t) = [ok |-> TRUE, v |-> w, rest |-> t]
        /\ b \in ByteSeq /\ Len(b) \in 1 .. MaxGroups
    BY <1>1, VarintComesBack
  <1>3. b \o t \in ByteSeq
    BY <1>2, Parts
  <1>4. "int" \in Types /\ Wire("int") = 0 /\ f \in 1 .. 20
    BY DEF Types, Wire
  <1>5. /\ p \in ByteSeq /\ p # << >>
        /\ x = [ok |-> TRUE, v |-> f * 8 + Wire("int"), rest |-> b \o t]
        /\ x.v % 8 = Wire("int") /\ x.v \div 8 = f
    <2> DEFINE u2 == b \o t
    <2> HIDE DEF u2
    <2>1. u2 \in ByteSeq
      BY <1>3 DEF u2
    <2>2. LET z == varint(p \o u2)
          IN  /\ p \in ByteSeq /\ p # << >>
              /\ z = [ok |-> TRUE, v |-> f * 8 + Wire("int"), rest |-> u2]
              /\ z.v % 8 = Wire("int") /\ z.v \div 8 = f
      BY <1>4, <2>1, TagComesBack
    <2> QED
      BY <2>2 DEF u2
  <1>6. p = <<f * 8>>
    <2> DEFINE n == f * 8
    <2>1. n \in 0 .. Word - 1 /\ n < 128 /\ n + 0 = n
      <3>1. n \in 0 .. 16
        OBVIOUS
      <3> HIDE DEF n
      <3> QED
        BY <3>1, CodecAssumption
    <2> HIDE DEF n
    <2>2. put_varint(n) = <<n>>
      BY <2>1, Empty, VarintComesBack
    <2>3. p = put_varint(n)
      BY <1>4, <2>1 DEF n
    <2> QED
      BY <2>2, <2>3 DEF n
  <1> HIDE DEF b, p
  <1>7. e \in ByteSeq /\ Len(e) = Len(p) + Len(b) /\ e \o t = p \o (b \o t) /\ e \o t # << >>
    <2>1. e \in ByteSeq /\ Len(e) = Len(p) + Len(b)
      BY <1>2, <1>5, Parts
    <2>2. e \o t = p \o (b \o t)
      <3>1. p \in ByteSeq /\ b \in ByteSeq /\ t \in ByteSeq
        BY <1>2, <1>5
      <3> QED
        BY ONLY <3>1, Assoc
    <2>3. p \o (b \o t) # << >>
      BY <1>3, <1>5, Concat
    <2> QED
      BY <2>1, <2>2, <2>3
  <1>8. Len(e) <= 1 + MaxGroups
    <2>1. Len(p) = 1
      BY <1>6
    <2> DEFINE l == Len(b)
    <2>2. l \in 1 .. MaxGroups /\ MaxGroups \in Nat /\ Len(e) = 1 + l
      BY <1>2, <1>7, <2>1, CodecAssumption
    <2> HIDE DEF l, e
    <2> QED
      BY <2>2
  <1>9. ReadField(x, m) = [ok |-> r.ok, v |-> IF r.ok THEN Set(m, member, r) ELSE m, rest |-> r.rest]
    BY <1>4, <1>5 DEF ReadField, Stored
  <1>10. x.rest = b \o t
    BY <1>5
  <1> HIDE DEF x, e
  <1>11. member \in Counters \cup {"none"} => r = [ok |-> TRUE, v |-> w, rest |-> t]
    <2> HIDE DEF member
    <2> SUFFICES ASSUME member \in Counters \cup {"none"} PROVE r = [ok |-> TRUE, v |-> w, rest |-> t]
      OBVIOUS
    <2>1. member # "q" /\ member # "pos"
      BY DEF Counters
    <2>2. r = skip(x.rest, 0)
      BY <2>1 DEF Value
    <2>3. \A s : skip(s, 0) = varint(s)
      BY DEF skip
    <2> QED
      BY <1>2, <1>10, <2>2, <2>3
  <1> HIDE DEF member, r
  <1>12. ASSUME NEW n, member \in Counters \cup {"none"}, Set(m, member, r) = n
         PROVE  ReadOn(At(m, e \o t, u)) = At(n, t, u)
    <2>1. r.ok = TRUE /\ r.rest = t
      BY <1>11, <1>12
    <2>2. ReadField(x, m) = [ok |-> TRUE, v |-> n, rest |-> t]
      BY <1>9, <1>12, <2>1
    <2>3. ReadField(varint(e \o t), m) = [ok |-> TRUE, v |-> n, rest |-> t]
      BY <1>7, <2>2 DEF x
    <2> DEFINE s == e \o t
    <2> HIDE DEF s
    <2>4. s # << >> /\ ReadField(varint(s), m) = [ok |-> TRUE, v |-> n, rest |-> t]
      BY <1>7, <2>3 DEF s
    <2>5. ReadOn(At(m, s, u)) = At(n, t, u)
      BY <2>4, InsideTurn
    <2> QED
      BY <2>5 DEF s
  <1>13. CASE member = "none"
    <2>1. Set(m, member, r) = m
      BY <1>13, SetDoes
    <2>2. member \notin Counters
      BY <1>13 DEF Counters
    <2> QED
      BY <1>6, <1>7, <1>8, <1>12, <1>13, <2>1, <2>2 DEF e, b, w, member
  <1>14. CASE member \in Counters
    <2>1. r.v = w
      BY <1>11, <1>14
    <2>2. Set(m, member, r) = With(m, member, v)
      BY <1>1, <1>14, <2>1, SetDoes
    <2>3. member # "none"
      BY <1>14 DEF Counters
    <2> QED
      BY <1>6, <1>7, <1>8, <1>12, <1>14, <2>2, <2>3 DEF e, b, w, member
  <1> QED
    BY <1>6, <1>7, <1>8, <1>13, <1>14 DEF e, b, w, member

\* So is a member that is left out when it is zero.
LEMMA OptionalTurn ==
  ASSUME NEW m, m = [c \in Members |-> m[c]], NEW f \in 1 .. 2, NEW v \in Ints \cup {0},
         NEW t \in ByteSeq, NEW u \in ByteSeq,
         Member(m["kind"], f, 0) \in Counters, m[Member(m["kind"], f, 0)] = 0
  PROVE  LET e == Optional(f * 8, v)
         IN  /\ e \in ByteSeq /\ Len(e) <= 1 + MaxGroups
             /\ Reaches(At(m, e \o t, u), At(With(m, Member(m["kind"], f, 0), v), t, u))
  <1> DEFINE member == Member(m["kind"], f, 0)
             e == Optional(f * 8, v)
  <1>0. member \in Counters /\ member \in Members /\ m[member] = 0
    BY DEF Counters, Members
  <1>1. CASE v = 0
    <2>1. e = << >>
      BY <1>1 DEF Optional
    <2>2. << >> \in ByteSeq /\ Len(<< >>) <= 1 + MaxGroups /\ << >> \o t = t
      <3>1. << >> \in ByteSeq /\ << >> \o t = t /\ Len(<< >>) = 0
        BY Concat
      <3>2. 0 <= 1 + MaxGroups
        BY CodecAssumption
      <3> QED
        BY <3>1, <3>2
    <2>3. With(m, member, v) = m
      <3> HIDE DEF member
      <3> DEFINE n == With(m, member, v)
      <3>1. n = [c \in Members |-> n[c]] /\ n[member] = v /\ \A c \in Members : c # member => n[c] = m[c]
        BY <1>0, WithHas
      <3> HIDE DEF n
      <3>2. \A c \in Members : n[c] = m[c]
        BY <1>0, <1>1, <3>1
      <3>3. n = m
        BY <3>1, <3>2
      <3> QED
        BY <3>3 DEF n
    <2> QED
      BY <2>1, <2>2, <2>3, ReachesSteps
  <1>2. CASE v # 0
    <2>1. e = <<f * 8>> \o put_varint(Uint32(v)) /\ v \in Ints
      BY <1>2 DEF Optional
    <2>2. /\ e \in ByteSeq /\ Len(e) <= 1 + MaxGroups
          /\ ReadOn(At(m, e \o t, u)) = At(With(m, member, v), t, u)
      <3> DEFINE d == <<f * 8>> \o put_varint(Uint32(v))
      <3>1. /\ d \in ByteSeq /\ Len(d) <= 1 + MaxGroups
            /\ member \in Counters => ReadOn(At(m, d \o t, u)) = At(With(m, member, v), t, u)
        BY <2>1, IntTurn
      <3>2. e = d
        BY <2>1
      <3> HIDE DEF d, e, member
      <3> QED
        BY <1>0, <3>1, <3>2
    <2> QED
      BY <2>2, ReachesSteps
  <1> QED
    BY <1>1, <1>2

\* Two sequences of one make a pair.
LEMMA Pair ==
  ASSUME NEW S, NEW x \in S, NEW y \in S
  PROVE  <<x>> \o <<y>> = <<x, y>>
  <1>1. /\ <<x>> \in Seq(S) /\ <<y>> \in Seq(S) /\ <<x, y>> \in Seq(S)
        /\ Len(<<x>>) = 1 /\ Len(<<y>>) = 1 /\ Len(<<x, y>>) = 2
    OBVIOUS
  <1>2. <<x>> \o <<y>> \in Seq(S) /\ Len(<<x>> \o <<y>>) = 2
    BY <1>1, ConcatProperties
  <1>3. (<<x>> \o <<y>>)[1] = x /\ (<<x>> \o <<y>>)[2] = y
    BY <1>1, ConcatProperties
  <1>4. <<x, y>>[1] = x /\ <<x, y>>[2] = y
    OBVIOUS
  <1>5. \A i \in 1 .. 2 : (<<x>> \o <<y>>)[i] = <<x, y>>[i]
    BY <1>3, <1>4
  <1> QED
    BY <1>1, <1>2, <1>5, SeqEqual

\* Lists of floats, or of doubles.
Numbers(size) == Seq([1 .. size -> Byte])

\* A packed field the driver writes is read again.
LEMMA PackedTurn ==
  ASSUME NEW m, NEW f \in 1 .. 15, NEW k, k = f * 8 + 2,
         NEW size \in Nat \ {0}, NEW q \in Numbers(size),
         NEW n, n = size * Len(q), n < 128, NEW t \in ByteSeq, NEW u \in ByteSeq,
         NEW member, member = Member(m["kind"], f, 2),
         \/ member = "q" /\ size = DoubleLen
         \/ member = "pos" /\ size = FloatLen
  PROVE  LET e == <<k, n>> \o Joined(q, size)
         IN  /\ e \in ByteSeq /\ Len(e) = 2 + n
             /\ ReadOn(At(m, e \o t, u)) = At(With(m, member, m[member] \o q), t, u)
  <1> DEFINE j == Joined(q, size)
             c == Block(j)
             p == put_varint(f * 8 + Wire("text"))
             x == varint(p \o (c \o t))
             e == <<k, n>> \o j
             r == Value(x.rest, member, 2)
  <1>1. /\ j \in ByteSeq /\ Len(j) = n
        /\ Split([ok |-> TRUE, v |-> j, rest |-> t], size) = [ok |-> TRUE, v |-> q, rest |-> t]
    BY ElementsComeBack DEF Numbers
  <1>2. n \in Nat /\ n < Word /\ n < 128 /\ n \in 0 .. Word - 1 /\ n \in Byte
    <2>1. Len(j) \in Nat
      BY <1>1, Parts
    <2>2. n \in Nat
      BY <1>1, <2>1
    <2>3. \A i \in Nat : i < 128 => i < Word /\ i \in 0 .. Word - 1 /\ i \in Byte
      BY CodecAssumption DEF Byte
    <2> QED
      BY <2>2, <2>3
  <1> HIDE DEF j
  <1>3. /\ c \in ByteSeq /\ sub(c \o t) = [ok |-> TRUE, v |-> j, rest |-> t]
        /\ c = <<n>> \o j
    <2>1. put_varint(n) = <<n>>
      BY <1>2, Empty, VarintComesBack
    <2>2. c = put_varint(n) \o j
      BY <1>1 DEF Block
    <2> QED
      BY <1>1, <1>2, <2>1, <2>2, BlockComesBack
  <1>4. "text" \in Types /\ Wire("text") = 2 /\ f \in 1 .. 20
    BY DEF Types, Wire
  <1>5. c \o t \in ByteSeq
    BY <1>3, Parts
  <1>6. /\ p \in ByteSeq /\ p # << >>
        /\ x = [ok |-> TRUE, v |-> f * 8 + Wire("text"), rest |-> c \o t]
        /\ x.v % 8 = Wire("text") /\ x.v \div 8 = f
    <2> HIDE DEF c
    <2> QED
      BY <1>4, <1>5, TagComesBack
  <1>7. k \in Byte /\ p = <<k>>
    <2>1. k \in 0 .. 122
      OBVIOUS
    <2>2. p = put_varint(k)
      BY <1>4
    <2> HIDE DEF p
    <2>3. k \in 0 .. Word - 1 /\ k < 128 /\ k \in Byte
      BY <2>1, CodecAssumption DEF Byte
    <2>4. put_varint(k) = <<k>>
      BY <2>3, Empty, VarintComesBack
    <2> QED
      BY <2>2, <2>3, <2>4
  <1> HIDE DEF c, p
  <1>8. e = p \o c
    <2>1. <<k, n>> = <<k>> \o <<n>>
      BY Pair
    <2>2. <<k>> \in ByteSeq /\ <<n>> \in ByteSeq
      BY <1>2, <1>7 DEF ByteSeq
    <2>3. (<<k>> \o <<n>>) \o j = <<k>> \o (<<n>> \o j)
      BY <1>1, <2>2, Assoc
    <2> QED
      BY <1>3, <1>7, <2>1, <2>3
  <1>9. Len(e) = 2 + n
    <2>1. <<k, n>> \in ByteSeq /\ Len(<<k, n>>) = 2
      BY <1>2, <1>7 DEF ByteSeq
    <2>2. Len(<<k, n>> \o j) = Len(<<k, n>>) + Len(j)
      BY <1>1, <2>1, Parts
    <2>3. Len(<<k, n>> \o j) = 2 + n
      BY <1>1, <2>1, <2>2
    <2> QED
      BY <2>3
  <1> DEFINE s == e \o t
  <1>10. e \in ByteSeq /\ s = p \o (c \o t) /\ s # << >>
    <2> HIDE DEF e
    <2>1. e \in ByteSeq
      BY <1>3, <1>6, <1>8, Parts
    <2>2. s = p \o (c \o t)
      <3>1. p \in ByteSeq /\ c \in ByteSeq /\ t \in ByteSeq
        BY <1>3, <1>6
      <3>2. (p \o c) \o t = p \o (c \o t)
        BY ONLY <3>1, Assoc
      <3> QED
        BY <1>8, <3>2
    <2>3. p \o (c \o t) # << >>
      BY <1>5, <1>6, Concat
    <2> QED
      BY <2>1, <2>2, <2>3
  <1>11. ReadField(x, m) = [ok |-> r.ok, v |-> IF r.ok THEN Set(m, member, r) ELSE m, rest |-> r.rest]
    BY <1>4, <1>6 DEF ReadField, Stored
  <1>12. x.rest = c \o t
    BY <1>6
  <1> HIDE DEF x, e, s
  <1>13. r = [ok |-> TRUE, v |-> q, rest |-> t]
    <2>1. r = repeated(x.rest, 2, size)
      BY DEF Value
    <2>2. \A b : repeated(b, 2, size) = Split(sub(b), size)
      BY DEF repeated
    <2> QED
      BY <1>1, <1>3, <1>12, <2>1, <2>2
  <1> HIDE DEF r
  <1>14. r.ok = TRUE /\ r.rest = t /\ r.v = q
    BY <1>13
  <1>15. Set(m, member, r) = With(m, member, m[member] \o r.v)
    BY SetDoes
  <1> DEFINE w == With(m, member, m[member] \o q)
  <1>16. ReadField(varint(s), m) = [ok |-> TRUE, v |-> w, rest |-> t]
    BY <1>10, <1>11, <1>14, <1>15 DEF x
  <1> HIDE DEF w
  <1>17. ReadOn(At(m, s, u)) = At(w, t, u)
    <2>1. s # << >> /\ ReadField(varint(s), m) = [ok |-> TRUE, v |-> w, rest |-> t]
      BY <1>10, <1>16
    <2> QED
      BY <2>1, InsideTurn
  <1> QED
    BY <1>9, <1>10, <1>17 DEF e, s, j, w

\* A message alone is decoded as what its fields lead to.
LEMMA MessageDecodes ==
  ASSUME NEW k \in MsgKinds, NEW b \in ByteSeq, Len(b) < Word, NEW n,
         Reaches(At(Start(Blank, k), b, << >>), At(n, << >>, << >>))
  PROVE  decode(wrap(k, b)) = [ok |-> n["kind"] # kNone, v |-> n]
  <1> DEFINE s == wrap(k, b)
             y == At(n, << >>, << >>)
  <1>1. s \in ByteSeq /\ ReadOn(At(Blank, << >>, s \o << >>)) = At(Start(Blank, k), b, << >>)
    BY WrapTurn, Empty
  <1> HIDE DEF s
  <1>2. s \o << >> = s /\ Top(s) = At(Blank, << >>, s)
    BY <1>1, Concat, AtHas
  <1>3. Reaches(Top(s), y)
    BY <1>1, <1>2, ReachesSteps
  <1>4. ~Reading(y) /\ y.ok = TRUE /\ y.m = n
    BY AtHas
  <1> HIDE DEF y
  <1>5. decode(s) = [ok |-> y.ok /\ y.m.kind # kNone, v |-> y.m]
    BY <1>1, <1>3, <1>4, DecodeIs
  <1> QED
    BY <1>4, <1>5 DEF s

\* What the driver says of a tracker is what it means.
LEMMA StatusComesBack ==
  ASSUME NEW m, Shape(m), m["kind"] = kTrackerStatus
  PROVE  decode(encode_status(m.tracker_id, m.status)) =
            [ok |-> TRUE, v |-> [m EXCEPT !.battery = Zero]]
  <1> DEFINE id == m["tracker_id"]
             st == m["status"]
             n0 == Start(Blank, 3)
             n1 == With(n0, "tracker_id", id)
             n2 == With(n1, "status", st)
             o1 == Optional(8, id)
             o2 == Optional(16, st)
             z  == [m EXCEPT !.battery = Zero]
  <1>1. id \in Ints \cup {0} /\ st \in Ints \cup {0} /\ m = [c \in Members |-> m[c]]
    BY DEF Shape
  <1>2. {"kind", "tracker_id", "status", "battery"} \subseteq Members
    BY DEF Members
  <1>3. Blank["tracker_id"] = 0 /\ Blank["status"] = 0 /\ Blank["battery"] = Zero
    BY DEF Blank
  <1>4. Member(3, 1, 0) = "tracker_id" /\ Member(3, 2, 0) = "status"
    BY DEF Member, kTrackerStatus
  <1>5. {"tracker_id", "status"} \subseteq Counters
    BY DEF Counters
  <1> HIDE DEF id, st
  <1>6. /\ n0 = [c \in Members |-> n0[c]] /\ n0["kind"] = 3
        /\ \A c \in Members : c # "kind" => n0[c] = Blank[c]
    BY StartHas
  <1> HIDE DEF n0
  <1>7. /\ n1 = [c \in Members |-> n1[c]] /\ n1["tracker_id"] = id
        /\ \A c \in Members : c # "tracker_id" => n1[c] = n0[c]
    BY <1>2, <1>6, WithHas
  <1> HIDE DEF n1
  <1>8. /\ n2 = [c \in Members |-> n2[c]] /\ n2["status"] = st
        /\ \A c \in Members : c # "status" => n2[c] = n1[c]
    BY <1>2, <1>7, WithHas
  <1> HIDE DEF n2
  <1>9. n0["tracker_id"] = 0 /\ n1["kind"] = 3 /\ n1["status"] = 0 /\ n2["kind"] = 3
    <2>1. n0["tracker_id"] = 0 /\ n0["status"] = 0
      BY <1>2, <1>3, <1>6
    <2> QED
      BY <1>2, <1>6, <1>7, <1>8, <2>1
  <1>10. z = [c \in Members |-> IF c = "battery" THEN Zero ELSE m[c]]
    BY <1>1
  <1>11. n2 = z
    <2> HIDE DEF z
    <2>1. ASSUME NEW c \in Members PROVE n2[c] = IF c = "battery" THEN Zero ELSE m[c]
      <3>1. CASE c = "kind"
        BY <1>9, <3>1 DEF kTrackerStatus
      <3>2. CASE c = "tracker_id"
        BY <1>2, <1>7, <1>8, <3>2 DEF id
      <3>3. CASE c = "status"
        BY <1>8, <3>3 DEF st
      <3>4. CASE c \notin {"kind", "tracker_id", "status"}
        <4>1. n2[c] = Blank[c]
          BY <1>6, <1>7, <1>8, <3>4
        <4>2. c # "battery" => m[c] = Blank[c]
          BY <3>4 DEF Shape, Own, kTrackerStatus
        <4> QED
          BY <1>3, <4>1, <4>2
      <3> QED
        BY <3>1, <3>2, <3>3, <3>4
    <2> QED
      BY <1>8, <1>10, <2>1
  <1> HIDE DEF z
  <1>12. /\ << >> \in ByteSeq /\ 1 * 8 = 8 /\ 2 * 8 = 16 /\ 1 \in 1 .. 2 /\ 2 \in 1 .. 2
    BY Empty
  <1>13. /\ o2 \in ByteSeq /\ Len(o2) <= 1 + MaxGroups
         /\ Reaches(At(n1, o2 \o << >>, << >>), At(n2, << >>, << >>))
    <2> DEFINE member == Member(n1["kind"], 2, 0)
               e == Optional(2 * 8, st)
    <2>0. member = "status"
      BY <1>4, <1>9
    <2>1. member \in Counters /\ n1[member] = 0
      BY <1>5, <1>9, <2>0
    <2>2. /\ e \in ByteSeq /\ Len(e) <= 1 + MaxGroups
          /\ Reaches(At(n1, e \o << >>, << >>), At(With(n1, member, st), << >>, << >>))
      BY <1>1, <1>7, <1>12, <2>1, OptionalTurn
    <2> QED
      BY <1>12, <2>0, <2>2 DEF n2
  <1>14. /\ o1 \in ByteSeq /\ Len(o1) <= 1 + MaxGroups
         /\ Reaches(At(n0, o1 \o o2, << >>), At(n1, o2, << >>))
    <2> HIDE DEF o2
    <2> DEFINE member == Member(n0["kind"], 1, 0)
               e == Optional(1 * 8, id)
    <2>0. member = "tracker_id"
      BY <1>4, <1>6
    <2>1. member \in Counters /\ n0[member] = 0
      BY <1>5, <1>9, <2>0
    <2>2. /\ e \in ByteSeq /\ Len(e) <= 1 + MaxGroups
          /\ Reaches(At(n0, e \o o2, << >>), At(With(n0, member, id), o2, << >>))
      BY <1>1, <1>6, <1>12, <1>13, <2>1, OptionalTurn
    <2> QED
      BY <1>12, <2>0, <2>2 DEF n1
  <1> DEFINE b == o1 \o o2
  <1> HIDE DEF o1, o2
  <1>15. b \in ByteSeq /\ Len(b) < Word
    <2>1. b \in ByteSeq /\ Len(b) = Len(o1) + Len(o2) /\ Len(o1) \in Nat /\ Len(o2) \in Nat
      BY <1>13, <1>14, Parts
    <2> DEFINE l1 == Len(o1)
               l2 == Len(o2)
               l  == Len(b)
    <2>2. l = l1 + l2 /\ l1 \in Nat /\ l2 \in Nat /\ l1 <= 1 + MaxGroups /\ l2 <= 1 + MaxGroups
      BY <1>13, <1>14, <2>1
    <2> HIDE DEF l, l1, l2
    <2>3. l < Word
      BY <2>2, CodecAssumption
    <2> QED
      BY <2>1, <2>3 DEF l
  <1>16. Reaches(At(n0, b, << >>), At(n2, << >>, << >>))
    <2>1. o2 \o << >> = o2
      BY <1>13, Concat
    <2> QED
      BY <1>13, <1>14, <2>1, ReachesSteps
  <1> HIDE DEF b
  <1>17. decode(wrap(3, b)) = [ok |-> n2["kind"] # kNone, v |-> n2]
    BY <1>15, <1>16, MessageDecodes DEF MsgKinds, n0
  <1>18. encode_status(m.tracker_id, m.status) = wrap(3, b)
    BY DEF encode_status, kTrackerStatus, b, o1, o2, id, st
  <1>19. decode(wrap(3, b)) = [ok |-> TRUE, v |-> z]
    <2>1. (n2["kind"] # kNone) = TRUE
      BY <1>9 DEF kNone
    <2> QED
      BY <1>11, <1>17, <2>1
  <1> QED
    BY <1>18, <1>19 DEF z

\* Where the driver says a tracker is, is what it means.
LEMMA PositionComesBack ==
  ASSUME NEW m, Shape(m), m["kind"] = kPosition, Len(m["q"]) = 4, Len(m["pos"]) = 3
  PROVE  decode(encode_position(m.tracker_id, m.q, m.pos)) = [ok |-> TRUE, v |-> m]
  <1> DEFINE id  == m["tracker_id"]
             q   == m["q"]
             pos == m["pos"]
             n0  == Start(Blank, 1)
             n1  == With(n0, "tracker_id", id)
             n2  == With(n1, "q", q)
             n3  == With(n2, "pos", pos)
             o   == Optional(8, id)
             p1  == <<82, 4 * DoubleLen>> \o Joined(q, DoubleLen)
             p2  == <<90, 3 * FloatLen>> \o Joined(pos, FloatLen)
  <1>1. /\ id \in Ints \cup {0} /\ m = [c \in Members |-> m[c]]
        /\ q \in Seq(Doubles) /\ pos \in Seq(Floats) /\ Len(q) = 4 /\ Len(pos) = 3
    BY DEF Shape
  <1>2. {"kind", "tracker_id", "q", "pos"} \subseteq Members
    BY DEF Members
  <1>3. Blank["tracker_id"] = 0 /\ Blank["q"] = << >> /\ Blank["pos"] = << >>
    BY DEF Blank
  <1>4. Member(1, 1, 0) = "tracker_id" /\ Member(1, 10, 2) = "q" /\ Member(1, 11, 2) = "pos"
    BY DEF Member, kTrackerStatus
  <1>5. "tracker_id" \in Counters
    BY DEF Counters
  <1> HIDE DEF id, q, pos
  <1>6. /\ n0 = [c \in Members |-> n0[c]] /\ n0["kind"] = 1
        /\ \A c \in Members : c # "kind" => n0[c] = Blank[c]
    BY StartHas
  <1> HIDE DEF n0
  <1>7. /\ n1 = [c \in Members |-> n1[c]] /\ n1["tracker_id"] = id
        /\ \A c \in Members : c # "tracker_id" => n1[c] = n0[c]
    BY <1>2, <1>6, WithHas
  <1> HIDE DEF n1
  <1>8. /\ n2 = [c \in Members |-> n2[c]] /\ n2["q"] = q
        /\ \A c \in Members : c # "q" => n2[c] = n1[c]
    BY <1>2, <1>7, WithHas
  <1> HIDE DEF n2
  <1>9. /\ n3 = [c \in Members |-> n3[c]] /\ n3["pos"] = pos
        /\ \A c \in Members : c # "pos" => n3[c] = n2[c]
    BY <1>2, <1>8, WithHas
  <1> HIDE DEF n3
  <1>10. /\ n0["tracker_id"] = 0 /\ n1["kind"] = 1 /\ n2["kind"] = 1 /\ n3["kind"] = 1
         /\ n1["q"] = << >> /\ n2["pos"] = << >>
    <2>1. n0["tracker_id"] = 0 /\ n0["q"] = << >> /\ n0["pos"] = << >>
      BY <1>2, <1>3, <1>6
    <2> QED
      BY <1>2, <1>6, <1>7, <1>8, <1>9, <2>1
  <1>11. n3 = m
    <2>1. ASSUME NEW c \in Members PROVE n3[c] = m[c]
      <3>1. CASE c = "kind"
        BY <1>10, <3>1 DEF kPosition
      <3>2. CASE c = "tracker_id"
        BY <1>2, <1>7, <1>8, <1>9, <3>2 DEF id
      <3>3. CASE c = "q"
        BY <1>2, <1>8, <1>9, <3>3 DEF q
      <3>4. CASE c = "pos"
        BY <1>9, <3>4 DEF pos
      <3>5. CASE c \notin {"kind", "tracker_id", "q", "pos"}
        <4>1. n3[c] = Blank[c]
          BY <1>6, <1>7, <1>8, <1>9, <3>5
        <4>2. m[c] = Blank[c]
          BY <3>5 DEF Shape, Own, kPosition
        <4> QED
          BY <4>1, <4>2
      <3> QED
        BY <3>1, <3>2, <3>3, <3>4, <3>5
    <2> QED
      BY <1>1, <1>9, <2>1
  <1>12. /\ << >> \in ByteSeq /\ 1 * 8 = 8 /\ 10 * 8 + 2 = 82 /\ 11 * 8 + 2 = 90
         /\ 1 \in 1 .. 2 /\ 10 \in 1 .. 15 /\ 11 \in 1 .. 15
    BY Empty
  <1>13. /\ DoubleLen \in Nat \ {0} /\ FloatLen \in Nat \ {0}
         /\ DoubleLen * Len(q) = 4 * DoubleLen /\ FloatLen * Len(pos) = 3 * FloatLen
         /\ 4 * DoubleLen < 128 /\ 3 * FloatLen < 128
    <2>1. /\ DoubleLen \in Nat \ {0} /\ FloatLen \in Nat \ {0}
          /\ 4 * DoubleLen < 128 /\ 3 * FloatLen < 128
      BY CodecAssumption
    <2>2. DoubleLen * 4 = 4 * DoubleLen /\ FloatLen * 3 = 3 * FloatLen
      BY <2>1
    <2>3. DoubleLen * Len(q) = DoubleLen * 4 /\ FloatLen * Len(pos) = FloatLen * 3
      BY <1>1
    <2> QED
      BY <2>1, <2>2, <2>3
  <1>14. q \in Numbers(DoubleLen) /\ pos \in Numbers(FloatLen)
    <2> DEFINE D == [1 .. DoubleLen -> Byte]
               F == [1 .. FloatLen -> Byte]
    <2>1. Doubles \subseteq D /\ Floats \subseteq F
      BY CodecAssumption
    <2> HIDE DEF D, F
    <2>2. q \in Seq(D) /\ pos \in Seq(F)
      BY <1>1, <2>1
    <2> QED
      BY <2>2 DEF D, F, Numbers
  <1>15. /\ p2 \in ByteSeq /\ Len(p2) = 2 + 3 * FloatLen
         /\ ReadOn(At(n2, p2 \o << >>, << >>)) = At(n3, << >>, << >>)
    <2> DEFINE n == 3 * FloatLen
    <2>1. Member(n2["kind"], 11, 2) = "pos"
      BY <1>4, <1>10
    <2>2. n = FloatLen * Len(pos) /\ n < 128
      BY <1>13
    <2> HIDE DEF n
    <2> DEFINE e    == <<90, n>> \o Joined(pos, FloatLen)
               none == << >>
    <2>3. none \in ByteSeq
      BY <1>12
    <2> HIDE DEF none
    <2>4. /\ e \in ByteSeq /\ Len(e) = 2 + n
          /\ ReadOn(At(n2, e \o none, none)) = At(With(n2, "pos", n2["pos"] \o pos), none, none)
      BY <1>12, <1>13, <1>14, <2>1, <2>2, <2>3, PackedTurn, SMTT(30)
    <2>5. n2["pos"] \o pos = pos
      BY <1>1, <1>10
    <2> QED
      BY <2>4, <2>5 DEF n, n3, none
  <1>16. /\ p1 \in ByteSeq /\ Len(p1) = 2 + 4 * DoubleLen
         /\ ReadOn(At(n1, p1 \o p2, << >>)) = At(n2, p2, << >>)
    <2> HIDE DEF p2
    <2> DEFINE n == 4 * DoubleLen
    <2>1. Member(n1["kind"], 10, 2) = "q"
      BY <1>4, <1>10
    <2>2. n = DoubleLen * Len(q) /\ n < 128
      BY <1>13
    <2> HIDE DEF n
    <2> DEFINE e == <<82, n>> \o Joined(q, DoubleLen)
    <2>3. /\ e \in ByteSeq /\ Len(e) = 2 + n
          /\ ReadOn(At(n1, e \o p2, << >>)) = At(With(n1, "q", n1["q"] \o q), p2, << >>)
      BY <1>12, <1>13, <1>14, <1>15, <2>1, <2>2, PackedTurn, SMTT(30)
    <2>4. n1["q"] \o q = q
      BY <1>1, <1>10
    <2> QED
      BY <2>3, <2>4 DEF n, n2
  <1> DEFINE ps == p1 \o p2
  <1>17. ps \in ByteSeq /\ Len(ps) = Len(p1) + Len(p2)
    <2> HIDE DEF p1, p2
    <2> QED
      BY <1>15, <1>16, Parts
  <1>18. /\ o \in ByteSeq /\ Len(o) <= 1 + MaxGroups
         /\ Reaches(At(n0, o \o ps, << >>), At(n1, ps, << >>))
    <2> HIDE DEF ps
    <2> DEFINE member == Member(n0["kind"], 1, 0)
               e == Optional(1 * 8, id)
    <2>0. member = "tracker_id"
      BY <1>4, <1>6
    <2>1. member \in Counters /\ n0[member] = 0
      BY <1>5, <1>10, <2>0
    <2>2. /\ e \in ByteSeq /\ Len(e) <= 1 + MaxGroups
          /\ Reaches(At(n0, e \o ps, << >>), At(With(n0, member, id), ps, << >>))
      BY <1>1, <1>6, <1>12, <1>17, <2>1, OptionalTurn
    <2> QED
      BY <1>12, <2>0, <2>2 DEF n1
  <1> DEFINE b == o \o ps
             bb == o \o <<82, 4 * DoubleLen>> \o Joined(q, DoubleLen)
                     \o <<90, 3 * FloatLen>> \o Joined(pos, FloatLen)
  <1>19. bb = b
    <2> DEFINE h1 == <<82, 4 * DoubleLen>>
               h2 == <<90, 3 * FloatLen>>
               j1 == Joined(q, DoubleLen)
               j2 == Joined(pos, FloatLen)
    <2>1. h1 \in ByteSeq /\ h2 \in ByteSeq
      <3>1. 82 \in Byte /\ 90 \in Byte /\ 4 * DoubleLen \in Byte /\ 3 * FloatLen \in Byte
        BY <1>13 DEF Byte
      <3> QED
        BY <3>1 DEF ByteSeq
    <2>2. j1 \in ByteSeq /\ j2 \in ByteSeq
      BY <1>13, <1>14, ElementsComeBack DEF Numbers
    <2>3. bb = (((o \o h1) \o j1) \o h2) \o j2 /\ p1 = h1 \o j1 /\ p2 = h2 \o j2
      OBVIOUS
    <2> HIDE DEF o, h1, h2, j1, j2, p1, p2, bb
    <2>4. (o \o h1) \o j1 = o \o p1
      <3>1. o \in ByteSeq /\ h1 \in ByteSeq /\ j1 \in ByteSeq /\ p1 = h1 \o j1
        BY <1>18, <2>1, <2>2, <2>3
      <3> QED
        BY ONLY <3>1, Assoc
    <2>5. o \o p1 \in ByteSeq
      BY <1>16, <1>18, Parts
    <2>6. ((o \o p1) \o h2) \o j2 = (o \o p1) \o p2
      <3>1. o \o p1 \in ByteSeq /\ h2 \in ByteSeq /\ j2 \in ByteSeq /\ p2 = h2 \o j2
        BY <2>1, <2>2, <2>3, <2>5
      <3> QED
        BY ONLY <3>1, Assoc
    <2>7. (o \o p1) \o p2 = o \o ps
      <3>1. o \in ByteSeq /\ p1 \in ByteSeq /\ p2 \in ByteSeq
        BY <1>15, <1>16, <1>18
      <3> QED
        BY ONLY <3>1, Assoc DEF ps
    <2> QED
      BY <2>3, <2>4, <2>6, <2>7
  <1> HIDE DEF o, p1, p2, ps
  <1>20. b \in ByteSeq /\ Len(b) < Word
    <2>1. b \in ByteSeq /\ Len(b) = Len(o) + Len(ps) /\ Len(o) \in Nat
      BY <1>17, <1>18, Parts
    <2> DEFINE lo == Len(o)
               l  == Len(b)
    <2>2. l = lo + (2 + 4 * DoubleLen) + (2 + 3 * FloatLen) /\ lo \in Nat /\ lo <= 1 + MaxGroups
      BY <1>15, <1>16, <1>17, <1>18, <2>1
    <2> HIDE DEF l, lo
    <2>3. l < Word
      BY <1>13, <2>2, CodecAssumption
    <2> QED
      BY <2>1, <2>3 DEF l
  <1>21. Reaches(At(n0, b, << >>), At(n3, << >>, << >>))
    <2>1. p2 \o << >> = p2
      BY <1>15, Concat
    <2>2. Reaches(At(n1, ps, << >>), At(n2, p2, << >>))
      BY <1>16, ReachesSteps DEF ps
    <2>3. Reaches(At(n2, p2, << >>), At(n3, << >>, << >>))
      BY <1>15, <2>1, ReachesSteps
    <2> QED
      BY <1>18, <2>2, <2>3, ReachesSteps
  <1> HIDE DEF b
  <1>22. decode(wrap(1, b)) = [ok |-> n3["kind"] # kNone, v |-> n3]
    BY <1>20, <1>21, MessageDecodes DEF MsgKinds, n0
  <1>23. encode_position(m.tracker_id, m.q, m.pos) = wrap(1, b)
    <2>1. encode_position(m.tracker_id, m.q, m.pos) = wrap(1, bb)
      BY DEF encode_position, kPosition, o, id, q, pos
    <2> QED
      BY <1>19, <2>1
  <1>24. (n3["kind"] # kNone) = TRUE
    BY <1>10 DEF kNone
  <1> QED
    BY <1>11, <1>22, <1>23, <1>24

\* A failed path is said to have failed.
LEMMA FailureComesBack ==
  ASSUME NEW v \in Ints
  PROVE  decode(encode_path_failed(v)).v.kind = kPathFailed
  <1> DEFINE n == Start(Blank, 5)
             b == Optional(8, v)
  <1>1. n["kind"] = 5
    BY StartHas
  <1>2. Member(5, 1, 0) = "none"
    BY DEF Member, kTrackerStatus
  <1> HIDE DEF n
  <1>3. << >> \in ByteSeq /\ 1 \in 1 .. 2 /\ 1 * 8 = 8
    BY Empty
  <1>4. /\ b \in ByteSeq /\ Len(b) <= 1 + MaxGroups
        /\ Reaches(At(n, b \o << >>, << >>), At(n, << >>, << >>))
    <2>1. CASE v = 0
      <3>1. b = << >>
        BY <2>1 DEF Optional
      <3>2. << >> \o << >> = << >> /\ Len(<< >>) <= 1 + MaxGroups
        BY Concat, <1>3, CodecAssumption
      <3> QED
        BY <1>3, <3>1, <3>2, ReachesSteps
    <2>2. CASE v # 0
      <3> DEFINE d == <<1 * 8>> \o put_varint(Uint32(v))
      <3>1. b = d
        BY <1>3, <2>2 DEF Optional
      <3>2. /\ d \in ByteSeq /\ Len(d) <= 1 + MaxGroups
            /\ Member(n["kind"], 1, 0) = "none" => ReadOn(At(n, d \o << >>, << >>)) = At(n, << >>, << >>)
        BY <1>3, IntTurn
      <3> HIDE DEF d
      <3>3. ReadOn(At(n, d \o << >>, << >>)) = At(n, << >>, << >>)
        BY <1>1, <1>2, <3>2
      <3> QED
        BY <3>1, <3>2, <3>3, ReachesSteps
    <2> QED
      BY <2>1, <2>2
  <1> HIDE DEF b
  <1>5. Len(b) < Word
    <2> DEFINE l == Len(b)
    <2>1. l \in Nat /\ l <= 1 + MaxGroups
      BY <1>4, Parts
    <2> HIDE DEF l
    <2>2. l < Word
      BY <2>1, CodecAssumption
    <2> QED
      BY <2>2 DEF l
  <1>6. b \o << >> = b
    BY <1>4, Concat
  <1>7. decode(wrap(5, b)) = [ok |-> n["kind"] # kNone, v |-> n]
    BY <1>4, <1>5, <1>6, MessageDecodes DEF MsgKinds, n
  <1>8. encode_path_failed(v) = wrap(5, b)
    BY DEF encode_path_failed, kPathFailed, b
  <1> QED
    BY <1>1, <1>7, <1>8 DEF kPathFailed

\* A field the driver does not use is passed over.
LEMMA UnusedTurn ==
  ASSUME NEW m, NEW field \in FieldsOf(m["kind"]), field.member = "none",
         NEW v \in Written(field.type), NEW t \in ByteSeq, NEW u \in ByteSeq
  PROVE  LET e == Tagged(field.f, field.type, v)
         IN  e \in ByteSeq /\ ReadOn(At(m, e \o t, u)) = At(m, t, u)
  <1> DEFINE e == Tagged(field.f, field.type, v)
             s == e \o t
  <1>1. /\ e \in ByteSeq /\ s # << >>
        /\ ReadField(varint(s), m) = [ok |-> TRUE, v |-> Said(m, field, v), rest |-> t]
    BY FieldComesBack
  <1>2. Said(m, field, v) = m
    BY SaidDoes
  <1> HIDE DEF e, s
  <1>3. s # << >> /\ ReadField(varint(s), m) = [ok |-> TRUE, v |-> m, rest |-> t]
    BY <1>1, <1>2
  <1>4. ReadOn(At(m, s, u)) = At(m, t, u)
    BY <1>3, InsideTurn
  <1> QED
    BY <1>1, <1>4 DEF e, s

\* The bytes of a field with a tag below 128.
LEMMA TaggedBytes ==
  ASSUME NEW f \in 1 .. 15, NEW type \in Types, NEW v
  PROVE  Tagged(f, type, v) = <<f * 8 + Wire(type)>> \o Bytes(type, v)
  <1> DEFINE w == Wire(type)
             n == f * 8 + w
  <1>1. w \in {0, 1, 2, 5}
    BY DEF Wire
  <1> HIDE DEF w
  <1>2. n \in 0 .. 127
    BY <1>1
  <1> HIDE DEF n
  <1>3. n \in 0 .. Word - 1 /\ n < 128
    BY <1>2, CodecAssumption
  <1>4. put_varint(n) = <<n>>
    BY <1>3, Empty, VarintComesBack
  <1> QED
    BY <1>4 DEF Tagged, n, w

\* The universe is written as the schema has it.
LEMMA UniverseComesBack ==
  ASSUME NEW v \in Floats
  PROVE  /\ decode(encode_universe(v, <<v, v, v>>)).v.kind = kUniverseChange
         /\ encode_universe(v, <<v, v, v>>) =
               wrap(kUniverseChange,
                    (IF v = Zero THEN << >> ELSE Tagged(1, "float", v))
                    \o Tagged(2, "floats", <<v, v, v>>))
  <1> DEFINE vs == <<v, v, v>>
             n  == Start(Blank, 4)
             j  == Joined(vs, FloatLen)
             l  == 3 * FloatLen
             e1 == Tagged(1, "float", v)
             e2 == Tagged(2, "floats", vs)
             o1 == IF v = Zero THEN << >> ELSE e1
             b  == o1 \o e2
  <1>1. n["kind"] = 4
    BY StartHas
  <1> HIDE DEF n
  <1>2. vs \in Lists(Floats) /\ vs \in Numbers(FloatLen) /\ Len(vs) = 3
    <2> DEFINE F == [1 .. FloatLen -> Byte]
    <2>1. v \in F
      BY CodecAssumption
    <2> HIDE DEF F
    <2>2. <<v, v, v>> \in Seq(F)
      BY <2>1, Copies
    <2>3. <<v, v, v>> \in Lists(Floats)
      BY DEF Lists
    <2> QED
      BY <2>2, <2>3 DEF F, Numbers
  <1> HIDE DEF vs
  <1>3. /\ FloatLen \in Nat \ {0} /\ l \in Nat /\ l < 128 /\ FloatLen * Len(vs) = l /\ FloatLen <= l
        /\ v \in ByteSeq /\ Len(v) = FloatLen
    <2>1. FloatLen \in Nat \ {0} /\ 3 * FloatLen < 128 /\ v \in [1 .. FloatLen -> Byte]
      BY CodecAssumption
    <2>2. FloatLen * Len(vs) = FloatLen * 3
      BY <1>2
    <2>3. FloatLen * 3 = l /\ FloatLen <= l /\ l \in Nat
      BY <2>1
    <2>4. v \in ByteSeq /\ Len(v) = FloatLen
      BY <2>1, FixedBytes
    <2> QED
      BY <2>1, <2>2, <2>3, <2>4
  <1> HIDE DEF l
  <1>4. j \in ByteSeq /\ Len(j) = l
    BY <1>2, <1>3, ElementsComeBack DEF Numbers
  <1> HIDE DEF j
  <1>5. put_varint(l) = <<l>> /\ <<l>> \in ByteSeq
    <2>1. l \in 0 .. Word - 1 /\ l \in Byte
      BY <1>3, CodecAssumption DEF Byte
    <2> QED
      BY <1>3, <2>1, Empty, VarintComesBack DEF ByteSeq
  <1>6. e1 = <<13>> \o v
    <2>1. "float" \in Types /\ Wire("float") = 5 /\ Bytes("float", v) = v /\ 1 * 8 + 5 = 13 /\ 1 \in 1 .. 15
      BY DEF Types, Wire, Bytes
    <2>2. Tagged(1, "float", v) = <<1 * 8 + Wire("float")>> \o Bytes("float", v)
      BY <2>1, TaggedBytes
    <2> QED
      BY <2>1, <2>2
  <1>7. e2 = <<18, l>> \o j
    <2>1. "floats" \in Types /\ Wire("floats") = 2 /\ 2 * 8 + 2 = 18 /\ 2 \in 1 .. 15
      BY DEF Types, Wire
    <2>2. Bytes("floats", vs) = <<l>> \o j
      BY <1>4, <1>5 DEF Bytes, Block, j
    <2>3. e2 = <<18>> \o (<<l>> \o j)
      <3>1. Tagged(2, "floats", vs) = <<2 * 8 + Wire("floats")>> \o Bytes("floats", vs)
        BY <2>1, TaggedBytes
      <3> QED
        BY <2>1, <2>2, <3>1
    <2>4. <<18>> \in ByteSeq /\ <<18>> \o <<l>> = <<18, l>>
      <3>1. 18 \in Byte
        BY DEF Byte
      <3>2. <<18>> \o <<l>> = <<18, l>>
        BY <1>3, Pair
      <3> QED
        BY <3>1, <3>2 DEF ByteSeq
    <2>5. (<<18>> \o <<l>>) \o j = <<18>> \o (<<l>> \o j)
      BY <1>4, <1>5, <2>4, Assoc
    <2> QED
      BY <2>3, <2>4, <2>5
  <1>8. /\ << >> \in ByteSeq
        /\ e2 \in ByteSeq /\ ReadOn(At(n, e2 \o << >>, << >>)) = At(n, << >>, << >>)
    <2> DEFINE field == Field(4, 2, "floats", "none")
    <2>1. field \in Schema
      BY DEF Schema
    <2>2. field.kind = 4 /\ field.f = 2 /\ field.type = "floats" /\ field.member = "none"
      BY DEF Field
    <2> HIDE DEF field
    <2>3. field \in FieldsOf(n["kind"]) /\ vs \in Written(field.type)
      BY <1>1, <1>2, <2>1, <2>2 DEF FieldsOf, Written
    <2> HIDE DEF e2
    <2>4. << >> \in ByteSeq /\ e2 = Tagged(field.f, field.type, vs)
      BY <2>2, Empty DEF e2
    <2> QED
      BY <2>2, <2>3, <2>4, UnusedTurn
  <1>9. /\ e1 \in ByteSeq /\ ReadOn(At(n, e1 \o e2, << >>)) = At(n, e2, << >>)
    <2> DEFINE field == Field(4, 1, "float", "none")
    <2>1. field \in Schema
      BY DEF Schema
    <2>2. field.kind = 4 /\ field.f = 1 /\ field.type = "float" /\ field.member = "none"
      BY DEF Field
    <2> HIDE DEF field
    <2>3. field \in FieldsOf(n["kind"]) /\ v \in Written(field.type)
      BY <1>1, <2>1, <2>2 DEF FieldsOf, Written
    <2> HIDE DEF e1, e2
    <2>4. e1 = Tagged(field.f, field.type, v)
      BY <2>2 DEF e1
    <2> QED
      BY <1>8, <2>2, <2>3, <2>4, UnusedTurn
  <1>10. Len(e1) = 1 + FloatLen /\ Len(e2) = 2 + l
    <2>1. <<13>> \in ByteSeq /\ Len(<<13>>) = 1
      BY DEF ByteSeq, Byte
    <2>2. <<18, l>> \in ByteSeq /\ Len(<<18, l>>) = 2
      <3>1. l \in Byte /\ 18 \in Byte
        BY <1>3 DEF Byte
      <3> QED
        BY <3>1 DEF ByteSeq
    <2>3. Len(<<13>> \o v) = Len(<<13>>) + Len(v) /\ Len(<<18, l>> \o j) = Len(<<18, l>>) + Len(j)
      BY <1>3, <1>4, <2>1, <2>2, Parts
    <2> HIDE DEF e1, e2
    <2>4. Len(e1) = Len(<<13>> \o v) /\ Len(e2) = Len(<<18, l>> \o j)
      BY <1>6, <1>7
    <2>5. Len(<<13>>) + Len(v) = 1 + FloatLen /\ Len(<<18, l>>) + Len(j) = 2 + l
      BY <1>3, <1>4, <2>1, <2>2
    <2> QED
      BY <2>3, <2>4, <2>5
  <1> HIDE DEF e1, e2
  <1>11. /\ o1 \in ByteSeq /\ Len(o1) \in 0 .. 1 + FloatLen
         /\ Reaches(At(n, o1 \o e2, << >>), At(n, e2, << >>))
    <2>1. CASE v = Zero
      <3>1. o1 = << >>
        BY <2>1
      <3>2. << >> \o e2 = e2 /\ Len(<< >>) \in 0 .. 1 + FloatLen
        BY <1>3, <1>8, Concat
      <3> QED
        BY <1>8, <3>1, <3>2, ReachesSteps
    <2>2. CASE v # Zero
      <3>1. o1 = e1
        BY <2>2
      <3>2. Len(e1) \in 0 .. 1 + FloatLen
        BY <1>3, <1>10
      <3> QED
        BY <1>9, <3>1, <3>2, ReachesSteps
    <2> QED
      BY <2>1, <2>2
  <1> HIDE DEF o1
  <1>12. b \in ByteSeq /\ Len(b) < Word
    <2>1. b \in ByteSeq /\ Len(b) = Len(o1) + Len(e2)
      BY <1>8, <1>11, Parts
    <2> DEFINE lo == Len(o1)
               lb == Len(b)
    <2>2. lb = lo + (2 + l) /\ lo \in 0 .. 1 + FloatLen
      BY <1>10, <1>11, <2>1
    <2> HIDE DEF lo, lb
    <2>3. lb < Word
      BY <1>3, <2>2, CodecAssumption
    <2> QED
      BY <2>1, <2>3 DEF lb
  <1>13. Reaches(At(n, b, << >>), At(n, << >>, << >>))
    <2>1. e2 \o << >> = e2
      BY <1>8, Concat
    <2> QED
      BY <1>8, <1>11, <2>1, ReachesSteps
  <1> HIDE DEF b
  <1>14. decode(wrap(4, b)) = [ok |-> n["kind"] # kNone, v |-> n]
    BY <1>12, <1>13, MessageDecodes DEF MsgKinds, n
  <1>15. encode_universe(v, vs) = wrap(4, b)
    <2> DEFINE y == IF v = Zero THEN << >> ELSE <<13>> \o v
               h == <<18, l>>
    <2>1. encode_universe(v, vs) = wrap(4, (y \o h) \o j)
      BY DEF encode_universe, kUniverseChange, l, j
    <2>2. y = o1
      BY <1>6 DEF o1
    <2>3. h \in ByteSeq
      <3>1. l \in Byte /\ 18 \in Byte
        BY <1>3 DEF Byte
      <3> QED
        BY <3>1 DEF ByteSeq
    <2> HIDE DEF y, h
    <2>4. (o1 \o h) \o j = o1 \o (h \o j)
      BY <1>4, <1>11, <2>3, Assoc
    <2>5. o1 \o (h \o j) = b
      BY <1>7 DEF b, h
    <2> QED
      BY <2>1, <2>2, <2>4, <2>5
  <1>16. decode(encode_universe(v, vs)).v.kind = kUniverseChange
    BY <1>1, <1>14, <1>15 DEF kUniverseChange
  <1> QED
    BY <1>15, <1>16 DEF vs, b, o1, e1, e2, kUniverseChange

\* What the invariant says of what the driver sends.
LEMMA CodecInvSent == CodecInv => SentAsMeant
  <1> SUFFICES ASSUME CodecInv, ~open, payload # << >> PROVE SentAsMeant
    BY DEF SentAsMeant
  <1>1. Shape(want)
    BY DEF CodecInv, Typed
  <1>2. want.kind = kTrackerStatus =>
           decode(encode_status(want.tracker_id, want.status)) =
              [ok |-> TRUE, v |-> [want EXCEPT !.battery = Zero]]
    BY <1>1, StatusComesBack
  <1>3. want.kind = kPosition /\ Len(want.q) = 4 /\ Len(want.pos) = 3 =>
           decode(encode_position(want.tracker_id, want.q, want.pos)) = [ok |-> TRUE, v |-> want]
    BY <1>1, PositionComesBack
  <1>4. \A v \in Ints : decode(encode_path_failed(v)).v.kind = kPathFailed
    BY FailureComesBack
  <1>5. \A v \in Floats :
           /\ decode(encode_universe(v, <<v, v, v>>)).v.kind = kUniverseChange
           /\ encode_universe(v, <<v, v, v>>) =
                 wrap(kUniverseChange,
                      (IF v = Zero THEN << >> ELSE Tagged(1, "float", v))
                      \o Tagged(2, "floats", <<v, v, v>>))
    BY UniverseComesBack
  <1> QED
    BY <1>2, <1>3, <1>4, <1>5 DEF SentAsMeant

\* Whatever the driver sends, a reader of the schema gets back: ids and states
\* of any sign and length, those that are zero and left out, and positions.
THEOREM SentAlways == CodecSpec => []SentAsMeant
  <1>1. CodecInv => SentAsMeant
    BY CodecInvSent
  <1> QED
    BY <1>1, CodecAlways, PTL
=============================================================================
