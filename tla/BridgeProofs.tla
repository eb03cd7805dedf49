---------------------------- MODULE BridgeProofs ----------------------------
(***************************************************************************)
(* Proofs about Bridge: its types, that the session outlives the reader,   *)
(* and that what is relayed is what was sent, in order and while both      *)
(* sides are there without loss, for any number of messages and sessions.  *)
(***************************************************************************)
EXTENDS Bridge, TLAPS, WellFoundedInduction

(***************************************************************************)
(* Sequences: prefixes, and the elements that are in a set.                *)
(***************************************************************************)

\* Sequences that are the same element by element are the same.
LEMMA SameSequence ==
  ASSUME NEW X, NEW s \in Seq(X), NEW t \in Seq(X), Len(s) = Len(t),
         \A n \in 1 .. Len(s) : s[n] = t[n]
  PROVE  s = t
  OBVIOUS

\* It does not matter what is put together first.
LEMMA ConcatAssoc ==
  ASSUME NEW X, NEW s \in Seq(X), NEW t \in Seq(X), NEW u \in Seq(X)
  PROVE  (s \o t) \o u = s \o (t \o u) /\ s \o t \in Seq(X)
  OBVIOUS

\* Nothing put to it.
LEMMA ConcatEmpty ==
  ASSUME NEW X, NEW s \in Seq(X)
  PROVE  s \o << >> = s /\ << >> \o s = s
  OBVIOUS

\* One element more.
LEMMA AppendOne ==
  ASSUME NEW X, NEW s \in Seq(X), NEW x \in X
  PROVE  Append(s, x) = s \o <<x>> /\ <<x>> \in Seq(X) /\ Append(s, x) \in Seq(X)
  OBVIOUS

\* A set of numbers has a least one.
LEMMA Least ==
  ASSUME NEW T \in SUBSET Nat, T # {}
  PROVE  \E m \in T : \A n \in T : m <= n
  <1> DEFINE R == {ss \in Nat \X Nat : ss[1] < ss[2]}
  <1>1. IsWellFoundedOn(R, Nat)
    BY NatLessThanWellFounded DEF OpToRel
  <1>2. \A x, y \in Nat : x < y => <<x, y>> \in R
    OBVIOUS
  <1> HIDE DEF R
  <1>3. PICK x \in T : \A y \in T : ~(<<y, x>> \in R)
    BY <1>1, WFMin
  <1>4. ASSUME NEW n \in T PROVE x <= n
    <2>1. n \in Nat /\ x \in Nat /\ ~(n < x)
      BY <1>2, <1>3
    <2> QED
      BY <2>1
  <1> QED
    BY <1>4

\* What Only computes, element by element.
Filter(S, q, f) ==
    /\ f[0] = << >>
    /\ \A n \in 1 .. Len(q) :
          f[n] = IF q[n] \in S THEN Append(f[n - 1], q[n]) ELSE f[n - 1]

\* There is such a function.
LEMMA FilterExists ==
  ASSUME NEW S, NEW X, NEW q \in Seq(X)
  PROVE  \E f \in [0 .. Len(q) -> Seq(X)] : Filter(S, q, f)
  <1> DEFINE Part(f, m) ==
               /\ f[0] = << >>
               /\ \A n \in 1 .. m :
                     f[n] = IF q[n] \in S THEN Append(f[n - 1], q[n]) ELSE f[n - 1]
             T == {m \in 0 .. Len(q) : ~\E f \in [0 .. m -> Seq(X)] : Part(f, m)}
  <1>0. Len(q) \in Nat
    OBVIOUS
  <1>1. ASSUME T # {} PROVE FALSE
    <2>0. T \in SUBSET Nat
      BY <1>0
    <2>1. PICK m \in T : \A n \in T : m <= n
      <3> HIDE DEF T
      <3> QED
        BY <1>1, <2>0, Least
    <2> m \in 0 .. Len(q) /\ ~\E f \in [0 .. m -> Seq(X)] : Part(f, m)
      BY <2>1
    <2>2. CASE m = 0
      <3>1. [n \in 0 .. 0 |-> << >>] \in [0 .. 0 -> Seq(X)]
        OBVIOUS
      <3>2. Part([n \in 0 .. 0 |-> << >>], 0)
        OBVIOUS
      <3> QED
        BY <2>1, <2>2, <3>1, <3>2
    <2>3. CASE m # 0
      <3>1. m - 1 \in 0 .. Len(q) /\ m \in 1 .. Len(q) /\ m - 1 \notin T
        <4>1. m - 1 \in 0 .. Len(q) /\ m \in 1 .. Len(q) /\ ~(m <= m - 1)
          BY <1>0, <2>3
        <4> HIDE DEF T
        <4> QED
          BY <2>1, <4>1
      <3>2. PICK g \in [0 .. m - 1 -> Seq(X)] : Part(g, m - 1)
        BY <3>1
      <3> DEFINE e == IF q[m] \in S THEN Append(g[m - 1], q[m]) ELSE g[m - 1]
                 f == [n \in 0 .. m |-> IF n = m THEN e ELSE g[n]]
      <3>3. e \in Seq(X)
        BY <3>1
      <3>4. f \in [0 .. m -> Seq(X)]
        BY <3>1, <3>3
      <3>5. f[m] = e /\ \A n \in 0 .. m - 1 : f[n] = g[n]
        BY <3>1
      <3> HIDE DEF f
      <3>6. Part(f, m)
        <4>1. f[0] = << >>
          <5>1. 0 \in 0 .. m - 1
            BY <3>1
          <5> QED
            BY <3>2, <3>5, <5>1
        <4>2. ASSUME NEW n \in 1 .. m
              PROVE  f[n] = IF q[n] \in S THEN Append(f[n - 1], q[n]) ELSE f[n - 1]
          <5>1. CASE n = m
            <6>1. f[m - 1] = g[m - 1]
              <7>1. m - 1 \in 0 .. m - 1
                BY <3>1
              <7> QED
                BY <3>5, <7>1
            <6> QED
              BY <3>5, <5>1, <6>1
          <5>2. CASE n # m
            <6>1. n \in 1 .. m - 1 /\ n \in 0 .. m - 1 /\ n - 1 \in 0 .. m - 1
              BY <3>1, <5>2
            <6>2. f[n] = g[n] /\ f[n - 1] = g[n - 1]
              BY <3>5, <6>1
            <6> QED
              BY <3>2, <6>1, <6>2
          <5> QED
            BY <5>1, <5>2
        <4> QED
          BY <4>1, <4>2
      <3> QED
        BY <2>1, <3>4, <3>6
    <2> QED
      BY <2>2, <2>3
  <1>2. Len(q) \notin T
    BY <1>1
  <1>3. \E f \in [0 .. Len(q) -> Seq(X)] : Part(f, Len(q))
    BY <1>0, <1>2
  <1> QED
    BY <1>3 DEF Filter

\* It is the only one.
LEMMA FilterUnique ==
  ASSUME NEW S, NEW X, NEW q \in Seq(X), NEW f, NEW g, Filter(S, q, f), Filter(S, q, g)
  PROVE  f[Len(q)] = g[Len(q)]
  <1> DEFINE T == {n \in 0 .. Len(q) : f[n] # g[n]}
  <1>0. Len(q) \in Nat
    OBVIOUS
  <1>1. ASSUME T # {} PROVE FALSE
    <2>0. T \in SUBSET Nat
      BY <1>0
    <2>1. PICK m \in T : \A n \in T : m <= n
      <3> HIDE DEF T
      <3> QED
        BY <1>1, <2>0, Least
    <2>2. m # 0
      BY <2>1 DEF Filter
    <2>3. m - 1 \in 0 .. Len(q) /\ m \in 1 .. Len(q) /\ m - 1 \notin T
      BY <1>0, <2>1, <2>2
    <2> QED
      BY <2>1, <2>3 DEF Filter
  <1> QED
    BY <1>0, <1>1

\* Only computes it.
LEMMA OnlyFilter ==
  ASSUME NEW S, NEW X, NEW q \in Seq(X)
  PROVE  \E f \in [0 .. Len(q) -> Seq(X)] : Filter(S, q, f) /\ Only(S, q) = f[Len(q)]
  <1> DEFINE only == CHOOSE only : only =
               [n \in 0 .. Len(q) |->
                  IF n = 0 THEN << >>
                  ELSE IF q[n] \in S THEN Append(only[n - 1], q[n]) ELSE only[n - 1]]
  <1>0. Len(q) \in Nat
    OBVIOUS
  <1>1. PICK f \in [0 .. Len(q) -> Seq(X)] : Filter(S, q, f)
    BY FilterExists
  <1>2. f = [n \in 0 .. Len(q) |->
               IF n = 0 THEN << >>
               ELSE IF q[n] \in S THEN Append(f[n - 1], q[n]) ELSE f[n - 1]]
    <2> DEFINE h == [n \in 0 .. Len(q) |->
                       IF n = 0 THEN << >>
                       ELSE IF q[n] \in S THEN Append(f[n - 1], q[n]) ELSE f[n - 1]]
    <2>1. ASSUME NEW n \in 0 .. Len(q) PROVE f[n] = h[n]
      <3>1. n = 0 \/ n \in 1 .. Len(q)
        BY <1>0
      <3> QED
        BY <1>1, <3>1 DEF Filter
    <2>2. DOMAIN f = 0 .. Len(q) /\ DOMAIN h = 0 .. Len(q)
      OBVIOUS
    <2> QED
      BY <2>1, <2>2
  <1>3. only = [n \in 0 .. Len(q) |->
                  IF n = 0 THEN << >>
                  ELSE IF q[n] \in S THEN Append(only[n - 1], q[n]) ELSE only[n - 1]]
    BY <1>2
  <1>4. Only(S, q) = only[Len(q)]
    BY DEF Only
  <1> HIDE DEF only
  <1>5. Filter(S, q, only)
    <2>1. \A n \in 1 .. Len(q) : n \in 0 .. Len(q) /\ n # 0
      BY <1>0
    <2>2. 0 \in 0 .. Len(q)
      BY <1>0
    <2>3. only[0] = << >>
      BY <1>3, <2>2
    <2>4. \A n \in 1 .. Len(q) :
             only[n] = IF q[n] \in S THEN Append(only[n - 1], q[n]) ELSE only[n - 1]
      BY <1>3, <2>1
    <2> QED
      BY <2>3, <2>4 DEF Filter
  <1> QED
    BY <1>1, <1>4, <1>5, FilterUnique

\* The empty sequence.
LEMMA OnlyEmpty == ASSUME NEW S PROVE Only(S, << >>) = << >>
  <1>0. << >> \in Seq({}) /\ Len(<< >>) = 0
    OBVIOUS
  <1>1. PICK f : Filter(S, << >>, f) /\ Only(S, << >>) = f[0]
    BY <1>0, OnlyFilter
  <1> QED
    BY <1>1 DEF Filter

\* One more element.
LEMMA OnlyAppend ==
  ASSUME NEW S, NEW X, NEW q \in Seq(X), NEW x \in X
  PROVE  /\ Only(S, q) \in Seq(X)
         /\ Only(S, Append(q, x)) = IF x \in S THEN Append(Only(S, q), x) ELSE Only(S, q)
  <1> DEFINE r == Append(q, x)
  <1>1. /\ Len(q) \in Nat /\ r \in Seq(X) /\ Len(r) = Len(q) + 1 /\ r[Len(q) + 1] = x
        /\ \A n \in 1 .. Len(q) : r[n] = q[n]
    OBVIOUS
  <1> HIDE DEF r
  <1>2. PICK f \in [0 .. Len(q) -> Seq(X)] : Filter(S, q, f) /\ Only(S, q) = f[Len(q)]
    BY OnlyFilter
  <1>3. PICK g \in [0 .. Len(r) -> Seq(X)] : Filter(S, r, g) /\ Only(S, r) = g[Len(r)]
    BY <1>1, OnlyFilter
  <1>4. Filter(S, q, g)
    <2>1. \A n \in 1 .. Len(q) : n \in 1 .. Len(r)
      BY <1>1
    <2> QED
      BY <1>1, <1>3, <2>1 DEF Filter
  <1>5. g[Len(q)] = f[Len(q)]
    BY <1>2, <1>4, FilterUnique
  <1>6. g[Len(r)] = IF x \in S THEN Append(g[Len(q)], x) ELSE g[Len(q)]
    <2>1. Len(r) \in 1 .. Len(r) /\ Len(r) - 1 = Len(q)
      BY <1>1
    <2> QED
      BY <1>1, <1>3, <2>1 DEF Filter
  <1> QED
    BY <1>2, <1>3, <1>5, <1>6 DEF r

\* What is kept is in both sets.
LEMMA OnlyType ==
  ASSUME NEW S, NEW X, NEW q \in Seq(X)
  PROVE  Only(S, q) \in Seq(X \cap S) /\ Only(S, q) \in Seq(X)
  <1>1. PICK f \in [0 .. Len(q) -> Seq(X)] : Filter(S, q, f) /\ Only(S, q) = f[Len(q)]
    BY OnlyFilter
  <1> DEFINE T == {n \in 0 .. Len(q) : f[n] \notin Seq(X \cap S)}
  <1>0. Len(q) \in Nat
    OBVIOUS
  <1>2. ASSUME T # {} PROVE FALSE
    <2>0. T \in SUBSET Nat
      BY <1>0
    <2>1. PICK m \in T : \A n \in T : m <= n
      <3> HIDE DEF T
      <3> QED
        BY <1>2, <2>0, Least
    <2>2. m # 0
      BY <1>1, <2>1 DEF Filter
    <2>3. m - 1 \in 0 .. Len(q) /\ m \in 1 .. Len(q) /\ ~(m <= m - 1)
      BY <1>0, <2>1, <2>2
    <2>4. f[m - 1] \in Seq(X \cap S) /\ q[m] \in X
      BY <2>1, <2>3
    <2>5. f[m] = IF q[m] \in S THEN Append(f[m - 1], q[m]) ELSE f[m - 1]
      BY <1>1, <2>3 DEF Filter
    <2>6. f[m] \in Seq(X \cap S)
      BY <2>4, <2>5
    <2> QED
      BY <2>1, <2>6
  <1> QED
    BY <1>0, <1>1, <1>2

\* Appending commutes with what comes before.
LEMMA ConcatAppend ==
  ASSUME NEW X, NEW q \in Seq(X), NEW p \in Seq(X), NEW x \in X
  PROVE  q \o Append(p, x) = Append(q \o p, x) /\ q \o p \in Seq(X)
  <1>1. q \o p \in Seq(X)
    OBVIOUS
  <1>2. q \o Append(p, x) = Append(q \o p, x)
    BY SMTT(60)
  <1> QED
    BY <1>1, <1>2

\* One sequence after another.
LEMMA OnlyConcat ==
  ASSUME NEW S, NEW X, NEW q \in Seq(X), NEW r \in Seq(X)
  PROVE  Only(S, q \o r) = Only(S, q) \o Only(S, r)
  <1> DEFINE Part(n) == SubSeq(r, 1, n)
             T == {n \in 0 .. Len(r) : Only(S, q \o Part(n)) # Only(S, q) \o Only(S, Part(n))}
  <1>0. Len(r) \in Nat /\ \A n \in 0 .. Len(r) : Part(n) \in Seq(X)
    OBVIOUS
  <1>1. Part(0) = << >> /\ Part(Len(r)) = r
    OBVIOUS
  <1>2. \A n \in 1 .. Len(r) : Part(n) = Append(Part(n - 1), r[n]) /\ r[n] \in X
    OBVIOUS
  <1>3. Only(S, q) \in Seq(X) /\ \A n \in 0 .. Len(r) : Only(S, Part(n)) \in Seq(X)
    <2> HIDE DEF Part
    <2> QED
      BY <1>0, OnlyType
  <1> HIDE DEF Part
  <1>4. ASSUME T # {} PROVE FALSE
    <2>0. T \in SUBSET Nat
      BY <1>0
    <2>1. PICK m \in T : \A n \in T : m <= n
      <3> HIDE DEF T
      <3> QED
        BY <1>4, <2>0, Least
    <2>2. m # 0
      <3>1. q \o Part(0) = q /\ Only(S, q) \o << >> = Only(S, q)
        BY <1>1, <1>3
      <3> QED
        BY <1>1, <2>1, <3>1, OnlyEmpty
    <2>3. m - 1 \in 0 .. Len(r) /\ m \in 1 .. Len(r) /\ ~(m <= m - 1)
      BY <1>0, <2>1, <2>2
    <2>4. Only(S, q \o Part(m - 1)) = Only(S, q) \o Only(S, Part(m - 1))
      BY <2>1, <2>3
    <2> DEFINE p == Part(m - 1)
               x == r[m]
    <2>5. p \in Seq(X) /\ x \in X /\ Part(m) = Append(p, x) /\ Only(S, p) \in Seq(X)
      BY <1>0, <1>2, <1>3, <2>3
    <2> HIDE DEF p, x
    <2>6. q \o Append(p, x) = Append(q \o p, x) /\ q \o p \in Seq(X)
      BY <2>5, ConcatAppend
    <2>7. Only(S, q \o Part(m)) = IF x \in S THEN Append(Only(S, q) \o Only(S, p), x)
                                             ELSE Only(S, q) \o Only(S, p)
      <3>1. Only(S, q \o p) = Only(S, q) \o Only(S, p)
        BY <2>4 DEF p
      <3>2. Only(S, Append(q \o p, x)) = IF x \in S THEN Append(Only(S, q \o p), x)
                                                   ELSE Only(S, q \o p)
        <4> DEFINE z == q \o p
        <4>1. z \in Seq(X)
          BY <2>6
        <4> HIDE DEF z
        <4>2. Only(S, Append(z, x)) = IF x \in S THEN Append(Only(S, z), x) ELSE Only(S, z)
          BY <2>5, <4>1, OnlyAppend
        <4> QED
          BY <4>2 DEF z
      <3> QED
        BY <2>5, <2>6, <3>1, <3>2
    <2>8. Only(S, Part(m)) = IF x \in S THEN Append(Only(S, p), x) ELSE Only(S, p)
      BY <2>5, OnlyAppend
    <2>9. Append(Only(S, q) \o Only(S, p), x) = Only(S, q) \o Append(Only(S, p), x)
      <3> DEFINE a == Only(S, q)
                 b == Only(S, p)
      <3>1. a \in Seq(X) /\ b \in Seq(X) /\ x \in X
        BY <1>3, <2>5
      <3> HIDE DEF a, b
      <3>2. a \o Append(b, x) = Append(a \o b, x)
        BY <3>1, SMTT(30)
      <3> QED
        BY <3>2 DEF a, b
    <2>10. Only(S, q \o Part(m)) # Only(S, q) \o Only(S, Part(m))
      BY <2>1
    <2> QED
      BY <2>7, <2>8, <2>9, <2>10
  <1>5. Len(r) \in 0 .. Len(r) /\ Len(r) \notin T
    BY <1>0, <1>4
  <1> QED
    BY <1>1, <1>5

\* The first element.
LEMMA OnlyHead ==
  ASSUME NEW S, NEW X, NEW q \in Seq(X), q # << >>
  PROVE  Only(S, q) = IF Head(q) \in S THEN <<Head(q)>> \o Only(S, Tail(q))
                                        ELSE Only(S, Tail(q))
  <1>1. Head(q) \in X /\ Tail(q) \in Seq(X) /\ q = <<Head(q)>> \o Tail(q)
    OBVIOUS
  <1>2. Only(S, <<Head(q)>>) = IF Head(q) \in S THEN <<Head(q)>> ELSE << >>
    <2> DEFINE x == Head(q)
               none == << >>
    <2>1. /\ none \in Seq(X) /\ x \in X /\ Only(S, none) = none
          /\ <<x>> = Append(none, x)
      BY <1>1, OnlyEmpty
    <2> HIDE DEF x, none
    <2>2. Only(S, Append(none, x)) = IF x \in S THEN Append(Only(S, none), x)
                                              ELSE Only(S, none)
      BY <2>1, OnlyAppend
    <2>3. Only(S, <<x>>) = IF x \in S THEN <<x>> ELSE none
      BY <2>1, <2>2
    <2> QED
      BY <2>3 DEF x, none
  <1>3. Only(S, q) = Only(S, <<Head(q)>>) \o Only(S, Tail(q))
    <2> DEFINE h == <<Head(q)>>
               t == Tail(q)
    <2>1. h \in Seq(X) /\ t \in Seq(X) /\ q = h \o t
      BY <1>1
    <2> HIDE DEF h, t
    <2>2. Only(S, h \o t) = Only(S, h) \o Only(S, t)
      BY <2>1, OnlyConcat
    <2> QED
      BY <2>1, <2>2 DEF h, t
  <1>4. Only(S, Tail(q)) \in Seq(X)
    BY <1>1, OnlyType
  <1>5. << >> \o Only(S, Tail(q)) = Only(S, Tail(q))
    BY <1>4
  <1> QED
    BY <1>2, <1>3, <1>5

\* A prefix is what something can be appended to.
LEMMA Prefix ==
  ASSUME NEW X, NEW s \in Seq(X), NEW t \in Seq(X)
  PROVE  IsPrefix(s, t) <=> \E u \in Seq(X) : t = s \o u
  <1>1. ASSUME NEW u \in Seq(X), t = s \o u PROVE IsPrefix(s, t)
    BY <1>1 DEF IsPrefix
  <1>2. ASSUME IsPrefix(s, t) PROVE \E u \in Seq(X) : t = s \o u
    <2> DEFINE u == SubSeq(t, Len(s) + 1, Len(t))
    <2>1. Len(s) <= Len(t) /\ \A n \in 1 .. Len(s) : s[n] = t[n]
      BY <1>2 DEF IsPrefix
    <2>2. u \in Seq(X) /\ Len(u) = Len(t) - Len(s)
          /\ \A n \in 1 .. Len(u) : u[n] = t[Len(s) + n]
      BY <2>1
    <2> HIDE DEF u
    <2> DEFINE v == s \o u
    <2>3. v \in Seq(X) /\ Len(v) = Len(t) /\ \A n \in 1 .. Len(v) : v[n] = t[n]
      BY <2>1, <2>2, SMTT(30)
    <2> HIDE DEF v
    <2>4. t = v
      BY <2>3, SameSequence
    <2> QED
      BY <2>2, <2>4 DEF v
  <1> QED
    BY <1>1, <1>2

(***************************************************************************)
(* The invariant.                                                          *)
(***************************************************************************)

Before  == {"accept", "create", "select", "sleep"}
Relay   == {"top", "header", "payload", "write", "writing"}
Ending  == {"end", "shut", "cancel", "join"}
Reading == {"top", "read", "reading", "send"}

\* The reader runs from OpenPipe to Join, with the pipe and the socket there.
ReaderInv ==
    /\ mpc \in Before \cup {"close"} <=> rpc = "none"
    /\ mpc \in Before => pipe = "none"
    /\ mpc \in Relay \cup Ending => pipe # "none" /\ client # "none"
    /\ mpc # "accept" => client # "none"

\* Who has set closing, and what follows from it.
ClosingInv ==
    /\ mpc \in {"shut", "cancel", "join"} => closing
    /\ mpc = "close" => closing \/ client = "closed"
    /\ rpc \in {"shut", "cancel", "exit"} => closing
    /\ shut => closing
    /\ wio # "none" => mpc = "writing"
    /\ wio = "cancelled" => closing

\* A session begins with nothing.
FreshInv ==
    /\ mpc \in Before =>
          /\ ~closing
          /\ pipeq = << >> /\ appGot = << >>
          /\ appq = << >> /\ appSent = << >> /\ outq = << >> /\ clientGot = << >>
    /\ client = "none" => inq = << >> /\ half = None /\ clientSent = << >>

\* What is in the buffers.
BufferInv ==
    /\ mpc \in {"payload", "write", "writing"} => frame \in Frames
    /\ rpc = "send" => message \in Messages

\* Headers and payloads alternate, main's buffer and the client's half frame
\* included.
Cells == IF mpc = "payload" THEN <<<<"header", frame>>>> \o inq ELSE inq

After(x) == IF x[1] = "header" THEN {<<"payload", x[2]>>}
                               ELSE {"header"} \X (Frames \cup Oversized)

Alternate(cells, rest) ==
    /\ cells # << >> => cells[1][1] = "header"
    /\ \A n \in 1 .. Len(cells) - 1 : cells[n + 1] \in After(cells[n])
    /\ IF cells # << >> /\ cells[Len(cells)][1] = "header"
       THEN rest = cells[Len(cells)][2]
       ELSE rest = None

CellsInv == mpc \in Before \cup Relay => Alternate(Cells, half)

\* Frames from the client to the app.
ToApp == (appGot \o pipeq) \o (InHand(mpc \in {"write", "writing"}, frame) \o Payloads(inq))

FramesInv ==
    /\ IsPrefix(appGot \o pipeq, clientSent)
    /\ pipe # "broken" /\ (mpc \in Before \cup Relay \/ (client = "open" /\ ~closing))
          => clientSent = ToApp

\* Messages from the app to the client.
ToClient == (clientGot \o outq) \o (InHand(rpc = "send", message) \o Good(appq))

MessagesInv ==
    /\ IsPrefix(clientGot \o outq, Good(appSent))
    /\ rpc \in Reading => IsPrefix(ToClient, Good(appSent))
    /\ pipe = "open" /\ (rpc \in Reading \/ (client = "open" /\ ~closing))
          => Good(appSent) = ToClient

IInv ==
    /\ TypeOK /\ ReaderInv /\ ClosingInv /\ FreshInv /\ BufferInv
    /\ CellsInv /\ FramesInv /\ MessagesInv

Cell == {"header", "payload"} \X (Frames \cup Oversized)

\* A header after whole frames.
LEMMA AlternateHeader ==
  ASSUME NEW c \in Seq(Cell), NEW m \in Frames \cup Oversized, Alternate(c, None)
  PROVE  Alternate(Append(c, <<"header", m>>), m)
  <1> DEFINE d == Append(c, <<"header", m>>)
  <1>1. /\ Len(c) \in Nat /\ Len(d) = Len(c) + 1 /\ d[Len(d)] = <<"header", m>>
        /\ \A n \in 1 .. Len(c) : d[n] = c[n] /\ c[n] \in Cell
    BY DEF Cell
  <1> HIDE DEF d
  <1>2. ASSUME Len(c) # 0 PROVE c[Len(c)] = <<"payload", c[Len(c)][2]>>
    <2>1. Len(c) \in 1 .. Len(c) /\ c # << >>
      BY <1>1, <1>2
    <2>2. c[Len(c)] \in Cell
      BY <1>1, <2>1
    <2>3. c[Len(c)][1] # "header"
      BY <2>1, <2>2, BridgeAssumption DEF Alternate, Cell
    <2> QED
      BY <2>2, <2>3 DEF Cell
  <1>3. d[1][1] = "header"
    <2>1. CASE Len(c) = 0
      BY <1>1, <2>1
    <2>2. CASE Len(c) # 0
      <3>1. 1 \in 1 .. Len(c) /\ c # << >>
        BY <1>1, <2>2
      <3> QED
        BY <1>1, <3>1 DEF Alternate
    <2> QED
      BY <2>1, <2>2
  <1>4. ASSUME NEW n \in 1 .. Len(d) - 1 PROVE d[n + 1] \in After(d[n])
    <2>1. CASE n = Len(c)
      <3>1. d[n] = <<"payload", c[n][2]>> /\ d[n + 1] = <<"header", m>>
        <4>1. n \in 1 .. Len(c) /\ Len(c) # 0
          BY <1>1, <2>1
        <4> QED
          BY <1>1, <1>2, <2>1, <4>1
      <3> QED
        BY <3>1 DEF After
    <2>2. CASE n # Len(c)
      <3>1. n \in 1 .. Len(c) - 1 /\ n \in 1 .. Len(c) /\ n + 1 \in 1 .. Len(c)
        BY <1>1, <2>2
      <3>2. d[n] = c[n] /\ d[n + 1] = c[n + 1]
        BY <1>1, <3>1
      <3> QED
        BY <3>1, <3>2 DEF Alternate
    <2> QED
      BY <2>1, <2>2
  <1>5. Alternate(d, m)
    BY <1>1, <1>3, <1>4 DEF Alternate
  <1> QED
    BY <1>5 DEF d

\* The payload of the half frame.
LEMMA AlternatePayload ==
  ASSUME NEW c \in Seq(Cell), NEW m \in Frames \cup Oversized, Alternate(c, m)
  PROVE  Alternate(Append(c, <<"payload", m>>), None)
  <1> DEFINE d == Append(c, <<"payload", m>>)
  <1>1. /\ Len(c) \in Nat /\ Len(d) = Len(c) + 1 /\ d[Len(d)] = <<"payload", m>>
        /\ \A n \in 1 .. Len(c) : d[n] = c[n] /\ c[n] \in Cell
    BY DEF Cell
  <1> HIDE DEF d
  <1>2. c # << >> /\ c[Len(c)][1] = "header" /\ c[Len(c)][2] = m
    BY BridgeAssumption DEF Alternate
  <1>3. Len(c) # 0
    BY <1>2
  <1>4. d[1][1] = "header"
    <2>1. 1 \in 1 .. Len(c)
      BY <1>1, <1>3
    <2> QED
      BY <1>1, <1>2, <2>1 DEF Alternate
  <1>5. ASSUME NEW n \in 1 .. Len(d) - 1 PROVE d[n + 1] \in After(d[n])
    <2>1. CASE n = Len(c)
      <3>1. d[n][1] = "header" /\ d[n][2] = m /\ d[n + 1] = <<"payload", m>>
        <4>1. n \in 1 .. Len(c)
          BY <1>1, <2>1
        <4> QED
          BY <1>1, <1>2, <2>1, <4>1
      <3> QED
        BY <3>1 DEF After
    <2>2. CASE n # Len(c)
      <3>1. n \in 1 .. Len(c) - 1 /\ n \in 1 .. Len(c) /\ n + 1 \in 1 .. Len(c)
        BY <1>1, <2>2
      <3>2. d[n] = c[n] /\ d[n + 1] = c[n + 1]
        BY <1>1, <3>1
      <3> QED
        BY <3>1, <3>2 DEF Alternate
    <2> QED
      BY <2>1, <2>2
  <1>6. Alternate(d, None)
    BY <1>1, <1>4, <1>5 DEF Alternate
  <1> QED
    BY <1>6 DEF d

\* A whole frame taken from the front.
LEMMA AlternateFrame ==
  ASSUME NEW c \in Seq(Cell), NEW m \in Frames \cup Oversized, NEW rest,
         c # << >>, Alternate(<<<<"header", m>>>> \o c, rest)
  PROVE  Head(c) = <<"payload", m>> /\ Alternate(Tail(c), rest)
  <1> DEFINE d == <<<<"header", m>>>> \o c
             e == Tail(c)
  <1>1. /\ Len(c) \in Nat \ {0} /\ Len(d) = Len(c) + 1 /\ d[1] = <<"header", m>>
        /\ \A n \in 1 .. Len(c) : d[n + 1] = c[n] /\ c[n] \in Cell
        /\ Head(c) = c[1]
    BY DEF Cell
  <1>2. e \in Seq(Cell) /\ Len(e) = Len(c) - 1 /\ \A n \in 1 .. Len(e) : e[n] = c[n + 1]
    OBVIOUS
  <1>3. Alternate(d, rest)
    OBVIOUS
  <1> HIDE DEF d, e
  <1>4. \A n \in 1 .. Len(e) : e[n] = d[n + 2]
    <2> TAKE n \in 1 .. Len(e)
    <2>1. n + 1 \in 1 .. Len(c) /\ (n + 1) + 1 = n + 2
      BY <1>1, <1>2
    <2> QED
      BY <1>1, <1>2, <2>1
  <1>5. d[2] = <<"payload", m>> /\ Head(c) = d[2]
    <2>1. 1 \in 1 .. Len(d) - 1 /\ 1 \in 1 .. Len(c) /\ 1 + 1 = 2
      BY <1>1
    <2>2. d[1 + 1] \in After(d[1])
      BY <1>3, <2>1 DEF Alternate
    <2>3. d[2] = <<"payload", m>>
      BY <1>1, <2>1, <2>2 DEF After
    <2> QED
      BY <1>1, <2>1, <2>3
  <1>6. ASSUME e # << >> PROVE e[1][1] = "header"
    <2>1. 1 \in 1 .. Len(e) /\ 2 \in 1 .. Len(d) - 1 /\ 2 + 1 = 3 /\ 1 + 2 = 3
      BY <1>1, <1>2, <1>6
    <2>2. d[3] \in After(d[2]) /\ e[1] = d[3]
      BY <1>3, <1>4, <2>1 DEF Alternate
    <2> QED
      BY <1>5, <2>2 DEF After
  <1>7. ASSUME NEW n \in 1 .. Len(e) - 1 PROVE e[n + 1] \in After(e[n])
    <2>1. /\ n \in 1 .. Len(e) /\ n + 1 \in 1 .. Len(e) /\ n + 2 \in 1 .. Len(d) - 1
          /\ (n + 1) + 2 = (n + 2) + 1
      BY <1>1, <1>2
    <2> QED
      BY <1>3, <1>4, <2>1 DEF Alternate
  <1>8. IF e # << >> /\ e[Len(e)][1] = "header" THEN rest = e[Len(e)][2] ELSE rest = None
    <2>1. CASE e = << >>
      <3>1. Len(e) = 0
        BY <2>1
      <3>2. Len(d) = 2
        <4>1. Len(e) + 2 = Len(d)
          BY <1>1, <1>2
        <4> QED
          BY <3>1, <4>1
      <3>3. d # << >>
        BY <3>2
      <3> QED
        BY <1>3, <1>5, <2>1, <3>2, <3>3 DEF Alternate
    <2>2. CASE e # << >>
      <3>1. Len(e) \in 1 .. Len(e) /\ Len(e) + 2 = Len(d) /\ d # << >>
        BY <1>1, <1>2, <2>2
      <3>2. e[Len(e)] = d[Len(d)]
        BY <1>4, <3>1
      <3> QED
        BY <1>3, <2>2, <3>1, <3>2 DEF Alternate
    <2> QED
      BY <2>1, <2>2
  <1> QED
    BY <1>5, <1>6, <1>7, <1>8 DEF Alternate, e

\* The cells are cells.
LEMMA CellsType == TypeOK /\ BufferInv => Cells \in Seq(Cell)
  <1> SUFFICES ASSUME TypeOK, BufferInv PROVE Cells \in Seq(Cell)
    OBVIOUS
  <1>1. inq \in Seq(Cell)
    BY DEF TypeOK, Cell
  <1>2. CASE mpc = "payload"
    <2>1. <<"header", frame>> \in Cell
      BY <1>2 DEF BufferInv, Cell
    <2>2. <<<<"header", frame>>>> \in Seq(Cell)
      BY <2>1
    <2> QED
      BY <1>1, <1>2, <2>2 DEF Cells
  <1> QED
    BY <1>1, <1>2 DEF Cells

\* What the client sends comes last.
LEMMA CellsAppend ==
  ASSUME TypeOK, BufferInv, NEW c \in Cell, inq' = Append(inq, c), UNCHANGED <<mpc, frame>>
  PROVE  Cells' = Append(Cells, c)
  <1>1. CASE mpc = "payload"
    <2> DEFINE h == <<<<"header", frame>>>>
    <2>1. <<"header", frame>> \in Cell /\ inq \in Seq(Cell)
      BY <1>1 DEF BufferInv, Cell, TypeOK
    <2>2. h \in Seq(Cell) /\ inq \in Seq(Cell)
      BY <2>1
    <2>3. Cells = h \o inq /\ Cells' = h \o Append(inq, c)
      BY <1>1 DEF Cells
    <2> HIDE DEF h
    <2>4. h \o Append(inq, c) = Append(h \o inq, c)
      BY <2>2
    <2> QED
      BY <2>3, <2>4
  <1>2. CASE mpc # "payload"
    BY <1>2 DEF Cells
  <1> QED
    BY <1>1, <1>2


\* Every sequence is a prefix of itself.
LEMMA PrefixSelf == ASSUME NEW X, NEW s \in Seq(X) PROVE IsPrefix(s, s)
  <1>1. s = s \o << >> /\ << >> \in Seq(X)
    BY ConcatEmpty
  <1> QED
    BY <1>1, Prefix

\* What is a prefix stays one when more is sent.
LEMMA PrefixMore ==
  ASSUME NEW X, NEW s \in Seq(X), NEW t \in Seq(X), NEW x \in X, IsPrefix(s, t)
  PROVE  IsPrefix(s, Append(t, x))
  <1>1. PICK u \in Seq(X) : t = s \o u
    BY Prefix
  <1>2. /\ Append(t, x) = t \o <<x>> /\ <<x>> \in Seq(X) /\ Append(t, x) \in Seq(X)
        /\ u \o <<x>> \in Seq(X)
    OBVIOUS
  <1>3. (s \o u) \o <<x>> = s \o (u \o <<x>>)
    BY <1>2, ConcatAssoc, SMTT(30)
  <1> DEFINE v == u \o <<x>>
             w == Append(t, x)
  <1>4. v \in Seq(X) /\ w \in Seq(X) /\ w = s \o v
    BY <1>1, <1>2, <1>3
  <1> HIDE DEF v, w
  <1>5. IsPrefix(s, w)
    BY <1>4, Prefix
  <1> QED
    BY <1>5 DEF w

\* The beginning of a prefix is a prefix.
LEMMA PrefixLess ==
  ASSUME NEW X, NEW s \in Seq(X), NEW t \in Seq(X), NEW u \in Seq(X), IsPrefix(s \o u, t)
  PROVE  IsPrefix(s, t)
  <1> DEFINE w == s \o u
  <1>1. w \in Seq(X) /\ IsPrefix(w, t)
    OBVIOUS
  <1> HIDE DEF w
  <1>2. PICK v \in Seq(X) : t = w \o v
    BY <1>1, Prefix
  <1>3. (s \o u) \o v = s \o (u \o v) /\ u \o v \in Seq(X)
    BY ConcatAssoc, SMTT(30)
  <1> DEFINE r == u \o v
  <1>4. r \in Seq(X) /\ t = s \o r
    BY <1>2, <1>3 DEF w
  <1> HIDE DEF r
  <1> QED
    BY <1>4, Prefix

\* One element from the queue to what was read.
LEMMA MoveHead ==
  ASSUME NEW X, NEW s \in Seq(X), NEW q \in Seq(X), q # << >>
  PROVE  Append(s, Head(q)) \o Tail(q) = s \o q
  <1> DEFINE h == <<Head(q)>>
             v == Tail(q)
  <1>1. h \in Seq(X) /\ v \in Seq(X) /\ q = h \o v
    OBVIOUS
  <1>2. Append(s, Head(q)) = s \o h
    OBVIOUS
  <1> HIDE DEF h, v
  <1>3. (s \o h) \o v = s \o (h \o v)
    BY <1>1, ConcatAssoc, SMTT(30)
  <1> QED
    BY <1>1, <1>2, <1>3 DEF v

\* One element from a thread's hands to the queue.
LEMMA MoveHand ==
  ASSUME NEW X, NEW s \in Seq(X), NEW q \in Seq(X), NEW x \in X, NEW r \in Seq(X)
  PROVE  /\ (s \o Append(q, x)) \o r = (s \o q) \o (<<x>> \o r)
         /\ s \o Append(q, x) \in Seq(X)
  <1> DEFINE y == <<x>>
             z == s \o q
  <1>1. y \in Seq(X) /\ Append(q, x) = q \o y
    OBVIOUS
  <1> HIDE DEF y
  <1>2. z \o y = s \o (q \o y) /\ z \in Seq(X)
    BY <1>1, ConcatAssoc
  <1> HIDE DEF z
  <1>3. (z \o y) \o r = z \o (y \o r) /\ z \o y \in Seq(X)
    <2>1. z \in Seq(X) /\ y \in Seq(X)
      BY <1>1, <1>2
    <2>2. (z \o y) \o r = z \o (y \o r)
      BY <2>1, ConcatAssoc, SMTT(30)
    <2> QED
      BY <2>1, <2>2
  <1>4. s \o Append(q, x) = z \o y
    BY <1>1, <1>2
  <1> QED
    BY <1>3, <1>4 DEF z, y

\* One element more at the end of everything.
LEMMA MoveEnd ==
  ASSUME NEW X, NEW s \in Seq(X), NEW h \in Seq(X), NEW q \in Seq(X), NEW x \in X
  PROVE  s \o (h \o Append(q, x)) = (s \o (h \o q)) \o <<x>> /\ s \o (h \o q) \in Seq(X)
  <1> DEFINE r == h \o q
             y == <<x>>
  <1>1. y \in Seq(X) /\ Append(q, x) = q \o y
    OBVIOUS
  <1> HIDE DEF y
  <1>2. r \o y = h \o (q \o y) /\ r \in Seq(X)
    BY <1>1, ConcatAssoc
  <1> HIDE DEF r
  <1>3. (s \o r) \o y = s \o (r \o y) /\ s \o r \in Seq(X)
    <2>1. r \in Seq(X) /\ y \in Seq(X)
      BY <1>1, <1>2
    <2> QED
      BY <2>1, ConcatAssoc, SMTT(30)
  <1>4. s \o (h \o Append(q, x)) = (s \o r) \o y
    BY <1>1, <1>2, <1>3
  <1> QED
    BY <1>3, <1>4 DEF r, y


AnyFrame == Frames \cup Oversized
PayloadCell == {"payload"} \X AnyFrame

\* The payloads are frames; nothing has none.
LEMMA PayloadsType ==
  /\ \A q \in Seq(Cell) : Payloads(q) \in Seq(AnyFrame)
  /\ Payloads(<< >>) = << >>
  <1>1. ASSUME NEW q \in Seq(Cell) PROVE Payloads(q) \in Seq(AnyFrame)
    <2> DEFINE cells == Only(PayloadCell, q)
    <2>1. cells \in Seq(Cell \cap PayloadCell)
      BY OnlyType
    <2>2. Payloads(q) = [i \in 1 .. Len(cells) |-> cells[i][2]]
      BY DEF Payloads, PayloadCell, AnyFrame
    <2> HIDE DEF cells
    <2>3. Len(cells) \in Nat /\ \A i \in 1 .. Len(cells) : cells[i][2] \in AnyFrame
      BY <2>1 DEF PayloadCell, AnyFrame
    <2> QED
      BY <2>2, <2>3
  <1>2. Payloads(<< >>) = << >>
    BY OnlyEmpty DEF Payloads
  <1> QED
    BY <1>1, <1>2

\* A header arrives, or a payload.
LEMMA PayloadsAppend ==
  ASSUME NEW q \in Seq(Cell), NEW m \in AnyFrame
  PROVE  /\ Payloads(Append(q, <<"header", m>>)) = Payloads(q)
         /\ Payloads(Append(q, <<"payload", m>>)) = Append(Payloads(q), m)
  <1> DEFINE h == <<"header", m>>
             p == <<"payload", m>>
             cells == Only(PayloadCell, q)
             more == Append(cells, p)
  <1>1. h \in Cell /\ p \in Cell /\ h \notin PayloadCell /\ p \in PayloadCell /\ p[2] = m
    BY DEF Cell, PayloadCell, AnyFrame
  <1>2. cells \in Seq(Cell)
    BY OnlyType
  <1> HIDE DEF h, p
  <1>3. Only(PayloadCell, Append(q, h)) = cells /\ Only(PayloadCell, Append(q, p)) = more
    BY <1>1, OnlyAppend
  <1>4. /\ Payloads(q) = [i \in 1 .. Len(cells) |-> cells[i][2]]
        /\ Payloads(Append(q, h)) = Payloads(q)
        /\ Payloads(Append(q, p)) = [i \in 1 .. Len(more) |-> more[i][2]]
    BY <1>3 DEF Payloads, PayloadCell, AnyFrame
  <1>5. /\ Len(cells) \in Nat /\ Len(more) = Len(cells) + 1 /\ more[Len(more)] = p
        /\ \A i \in 1 .. Len(cells) : more[i] = cells[i]
    BY <1>1, <1>2
  <1>6. Payloads(q) \in Seq(AnyFrame)
    BY PayloadsType
  <1> DEFINE z == Payloads(q)
             y == Payloads(Append(q, p))
  <1>7. /\ z \in Seq(AnyFrame) /\ Len(z) = Len(cells)
        /\ \A i \in 1 .. Len(cells) : z[i] = cells[i][2]
    BY <1>4, <1>5, <1>6
  <1>8. y = [i \in 1 .. Len(more) |-> more[i][2]]
    BY <1>4
  <1> HIDE DEF cells, more, z, y
  <1>9. y = Append(z, m)
    <2> DEFINE v == Append(z, m)
    <2>1. /\ v \in Seq(AnyFrame) /\ Len(v) = Len(z) + 1 /\ v[Len(z) + 1] = m
          /\ \A i \in 1 .. Len(z) : v[i] = z[i]
      BY <1>7
    <2> HIDE DEF v
    <2>2. \A i \in 1 .. Len(more) : more[i][2] = v[i]
      <3> TAKE i \in 1 .. Len(more)
      <3>1. i = Len(cells) + 1 \/ i \in 1 .. Len(cells)
        BY <1>5
      <3> QED
        BY <1>1, <1>5, <1>7, <2>1, <3>1
    <2>3. v = [i \in 1 .. Len(more) |-> v[i]]
      BY <1>5, <1>7, <2>1
    <2>4. y = v
      BY <1>8, <2>2, <2>3
    <2> QED
      BY <2>4 DEF v
  <1> QED
    BY <1>4, <1>9 DEF h, p, z, y

\* A header is taken, or a payload.
LEMMA PayloadsHead ==
  ASSUME NEW q \in Seq(Cell), q # << >>, NEW m \in AnyFrame
  PROVE  /\ Head(q) = <<"header", m>> => Payloads(q) = Payloads(Tail(q))
         /\ Head(q) = <<"payload", m>> => Payloads(q) = <<m>> \o Payloads(Tail(q))
  <1> DEFINE rest == Only(PayloadCell, Tail(q))
  <1>0. Tail(q) \in Seq(Cell) /\ Head(q) \in Cell
    OBVIOUS
  <1>1. Only(PayloadCell, q) = IF Head(q) \in PayloadCell THEN <<Head(q)>> \o rest ELSE rest
    BY OnlyHead
  <1>2. rest \in Seq(Cell)
    BY <1>0, OnlyType
  <1>3. ASSUME Head(q) = <<"header", m>> PROVE Payloads(q) = Payloads(Tail(q))
    <2>1. Head(q) \notin PayloadCell
      BY <1>3 DEF PayloadCell
    <2> QED
      BY <1>1, <2>1 DEF Payloads, PayloadCell, AnyFrame
  <1>4. ASSUME Head(q) = <<"payload", m>> PROVE Payloads(q) = <<m>> \o Payloads(Tail(q))
    <2> DEFINE x == Head(q)
               more == <<x>> \o rest
               z == Payloads(Tail(q))
               y == Payloads(q)
    <2>1. x \in PayloadCell /\ x \in Cell /\ x[2] = m
      BY <1>0, <1>4 DEF PayloadCell
    <2>2. y = [i \in 1 .. Len(more) |-> more[i][2]]
      BY <1>1, <2>1 DEF Payloads, PayloadCell, AnyFrame
    <2>3. z = [i \in 1 .. Len(rest) |-> rest[i][2]]
      BY DEF Payloads, PayloadCell, AnyFrame
    <2>4. z \in Seq(AnyFrame)
      BY <1>0, PayloadsType
    <2> HIDE DEF x, z, y, rest
    <2>5. /\ Len(rest) \in Nat /\ Len(more) = Len(rest) + 1 /\ more[1] = x
          /\ \A i \in 2 .. Len(more) : more[i] = rest[i - 1] /\ i - 1 \in 1 .. Len(rest)
      BY <1>2, <2>1
    <2> HIDE DEF more
    <2>6. Len(z) = Len(rest) /\ \A i \in 1 .. Len(rest) : z[i] = rest[i][2]
      BY <2>3, <2>4, <2>5
    <2> DEFINE w == <<m>> \o z
    <2>7. w \in Seq(AnyFrame) /\ Len(w) = Len(z) + 1 /\ w[1] = m
          /\ \A i \in 2 .. Len(w) : w[i] = z[i - 1]
      BY <2>4
    <2> HIDE DEF w
    <2>8. \A i \in 1 .. Len(more) : more[i][2] = w[i]
      <3> TAKE i \in 1 .. Len(more)
      <3>1. i = 1 \/ i \in 2 .. Len(more)
        BY <2>5
      <3> QED
        BY <2>1, <2>5, <2>6, <2>7, <3>1, SMTT(30)
    <2>9. w = [i \in 1 .. Len(more) |-> w[i]]
      BY <2>5, <2>6, <2>7
    <2>10. y = w
      BY <2>2, <2>8, <2>9
    <2> QED
      BY <2>10 DEF y, w, z
  <1> QED
    BY <1>3, <1>4


\* What the frames invariant speaks of are sequences of frames.
LEMMA FramesTypes ==
  ASSUME TypeOK, BufferInv
  PROVE  /\ appGot \in Seq(AnyFrame) /\ pipeq \in Seq(AnyFrame)
         /\ appGot \o pipeq \in Seq(AnyFrame) /\ clientSent \in Seq(AnyFrame)
         /\ inq \in Seq(Cell) /\ Payloads(inq) \in Seq(AnyFrame)
         /\ InHand(mpc \in {"write", "writing"}, frame) \in Seq(AnyFrame)
  <1>1. /\ appGot \in Seq(AnyFrame) /\ pipeq \in Seq(AnyFrame)
        /\ clientSent \in Seq(AnyFrame) /\ inq \in Seq(Cell)
    BY DEF TypeOK, AnyFrame, Cell
  <1>2. appGot \o pipeq \in Seq(AnyFrame)
    BY <1>1
  <1>3. Payloads(inq) \in Seq(AnyFrame)
    BY <1>1, PayloadsType
  <1>4. InHand(mpc \in {"write", "writing"}, frame) \in Seq(AnyFrame)
    <2>1. CASE mpc \in {"write", "writing"}
      <3>1. frame \in AnyFrame
        BY <2>1 DEF BufferInv, AnyFrame
      <3> QED
        BY <2>1, <3>1 DEF InHand
    <2>2. CASE mpc \notin {"write", "writing"}
      BY <2>2 DEF InHand
    <2> QED
      BY <2>1, <2>2
  <1> QED
    BY <1>1, <1>2, <1>3, <1>4


AnyMessage == Messages \cup Malformed \cup TooLong

\* The messages whose header tells their length are kept, in order.
LEMMA GoodMessages ==
  /\ Good(<< >>) = << >>
  /\ \A q \in Seq(AnyMessage) :
        /\ Good(q) \in Seq(Messages)
        /\ \A m \in AnyMessage :
              Good(Append(q, m)) = IF m \in Messages THEN Append(Good(q), m) ELSE Good(q)
        /\ q # << >> =>
              Good(q) = IF Head(q) \in Messages THEN <<Head(q)>> \o Good(Tail(q))
                                                ELSE Good(Tail(q))
  <1>1. ASSUME NEW q \in Seq(AnyMessage) PROVE Good(q) \in Seq(Messages)
    <2>1. AnyMessage \cap Messages = Messages
      BY DEF AnyMessage
    <2> QED
      BY <2>1, OnlyType DEF Good
  <1>2. ASSUME NEW q \in Seq(AnyMessage), NEW m \in AnyMessage
        PROVE  Good(Append(q, m)) = IF m \in Messages THEN Append(Good(q), m) ELSE Good(q)
    BY OnlyAppend DEF Good
  <1>3. ASSUME NEW q \in Seq(AnyMessage), q # << >>
        PROVE  Good(q) = IF Head(q) \in Messages THEN <<Head(q)>> \o Good(Tail(q))
                                                 ELSE Good(Tail(q))
    BY <1>3, OnlyHead DEF Good
  <1> QED
    BY <1>1, <1>2, <1>3, OnlyEmpty DEF Good

\* What the messages invariant speaks of are sequences of messages.
LEMMA MessagesTypes ==
  ASSUME TypeOK, BufferInv
  PROVE  /\ clientGot \in Seq(Messages) /\ outq \in Seq(Messages)
         /\ clientGot \o outq \in Seq(Messages)
         /\ appq \in Seq(AnyMessage) /\ Good(appq) \in Seq(Messages)
         /\ appSent \in Seq(AnyMessage) /\ Good(appSent) \in Seq(Messages)
         /\ InHand(rpc = "send", message) \in Seq(Messages)
         /\ ToClient \in Seq(Messages)
  <1>1. /\ clientGot \in Seq(Messages) /\ outq \in Seq(Messages)
        /\ appq \in Seq(AnyMessage) /\ appSent \in Seq(AnyMessage)
    BY DEF TypeOK, AnyMessage
  <1>2. clientGot \o outq \in Seq(Messages)
    BY <1>1
  <1>3. Good(appq) \in Seq(Messages) /\ Good(appSent) \in Seq(Messages)
    BY <1>1, GoodMessages
  <1>4. InHand(rpc = "send", message) \in Seq(Messages)
    <2>1. CASE rpc = "send"
      <3>1. message \in Messages
        BY <2>1 DEF BufferInv
      <3> QED
        BY <2>1, <3>1 DEF InHand
    <2>2. CASE rpc # "send"
      BY <2>2 DEF InHand
    <2> QED
      BY <2>1, <2>2
  <1> DEFINE s == clientGot \o outq
             h == InHand(rpc = "send", message)
             q == Good(appq)
  <1>5. s \o (h \o q) \in Seq(Messages)
    <2>1. s \in Seq(Messages) /\ h \in Seq(Messages) /\ q \in Seq(Messages)
      BY <1>2, <1>3, <1>4
    <2> HIDE DEF s, h, q
    <2>2. h \o q \in Seq(Messages)
      BY <2>1
    <2> QED
      BY <2>1, <2>2
  <1> QED
    BY <1>1, <1>2, <1>3, <1>4, <1>5 DEF ToClient


\* Every step keeps the types.
LEMMA TypeStep ==
  TypeOK /\ BufferInv /\ [Next]_vars => TypeOK'
  <1> SUFFICES ASSUME TypeOK, BufferInv, [Next]_vars PROVE TypeOK'
    OBVIOUS
  <1> USE DEF TypeOK, OpStates, BufferInv, main, reader, socket, app, io,
          history
  <1>1. ASSUME MainStep PROVE TypeOK'
    <2>1. ASSUME Accept PROVE TypeOK'
      BY <2>1 DEF Accept, MainUnchanged
    <2>2. ASSUME OpenPipe PROVE TypeOK'
      BY <2>2 DEF OpenPipe
    <2>3. ASSUME PipeBusy PROVE TypeOK'
      BY <2>3 DEF PipeBusy, MainUnchanged
    <2>4. ASSUME PipeMissing PROVE TypeOK'
      BY <2>4 DEF PipeMissing, MainUnchanged
    <2>5. ASSUME Peek PROVE TypeOK'
      BY <2>5 DEF Peek, MainUnchanged
    <2>6. ASSUME Wake PROVE TypeOK'
      BY <2>6 DEF Wake, MainUnchanged
    <2>7. ASSUME WriterTop PROVE TypeOK'
      BY <2>7 DEF WriterTop, MainUnchanged
    <2>8. ASSUME RecvHeader PROVE TypeOK'
      BY <2>8 DEF RecvHeader, Fits
    <2>9. ASSUME RecvPayload PROVE TypeOK'
      BY <2>9 DEF RecvPayload
    <2>10. ASSUME RecvFails PROVE TypeOK'
      BY <2>10 DEF RecvFails, MainUnchanged, AfterCut
    <2>11. ASSUME WriteStart PROVE TypeOK'
      BY <2>11 DEF WriteStart
    <2>12. ASSUME WriteDone PROVE TypeOK'
      BY <2>12 DEF WriteDone
    <2>13. ASSUME WriteFails PROVE TypeOK'
      BY <2>13 DEF WriteFails
    <2>14. ASSUME EndMain PROVE TypeOK'
      BY <2>14 DEF EndMain, Ended
    <2>15. ASSUME Join PROVE TypeOK'
      BY <2>15 DEF Join
    <2>16. ASSUME JoinTimeout PROVE TypeOK'
      BY <2>16 DEF JoinTimeout, Cancelled
    <2>17. ASSUME Close PROVE TypeOK'
      <3>1. \A X : << >> \in Seq(X)
        OBVIOUS
      <3> QED
        BY <2>17, <3>1 DEF TypeOK, OpStates, main, reader, socket, app, io, history, Close
    <2> QED
      BY <1>1, <2>1, <2>2, <2>3, <2>4, <2>5, <2>6, <2>7, <2>8, <2>9, <2>10,
         <2>11, <2>12, <2>13, <2>14, <2>15, <2>16, <2>17 DEF MainStep
  <1>2. ASSUME ReaderStep PROVE TypeOK'
    <2>1. ASSUME ReaderTop PROVE TypeOK'
      BY <2>1 DEF ReaderTop
    <2>2. ASSUME ReadStart PROVE TypeOK'
      BY <2>2 DEF ReadStart
    <2>3. ASSUME ReadDone PROVE TypeOK'
      BY <2>3 DEF ReadDone, Drops
    <2>4. ASSUME ReadFails PROVE TypeOK'
      BY <2>4 DEF ReadFails
    <2>5. ASSUME Send PROVE TypeOK'
      BY <2>5 DEF Send
    <2>6. ASSUME SendFails PROVE TypeOK'
      BY <2>6 DEF SendFails
    <2>7. ASSUME EndReader PROVE TypeOK'
      BY <2>7 DEF EndReader, Ended
    <2> QED
      BY <1>2, <2>1, <2>2, <2>3, <2>4, <2>5, <2>6, <2>7 DEF ReaderStep
  <1>3. ASSUME EndStep PROVE TypeOK'
    <2>1. ASSUME Shutdown PROVE TypeOK'
      BY <2>1 DEF Shutdown
    <2>2. ASSUME Cancel PROVE TypeOK'
      BY <2>2 DEF Cancel, Cancelled
    <2> QED
      BY <1>3, <2>1, <2>2 DEF EndStep
  <1>4. ASSUME Client PROVE TypeOK'
    <2>1. ASSUME Connect PROVE TypeOK'
      BY <2>1 DEF Connect, ClientUnchanged
    <2>2. ASSUME ClientReads PROVE TypeOK'
      BY <2>2 DEF ClientReads, ClientUnchanged
    <2>3. ASSUME ClientCloses PROVE TypeOK'
      BY <2>3 DEF ClientCloses, ClientUnchanged
    <2>4. ASSUME SendsPayload PROVE TypeOK'
      BY <2>4 DEF SendsPayload, ClientUnchanged
    <2>5. ASSUME NEW m \in Frames \cup Oversized, SendsHeader(m) PROVE TypeOK'
      BY <2>5 DEF SendsHeader, ClientUnchanged
    <2> QED
      BY <1>4, <2>1, <2>2, <2>3, <2>4, <2>5 DEF Client
  <1>5. ASSUME App PROVE TypeOK'
    <2>1. ASSUME AppServes PROVE TypeOK'
      BY <2>1 DEF AppServes, AppUnchanged
    <2>2. ASSUME AppCloses PROVE TypeOK'
      <3>1. \A X : << >> \in Seq(X)
        OBVIOUS
      <3>2. /\ appq' \in Seq(Messages \cup Malformed \cup TooLong)
            /\ pipeq' \in Seq(Frames)
            /\ server' \in {"down", "free", "busy"} /\ pipe' \in {"none", "open", "broken"}
        BY <2>2, <3>1 DEF TypeOK, AppCloses
      <3> QED
        BY <2>2, <3>2 DEF TypeOK, OpStates, main, reader, socket, app, io, history,
           AppCloses, AppUnchanged
    <2>3. ASSUME AppReads PROVE TypeOK'
      BY <2>3 DEF AppReads, AppUnchanged
    <2>4. ASSUME NEW m \in Messages \cup Malformed \cup TooLong, AppSends(m)
                PROVE TypeOK'
      BY <2>4 DEF AppSends, AppUnchanged
    <2> QED
      BY <1>5, <2>1, <2>2, <2>3, <2>4 DEF App
  <1>6. ASSUME UNCHANGED vars PROVE TypeOK'
    BY <1>6 DEF vars
  <1> QED
    BY <1>1, <1>2, <1>3, <1>4, <1>5, <1>6 DEF Next

\* Every step keeps who runs, who ends the session and what a session starts
\* with.
LEMMA ControlStep ==
  TypeOK /\ ReaderInv /\ ClosingInv /\ FreshInv /\ BufferInv /\ [Next]_vars
  => (ReaderInv /\ ClosingInv /\ FreshInv /\ BufferInv)'
  <1> SUFFICES ASSUME TypeOK, ReaderInv, ClosingInv, FreshInv, BufferInv,
                      [Next]_vars PROVE (ReaderInv /\ ClosingInv /\ FreshInv /\
                      BufferInv)'
    OBVIOUS
  <1> USE DEF TypeOK, OpStates, ReaderInv, ClosingInv, FreshInv, BufferInv,
          Before, Relay, Ending, main, reader, socket, app, io, history
  <1>1. ASSUME MainStep PROVE (ReaderInv /\ ClosingInv /\ FreshInv /\ BufferInv)'
    <2>1. ASSUME Accept PROVE (ReaderInv /\ ClosingInv /\ FreshInv /\
                BufferInv)'
      BY <2>1 DEF Accept, MainUnchanged
    <2>2. ASSUME OpenPipe PROVE (ReaderInv /\ ClosingInv /\ FreshInv /\
                BufferInv)'
      BY <2>2 DEF OpenPipe
    <2>3. ASSUME PipeBusy PROVE (ReaderInv /\ ClosingInv /\ FreshInv /\
                BufferInv)'
      BY <2>3 DEF PipeBusy, MainUnchanged
    <2>4. ASSUME PipeMissing PROVE (ReaderInv /\ ClosingInv /\ FreshInv /\
                BufferInv)'
      BY <2>4 DEF PipeMissing, MainUnchanged
    <2>5. ASSUME Peek PROVE (ReaderInv /\ ClosingInv /\ FreshInv /\ BufferInv)'
      BY <2>5 DEF Peek, MainUnchanged
    <2>6. ASSUME Wake PROVE (ReaderInv /\ ClosingInv /\ FreshInv /\ BufferInv)'
      BY <2>6 DEF Wake, MainUnchanged
    <2>7. ASSUME WriterTop PROVE (ReaderInv /\ ClosingInv /\ FreshInv /\
                BufferInv)'
      BY <2>7 DEF WriterTop, MainUnchanged
    <2>8. ASSUME RecvHeader PROVE (ReaderInv /\ ClosingInv /\ FreshInv /\
                BufferInv)'
      BY <2>8 DEF RecvHeader, Fits
    <2>9. ASSUME RecvPayload PROVE (ReaderInv /\ ClosingInv /\ FreshInv /\
                BufferInv)'
      BY <2>9 DEF RecvPayload
    <2>10. ASSUME RecvFails PROVE (ReaderInv /\ ClosingInv /\ FreshInv /\
                BufferInv)'
      BY <2>10 DEF RecvFails, MainUnchanged, AfterCut
    <2>11. ASSUME WriteStart PROVE (ReaderInv /\ ClosingInv /\ FreshInv /\
                BufferInv)'
      BY <2>11 DEF WriteStart
    <2>12. ASSUME WriteDone PROVE (ReaderInv /\ ClosingInv /\ FreshInv /\
                BufferInv)'
      BY <2>12 DEF WriteDone
    <2>13. ASSUME WriteFails PROVE (ReaderInv /\ ClosingInv /\ FreshInv /\
                BufferInv)'
      BY <2>13 DEF WriteFails
    <2>14. ASSUME EndMain PROVE (ReaderInv /\ ClosingInv /\ FreshInv /\
                BufferInv)'
      BY <2>14 DEF EndMain, Ended
    <2>15. ASSUME Join PROVE (ReaderInv /\ ClosingInv /\ FreshInv /\
                BufferInv)'
      BY <2>15 DEF Join
    <2>16. ASSUME JoinTimeout PROVE (ReaderInv /\ ClosingInv /\ FreshInv /\
                BufferInv)'
      BY <2>16 DEF JoinTimeout, Cancelled
    <2>17. ASSUME Close PROVE (ReaderInv /\ ClosingInv /\ FreshInv /\
                BufferInv)'
      BY <2>17 DEF Close
    <2> QED
      BY <1>1, <2>1, <2>2, <2>3, <2>4, <2>5, <2>6, <2>7, <2>8, <2>9, <2>10,
         <2>11, <2>12, <2>13, <2>14, <2>15, <2>16, <2>17 DEF MainStep
  <1>2. ASSUME ReaderStep PROVE (ReaderInv /\ ClosingInv /\ FreshInv /\ BufferInv)'
    <2>1. ASSUME ReaderTop PROVE (ReaderInv /\ ClosingInv /\ FreshInv /\
                BufferInv)'
      BY <2>1 DEF ReaderTop
    <2>2. ASSUME ReadStart PROVE (ReaderInv /\ ClosingInv /\ FreshInv /\
                BufferInv)'
      BY <2>2 DEF ReadStart
    <2>3. ASSUME ReadDone PROVE (ReaderInv /\ ClosingInv /\ FreshInv /\
                BufferInv)'
      BY <2>3 DEF ReadDone, Drops
    <2>4. ASSUME ReadFails PROVE (ReaderInv /\ ClosingInv /\ FreshInv /\
                BufferInv)'
      BY <2>4 DEF ReadFails
    <2>5. ASSUME Send PROVE (ReaderInv /\ ClosingInv /\ FreshInv /\ BufferInv)'
      BY <2>5 DEF Send
    <2>6. ASSUME SendFails PROVE (ReaderInv /\ ClosingInv /\ FreshInv /\
                BufferInv)'
      BY <2>6 DEF SendFails
    <2>7. ASSUME EndReader PROVE (ReaderInv /\ ClosingInv /\ FreshInv /\
                BufferInv)'
      BY <2>7 DEF EndReader, Ended
    <2> QED
      BY <1>2, <2>1, <2>2, <2>3, <2>4, <2>5, <2>6, <2>7 DEF ReaderStep
  <1>3. ASSUME EndStep PROVE (ReaderInv /\ ClosingInv /\ FreshInv /\ BufferInv)'
    <2>1. ASSUME Shutdown PROVE (ReaderInv /\ ClosingInv /\ FreshInv /\
                BufferInv)'
      BY <2>1 DEF Shutdown
    <2>2. ASSUME Cancel PROVE (ReaderInv /\ ClosingInv /\ FreshInv /\
                BufferInv)'
      BY <2>2 DEF Cancel, Cancelled
    <2> QED
      BY <1>3, <2>1, <2>2 DEF EndStep
  <1>4. ASSUME Client PROVE (ReaderInv /\ ClosingInv /\ FreshInv /\ BufferInv)'
    <2>1. ASSUME Connect PROVE (ReaderInv /\ ClosingInv /\ FreshInv /\
                BufferInv)'
      BY <2>1 DEF Connect, ClientUnchanged
    <2>2. ASSUME ClientReads PROVE (ReaderInv /\ ClosingInv /\ FreshInv /\
                BufferInv)'
      BY <2>2 DEF ClientReads, ClientUnchanged
    <2>3. ASSUME ClientCloses PROVE (ReaderInv /\ ClosingInv /\ FreshInv /\
                BufferInv)'
      BY <2>3 DEF ClientCloses, ClientUnchanged
    <2>4. ASSUME SendsPayload PROVE (ReaderInv /\ ClosingInv /\ FreshInv /\
                BufferInv)'
      BY <2>4 DEF SendsPayload, ClientUnchanged
    <2>5. ASSUME NEW m \in Frames \cup Oversized, SendsHeader(m) PROVE
                (ReaderInv /\ ClosingInv /\ FreshInv /\ BufferInv)'
      BY <2>5 DEF SendsHeader, ClientUnchanged
    <2> QED
      BY <1>4, <2>1, <2>2, <2>3, <2>4, <2>5 DEF Client
  <1>5. ASSUME App PROVE (ReaderInv /\ ClosingInv /\ FreshInv /\ BufferInv)'
    <2>1. ASSUME AppServes PROVE (ReaderInv /\ ClosingInv /\ FreshInv /\
                BufferInv)'
      BY <2>1 DEF AppServes, AppUnchanged
    <2>2. ASSUME AppCloses PROVE (ReaderInv /\ ClosingInv /\ FreshInv /\
                BufferInv)'
      BY <2>2 DEF AppCloses, AppUnchanged
    <2>3. ASSUME AppReads PROVE (ReaderInv /\ ClosingInv /\ FreshInv /\
                BufferInv)'
      BY <2>3 DEF AppReads, AppUnchanged
    <2>4. ASSUME NEW m \in Messages \cup Malformed \cup TooLong, AppSends(m)
                PROVE (ReaderInv /\ ClosingInv /\ FreshInv /\ BufferInv)'
      BY <2>4 DEF AppSends, AppUnchanged
    <2> QED
      BY <1>5, <2>1, <2>2, <2>3, <2>4 DEF App
  <1>6. ASSUME UNCHANGED vars PROVE (ReaderInv /\ ClosingInv /\ FreshInv /\ BufferInv)'
    BY <1>6 DEF vars
  <1> QED
    BY <1>1, <1>2, <1>3, <1>4, <1>5, <1>6 DEF Next

\* Headers and payloads keep alternating.
LEMMA CellsStep ==
  TypeOK /\ BufferInv /\ CellsInv /\ [Next]_vars => CellsInv'
  <1> SUFFICES ASSUME TypeOK, BufferInv, CellsInv, [Next]_vars PROVE CellsInv'
    OBVIOUS
  <1>1. ASSUME MainStep PROVE CellsInv'
    <2>1. ASSUME Accept \/ OpenPipe \/ PipeBusy \/ PipeMissing \/ Peek \/ Wake
                \/ WriterTop \/ RecvFails \/ WriteStart \/ WriteDone \/
                WriteFails \/ EndMain \/ Join \/ JoinTimeout PROVE CellsInv'
      BY <2>1 DEF Accept, OpenPipe, PipeBusy, PipeMissing, Peek, Wake,
         WriterTop, RecvFails, WriteStart, WriteDone, WriteFails, EndMain,
         Join, JoinTimeout, MainUnchanged, AfterCut, Ended, Cancelled,
         CellsInv, Cells, Before, Relay, main, reader, socket, app, io, history
    <2>2. ASSUME RecvHeader PROVE CellsInv'
      <3>1. CASE mpc' = "payload"
        <4>1. /\ inq \in Seq(Cell) /\ inq # << >> /\ frame' = Head(inq)[2]
              /\ inq' = Tail(inq) /\ half' = half /\ Cells = inq /\ Alternate(inq, half)
          BY <2>2 DEF RecvHeader, TypeOK, Cell, CellsInv, Cells, Relay
        <4>2. Head(inq)[1] = "header"
          BY <4>1 DEF Alternate
        <4>3. Head(inq) = <<"header", frame'>> /\ inq = <<Head(inq)>> \o Tail(inq)
          BY <4>1, <4>2 DEF Cell
        <4>4. Cells' = inq
          BY <3>1, <4>1, <4>3 DEF Cells
        <4> QED
          BY <4>1, <4>4 DEF CellsInv
      <3> QED
        BY <2>2, <3>1 DEF RecvHeader, CellsInv, Before, Relay
    <2>3. ASSUME RecvPayload PROVE CellsInv'
      <3>1. /\ inq \in Seq(Cell) /\ inq # << >> /\ frame \in Frames \cup Oversized
            /\ Cells = <<<<"header", frame>>>> \o inq /\ Cells' = Tail(inq) /\ half' = half
            /\ Alternate(Cells, half)
        BY <2>3 DEF RecvPayload, TypeOK, BufferInv, Cell, CellsInv, Cells, Relay
      <3> QED
        BY <3>1, AlternateFrame DEF CellsInv
    <2>4. ASSUME Close PROVE CellsInv'
      <3>1. Cells' = << >> /\ half' = None
        BY <2>4 DEF Close, Cells
      <3> QED
        BY <3>1 DEF CellsInv, Alternate
    <2> QED
      BY <1>1, <2>1, <2>2, <2>3, <2>4 DEF MainStep
  <1>2. ASSUME ReaderStep PROVE CellsInv'
    <2>1. ASSUME ReaderTop \/ ReadStart \/ ReadDone \/ ReadFails \/ Send \/
                SendFails \/ EndReader PROVE CellsInv'
      BY <2>1 DEF ReaderTop, ReadStart, ReadDone, ReadFails, Send, SendFails,
         EndReader, Drops, Ended, CellsInv, Cells, Before, Relay, main, reader,
         socket, app, io, history
    <2> QED
      BY <1>2, <2>1 DEF ReaderStep
  <1>3. ASSUME EndStep PROVE CellsInv'
    <2>1. ASSUME Shutdown \/ Cancel PROVE CellsInv'
      BY <2>1 DEF Shutdown, Cancel, Cancelled, CellsInv, Cells, Before, Relay,
         main, reader, socket, app, io, history
    <2> QED
      BY <1>3, <2>1 DEF EndStep
  <1>4. ASSUME Client PROVE CellsInv'
    <2>1. ASSUME Connect \/ ClientReads \/ ClientCloses PROVE CellsInv'
      BY <2>1 DEF Connect, ClientReads, ClientCloses, ClientUnchanged,
         CellsInv, Cells, Before, Relay, main, reader, socket, app, io, history
    <2>2. ASSUME SendsPayload PROVE CellsInv'
      <3>1. CASE mpc' \in Before \cup Relay
        <4>0. half \in Frames \cup Oversized
          BY <2>2 DEF SendsPayload, TypeOK
        <4>1. Cells \in Seq(Cell) /\ Cells' = Append(Cells, <<"payload", half>>)
          BY <2>2, <4>0, CellsAppend, CellsType
             DEF SendsPayload, ClientUnchanged, main, Cell
        <4>2. Alternate(Cells, half) /\ half' = None
          BY <2>2, <3>1 DEF CellsInv, SendsPayload, ClientUnchanged, main
        <4> QED
          BY <4>0, <4>1, <4>2, AlternatePayload DEF CellsInv
      <3> QED
        BY <3>1 DEF CellsInv
    <2>3. ASSUME NEW m \in Frames \cup Oversized, SendsHeader(m) PROVE
                CellsInv'
      <3>1. CASE mpc' \in Before \cup Relay
        <4>1. Cells \in Seq(Cell) /\ Cells' = Append(Cells, <<"header", m>>)
          BY <2>3, CellsAppend, CellsType DEF SendsHeader, ClientUnchanged, main, Cell
        <4>2. Alternate(Cells, None) /\ half' = m
          BY <2>3, <3>1 DEF CellsInv, SendsHeader, ClientUnchanged, main
        <4> QED
          BY <4>1, <4>2, AlternateHeader DEF CellsInv
      <3> QED
        BY <3>1 DEF CellsInv
    <2> QED
      BY <1>4, <2>1, <2>2, <2>3 DEF Client
  <1>5. ASSUME App PROVE CellsInv'
    <2>1. ASSUME AppServes \/ AppCloses \/ AppReads \/ \E m \in Messages \cup
                Malformed \cup TooLong : AppSends(m) PROVE CellsInv'
      BY <2>1 DEF AppServes, AppCloses, AppReads, AppSends, AppUnchanged,
         CellsInv, Cells, Before, Relay, main, reader, socket, app, io, history
    <2> QED
      BY <1>5, <2>1 DEF App
  <1>6. ASSUME UNCHANGED vars PROVE CellsInv'
    BY <1>6 DEF vars, CellsInv, Cells, Before, Relay, main, reader, socket, app,
       io, history
  <1> QED
    BY <1>1, <1>2, <1>3, <1>4, <1>5, <1>6 DEF Next

\* Every step keeps the frames in order, and loses none before the end.
LEMMA FramesStep ==
  TypeOK /\ ReaderInv /\ ClosingInv /\ FreshInv /\ BufferInv /\ CellsInv /\
     FramesInv /\ [Next]_vars
  => FramesInv'
  <1> SUFFICES ASSUME TypeOK, ReaderInv, ClosingInv, FreshInv, BufferInv,
                      CellsInv, FramesInv, [Next]_vars PROVE FramesInv'
    OBVIOUS
  <1>1. ASSUME MainStep PROVE FramesInv'
    <2>1. ASSUME Accept \/ OpenPipe \/ PipeBusy \/ PipeMissing \/ Peek \/ Wake
                \/ WriterTop \/ RecvFails \/ WriteStart \/ WriteFails \/
                EndMain \/ Join \/ JoinTimeout PROVE FramesInv'
      BY <2>1 DEF Accept, OpenPipe, PipeBusy, PipeMissing, Peek, Wake,
         WriterTop, RecvFails, WriteStart, WriteFails, EndMain, Join,
         JoinTimeout, MainUnchanged, AfterCut, Ended, Cancelled, TypeOK,
         ReaderInv, ClosingInv, FramesInv, ToApp, InHand, Before, Relay, main,
         reader, socket, app, io, history
    <2>2. ASSUME RecvHeader PROVE FramesInv'
      <3>1. /\ inq \in Seq(Cell) /\ inq # << >> /\ inq' = Tail(inq)
            /\ mpc = "header" /\ mpc' \in {"payload", "end"}
            /\ UNCHANGED <<clientSent, appGot, pipeq, pipe, client, closing>>
        BY <2>2, FramesTypes DEF RecvHeader, app, history
      <3>2. Head(inq) \in Cell /\ Head(inq)[1] = "header"
        BY <3>1 DEF CellsInv, Cells, Relay, Alternate
      <3>3. Head(inq) = <<"header", Head(inq)[2]>> /\ Head(inq)[2] \in AnyFrame
        BY <3>2 DEF Cell, AnyFrame
      <3>4. Payloads(inq') = Payloads(inq)
        BY <3>1, <3>3, PayloadsHead
      <3> QED
        BY <3>1, <3>4 DEF FramesInv, ToApp, InHand, Before, Relay
    <2>3. ASSUME RecvPayload PROVE FramesInv'
      <3>1. /\ inq \in Seq(Cell) /\ inq # << >> /\ inq' = Tail(inq)
            /\ mpc = "payload" /\ mpc' = "write" /\ frame \in AnyFrame
            /\ UNCHANGED <<clientSent, appGot, pipeq, frame, pipe, client, closing>>
        BY <2>3, FramesTypes DEF RecvPayload, app, history, BufferInv, AnyFrame
      <3>2. Head(inq) = <<"payload", frame>>
        <4>1. Alternate(<<<<"header", frame>>>> \o inq, half)
          BY <3>1 DEF CellsInv, Cells, Relay
        <4> QED
          BY <3>1, <4>1, AlternateFrame DEF AnyFrame
      <3>3. Payloads(inq) = <<frame>> \o Payloads(inq')
        BY <3>1, <3>2, PayloadsHead
      <3>4. << >> \o Payloads(inq) = Payloads(inq)
        BY <3>1, PayloadsType
      <3>5. ToApp' = ToApp
        BY <3>1, <3>3, <3>4 DEF ToApp, InHand
      <3> QED
        BY <3>1, <3>5 DEF FramesInv, Before, Relay
    <2>4. ASSUME WriteDone PROVE FramesInv'
      <3>1. /\ mpc = "writing" /\ mpc' = "top" /\ pipe = "open" /\ frame \in AnyFrame
            /\ pipeq' = Append(pipeq, frame)
            /\ UNCHANGED <<inq, clientSent, appGot, frame, pipe, client, closing>>
        BY <2>4 DEF WriteDone, socket, app, history, BufferInv, AnyFrame
      <3> DEFINE s == appGot \o pipeq
                 z == appGot \o pipeq'
                 q == Payloads(inq)
      <3>2. /\ appGot \in Seq(AnyFrame) /\ pipeq \in Seq(AnyFrame) /\ q \in Seq(AnyFrame)
            /\ clientSent \in Seq(AnyFrame) /\ << >> \o q = q
        BY FramesTypes, ConcatEmpty
      <3>3. clientSent = s \o (<<frame>> \o q)
        BY <3>1 DEF FramesInv, ToApp, InHand, Relay
      <3>4. z \o q = s \o (<<frame>> \o q) /\ z \in Seq(AnyFrame)
        <4> HIDE DEF q
        <4>1. /\ appGot \in Seq(AnyFrame) /\ pipeq \in Seq(AnyFrame) /\ q \in Seq(AnyFrame)
              /\ frame \in AnyFrame
          BY <3>1, <3>2
        <4>2. /\ (appGot \o Append(pipeq, frame)) \o q = (appGot \o pipeq) \o (<<frame>> \o q)
              /\ appGot \o Append(pipeq, frame) \in Seq(AnyFrame)
          BY <4>1, MoveHand
        <4> QED
          BY <3>1, <4>2
      <3>5. clientSent = z \o q
        BY <3>3, <3>4
      <3>6. (appGot \o pipeq)' = z /\ ToApp' = z \o q
        BY <3>1, <3>2 DEF ToApp, InHand
      <3> HIDE DEF z, q
      <3>7. IsPrefix(z, clientSent)
        BY <3>2, <3>4, <3>5, Prefix
      <3> QED
        BY <3>1, <3>5, <3>6, <3>7 DEF FramesInv
    <2>5. ASSUME Close PROVE FramesInv'
      <3>1. /\ clientSent' = << >> /\ appGot' = << >> /\ pipeq' = << >> /\ inq' = << >>
            /\ mpc' = "accept"
        BY <2>5 DEF Close
      <3>2. << >> \o << >> = << >> /\ IsPrefix(<< >>, << >>)
        BY DEF IsPrefix
      <3> QED
        BY <3>1, <3>2, PayloadsType DEF FramesInv, ToApp, InHand
    <2> QED
      BY <1>1, <2>1, <2>2, <2>3, <2>4, <2>5 DEF MainStep
  <1>2. ASSUME ReaderStep PROVE FramesInv'
    <2>1. ASSUME ReaderTop \/ ReadStart \/ ReadDone \/ ReadFails \/ Send \/
                SendFails \/ EndReader PROVE FramesInv'
      BY <2>1 DEF ReaderTop, ReadStart, ReadDone, ReadFails, Send, SendFails,
         EndReader, Drops, Ended, TypeOK, ReaderInv, ClosingInv, FramesInv,
         ToApp, InHand, Before, Relay, main, reader, socket, app, io, history
    <2> QED
      BY <1>2, <2>1 DEF ReaderStep
  <1>3. ASSUME EndStep PROVE FramesInv'
    <2>1. ASSUME Shutdown \/ Cancel PROVE FramesInv'
      BY <2>1 DEF Shutdown, Cancel, Cancelled, TypeOK, ReaderInv, ClosingInv,
         FramesInv, ToApp, InHand, Before, Relay, main, reader, socket, app,
         io, history
    <2> QED
      BY <1>3, <2>1 DEF EndStep
  <1>4. ASSUME Client PROVE FramesInv'
    <2>1. ASSUME Connect \/ ClientReads \/ ClientCloses PROVE FramesInv'
      BY <2>1 DEF Connect, ClientReads, ClientCloses, ClientUnchanged, TypeOK,
         ReaderInv, ClosingInv, FramesInv, ToApp, InHand, Before, Relay, main,
         reader, socket, app, io, history
    <2>2. ASSUME SendsPayload PROVE FramesInv'
      <3>1. /\ half \in AnyFrame /\ clientSent' = Append(clientSent, half)
            /\ inq' = Append(inq, <<"payload", half>>)
            /\ UNCHANGED <<appGot, pipeq, mpc, frame, pipe, client, closing>>
        BY <2>2 DEF SendsPayload, ClientUnchanged, main, app, TypeOK, AnyFrame
      <3> DEFINE s == appGot \o pipeq
                 h == InHand(mpc \in {"write", "writing"}, frame)
                 q == Payloads(inq)
      <3>2. /\ s \in Seq(AnyFrame) /\ h \in Seq(AnyFrame) /\ q \in Seq(AnyFrame)
            /\ inq \in Seq(Cell) /\ clientSent \in Seq(AnyFrame)
        BY FramesTypes
      <3>3. IsPrefix(s', clientSent')
        <4>1. IsPrefix(s, clientSent) /\ s' = s
          BY <3>1 DEF FramesInv
        <4> HIDE DEF s
        <4> QED
          BY <3>1, <3>2, <4>1, PrefixMore
      <3>4. ToApp' = Append(s \o (h \o q), half)
        <4> DEFINE t == Payloads(inq')
        <4>1. t = Append(q, half)
          BY <3>1, <3>2, PayloadsAppend
        <4>2. ToApp' = s \o (h \o t)
          BY <3>1 DEF ToApp
        <4> HIDE DEF s, h, q, t
        <4>3. half \in AnyFrame /\ s \in Seq(AnyFrame) /\ h \in Seq(AnyFrame)
              /\ q \in Seq(AnyFrame)
          BY <3>1, <3>2
        <4> DEFINE w == s \o (h \o q)
        <4>4. s \o (h \o Append(q, half)) = w \o <<half>> /\ w \in Seq(AnyFrame)
          BY <4>3, MoveEnd
        <4> HIDE DEF w
        <4>5. Append(w, half) = w \o <<half>>
          BY <4>3, <4>4
        <4> QED
          BY <4>1, <4>2, <4>4, <4>5 DEF w
      <3>5. ToApp = s \o (h \o q)
        BY DEF ToApp
      <3> QED
        BY <3>1, <3>3, <3>4, <3>5 DEF FramesInv
    <2>3. ASSUME NEW m \in Frames \cup Oversized, SendsHeader(m) PROVE
                FramesInv'
      <3>1. /\ inq \in Seq(Cell) /\ inq' = Append(inq, <<"header", m>>)
            /\ UNCHANGED <<clientSent, appGot, pipeq, mpc, frame, pipe, client, closing>>
        BY <2>3, FramesTypes DEF SendsHeader, ClientUnchanged, main, app
      <3>2. Payloads(inq') = Payloads(inq)
        BY <3>1, PayloadsAppend DEF AnyFrame
      <3> QED
        BY <3>1, <3>2 DEF FramesInv, ToApp
    <2> QED
      BY <1>4, <2>1, <2>2, <2>3 DEF Client
  <1>5. ASSUME App PROVE FramesInv'
    <2>1. ASSUME AppServes \/ \E m \in Messages \cup Malformed \cup TooLong :
                AppSends(m) PROVE FramesInv'
      BY <2>1 DEF AppServes, AppSends, AppUnchanged, TypeOK, ReaderInv,
         ClosingInv, FramesInv, ToApp, InHand, Before, Relay, main, reader,
         socket, app, io, history
    <2>2. ASSUME AppCloses PROVE FramesInv'
      <3>1. /\ pipeq' = << >>
            /\ IF pipe = "none" THEN pipe' = "none" ELSE pipe' = "broken"
            /\ UNCHANGED <<inq, clientSent, appGot, mpc, frame, client, closing>>
        BY <2>2 DEF AppCloses, AppUnchanged, main, socket, TypeOK
      <3>2. IsPrefix(appGot' \o pipeq', clientSent')
        <4>1. /\ appGot \in Seq(AnyFrame) /\ pipeq \in Seq(AnyFrame)
              /\ clientSent \in Seq(AnyFrame)
          BY FramesTypes
        <4>2. IsPrefix(appGot, clientSent)
          BY <4>1, PrefixLess DEF FramesInv
        <4>3. appGot \o << >> = appGot
          BY <4>1, ConcatEmpty
        <4>4. appGot' \o pipeq' = appGot
          BY <3>1, <4>3
        <4> QED
          BY <3>1, <4>2, <4>4
      <3>3. CASE pipe' = "none" /\ (mpc \in Before \cup Relay \/ (client = "open" /\ ~closing))
        <4>1. pipe = "none" /\ mpc \in Before
          BY <3>1, <3>3 DEF TypeOK, ReaderInv, ClosingInv, Before, Relay, Ending
        <4>2. pipeq = << >> /\ clientSent = ToApp
          BY <4>1 DEF FreshInv, FramesInv
        <4>3. pipeq' = pipeq
          BY <3>1, <4>2
        <4>4. ToApp' = ToApp /\ clientSent' = clientSent
          BY <3>1, <4>3 DEF ToApp
        <4> QED
          BY <3>2, <4>2, <4>4 DEF FramesInv
      <3> QED
        BY <3>1, <3>2, <3>3 DEF FramesInv
    <2>3. ASSUME AppReads PROVE FramesInv'
      <3>1. /\ pipeq # << >> /\ appGot' = Append(appGot, Head(pipeq)) /\ pipeq' = Tail(pipeq)
            /\ UNCHANGED <<inq, clientSent, mpc, frame, pipe, client, closing>>
        BY <2>3 DEF AppReads, AppUnchanged, main, socket
      <3>2. appGot \in Seq(AnyFrame) /\ pipeq \in Seq(AnyFrame)
        BY FramesTypes
      <3>3. appGot' \o pipeq' = appGot \o pipeq
        <4>1. pipeq # << >>
          BY <3>1
        <4>2. Append(appGot, Head(pipeq)) \o Tail(pipeq) = appGot \o pipeq
          BY <3>2, <4>1, MoveHead
        <4> QED
          BY <3>1, <4>2
      <3> QED
        BY <3>1, <3>3 DEF FramesInv, ToApp
    <2> QED
      BY <1>5, <2>1, <2>2, <2>3 DEF App
  <1>6. ASSUME UNCHANGED vars PROVE FramesInv'
    BY <1>6 DEF vars, TypeOK, ReaderInv, ClosingInv, FramesInv, ToApp, InHand,
       Before, Relay, main, reader, socket, app, io, history
  <1> QED
    BY <1>1, <1>2, <1>3, <1>4, <1>5, <1>6 DEF Next

\* Every step keeps the messages in order, and loses none before the end.
LEMMA MessagesStep ==
  TypeOK /\ ReaderInv /\ ClosingInv /\ FreshInv /\ BufferInv /\ MessagesInv /\
     [Next]_vars
  => MessagesInv'
  <1> SUFFICES ASSUME TypeOK, ReaderInv, ClosingInv, FreshInv, BufferInv,
                      MessagesInv, [Next]_vars PROVE MessagesInv'
    OBVIOUS
  <1>1. ASSUME MainStep PROVE MessagesInv'
    <2>1. ASSUME Accept \/ PipeBusy \/ PipeMissing \/ Peek \/ Wake \/ WriterTop
                \/ RecvHeader \/ RecvPayload \/ RecvFails \/ WriteStart \/
                WriteDone \/ WriteFails \/ EndMain \/ Join \/ JoinTimeout PROVE
                MessagesInv'
      <3>1. UNCHANGED <<clientGot, outq, appSent, appq, message>>
        BY <2>1 DEF Accept, PipeBusy, PipeMissing, Peek, Wake, WriterTop,
           RecvHeader, RecvPayload, RecvFails, WriteStart, WriteDone, WriteFails,
           EndMain, Join, JoinTimeout, MainUnchanged, Fits, AfterCut, main,
           reader, socket, app, io, history
      <3>2. rpc' = rpc \/ (rpc # "send" /\ rpc' = "none")
        BY <2>1 DEF Accept, PipeBusy, PipeMissing, Peek, Wake, WriterTop,
           RecvHeader, RecvPayload, RecvFails, WriteStart, WriteDone, WriteFails,
           EndMain, Join, JoinTimeout, MainUnchanged, Fits, AfterCut, main,
           reader, socket, app, io, history
      <3>3. /\ pipe' = "open" => pipe = "open"
            /\ pipe = "open" /\ client' = "open" /\ ~closing'
                 => client = "open" /\ ~closing
        BY <2>1 DEF Accept, PipeBusy, PipeMissing, Peek, Wake, WriterTop,
           RecvHeader, RecvPayload, RecvFails, WriteStart, WriteDone, WriteFails,
           EndMain, Join, JoinTimeout, MainUnchanged, Fits, AfterCut, ReaderInv,
           Before, main, reader, socket, app, io, history
      <3>4. ToClient' = ToClient
        BY <3>1, <3>2 DEF ToClient, InHand
      <3>5. rpc' \in Reading => rpc' = rpc
        BY <3>2 DEF Reading
      <3> QED
        BY <3>1, <3>3, <3>4, <3>5 DEF MessagesInv
    <2>2. ASSUME OpenPipe PROVE MessagesInv'
      <3>1. /\ appq = << >> /\ appSent = << >> /\ outq = << >> /\ clientGot = << >>
            /\ rpc' = "top"
            /\ UNCHANGED <<appq, appSent, clientGot, outq, message>>
        BY <2>2 DEF OpenPipe, FreshInv, Before, history, socket
      <3>2. << >> \o << >> = << >> /\ IsPrefix(<< >>, << >>)
        BY DEF IsPrefix
      <3> QED
        BY <3>1, <3>2, GoodMessages DEF MessagesInv, ToClient, InHand
    <2>3. ASSUME Close PROVE MessagesInv'
      <3>1. /\ appq' = << >> /\ appSent' = << >> /\ outq' = << >> /\ clientGot' = << >>
            /\ rpc' = "none" /\ pipe' = "none"
        BY <2>3 DEF Close, ReaderInv
      <3>2. << >> \o << >> = << >> /\ IsPrefix(<< >>, << >>)
        BY DEF IsPrefix
      <3> QED
        BY <3>1, <3>2, GoodMessages DEF MessagesInv, Reading
    <2> QED
      BY <1>1, <2>1, <2>2, <2>3 DEF MainStep
  <1>2. ASSUME ReaderStep PROVE MessagesInv'
    <2>1. ASSUME ReaderTop \/ ReadStart \/ ReadFails \/ SendFails \/ EndReader
                PROVE MessagesInv'
      BY <2>1 DEF ReaderTop, ReadStart, ReadFails, SendFails, EndReader, Ended,
         TypeOK, ReaderInv, ClosingInv, MessagesInv, ToClient, InHand, Reading,
         Before, main, reader, socket, app, io, history
    <2>2. ASSUME ReadDone PROVE MessagesInv'
      <3>1. /\ appq # << >> /\ Head(appq) \notin TooLong
            /\ message' = Head(appq) /\ appq' = Tail(appq)
            /\ rpc = "reading" /\ rpc' = IF Head(appq) \in Malformed THEN "top" ELSE "send"
            /\ UNCHANGED <<pipe, appSent, clientGot, outq, client, closing>>
        BY <2>2 DEF ReadDone, Drops, history, socket
      <3>2. /\ appq \in Seq(AnyMessage) /\ Tail(appq) \in Seq(AnyMessage)
            /\ Head(appq) \in AnyMessage
        BY <3>1, MessagesTypes
      <3>3. Head(appq) \in Messages <=> rpc' = "send"
        BY <3>1, <3>2, BridgeAssumption DEF AnyMessage
      <3>4. Good(Tail(appq)) \in Seq(Messages) /\ << >> \o Good(appq) = Good(appq)
            /\ << >> \o Good(Tail(appq)) = Good(Tail(appq))
        BY <3>2, GoodMessages, ConcatEmpty
      <3>5. Good(appq) = InHand(rpc' = "send", message') \o Good(appq')
        BY <3>1, <3>2, <3>3, <3>4, GoodMessages DEF InHand
      <3>6. ToClient' = ToClient
        BY <3>1, <3>4, <3>5 DEF ToClient, InHand
      <3> QED
        BY <3>1, <3>6 DEF MessagesInv, Reading
    <2>3. ASSUME Send PROVE MessagesInv'
      <3>1. /\ rpc = "send" /\ rpc' = "top" /\ message \in Messages
            /\ outq' = Append(outq, message)
            /\ UNCHANGED <<pipe, appq, appSent, clientGot, message, client, closing>>
        BY <2>3 DEF Send, history, app, BufferInv
      <3> DEFINE s == clientGot \o outq
                 z == clientGot \o outq'
                 q == Good(appq)
                 t == Good(appSent)
      <3>2. /\ clientGot \in Seq(Messages) /\ outq \in Seq(Messages) /\ q \in Seq(Messages)
            /\ t \in Seq(Messages) /\ << >> \o q = q
        BY MessagesTypes, ConcatEmpty
      <3>3. z \o q = s \o (<<message>> \o q) /\ z \in Seq(Messages)
        <4> HIDE DEF q
        <4>1. /\ clientGot \in Seq(Messages) /\ outq \in Seq(Messages) /\ q \in Seq(Messages)
              /\ message \in Messages
          BY <3>1, <3>2
        <4>2. /\ (clientGot \o Append(outq, message)) \o q
                    = (clientGot \o outq) \o (<<message>> \o q)
              /\ clientGot \o Append(outq, message) \in Seq(Messages)
          BY <4>1, MoveHand
        <4> QED
          BY <3>1, <4>2
      <3>4. ToClient' = z \o q /\ ToClient = s \o (<<message>> \o q)
        BY <3>1, <3>2 DEF ToClient, InHand
      <3>5. IsPrefix(z \o q, t)
        BY <3>1, <3>3, <3>4 DEF MessagesInv, Reading
      <3>6. (clientGot \o outq)' = z /\ ToClient' = ToClient
        BY <3>1, <3>3, <3>4
      <3>7. IsPrefix(z, t)
        <4> HIDE DEF z, q, t
        <4> QED
          BY <3>2, <3>3, <3>5, PrefixLess
      <3> QED
        BY <3>1, <3>6, <3>7 DEF MessagesInv, Reading
    <2> QED
      BY <1>2, <2>1, <2>2, <2>3 DEF ReaderStep
  <1>3. ASSUME EndStep PROVE MessagesInv'
    <2>1. ASSUME Shutdown \/ Cancel PROVE MessagesInv'
      BY <2>1 DEF Shutdown, Cancel, Cancelled, TypeOK, ReaderInv, ClosingInv,
         MessagesInv, ToClient, InHand, Reading, Before, main, reader, socket,
         app, io, history
    <2> QED
      BY <1>3, <2>1 DEF EndStep
  <1>4. ASSUME Client PROVE MessagesInv'
    <2>1. ASSUME Connect \/ ClientCloses \/ SendsPayload \/ \E m \in Frames
                \cup Oversized : SendsHeader(m) PROVE MessagesInv'
      BY <2>1 DEF Connect, ClientCloses, SendsPayload, SendsHeader,
         ClientUnchanged, TypeOK, ReaderInv, ClosingInv, MessagesInv, ToClient,
         InHand, Reading, Before, main, reader, socket, app, io, history
    <2>2. ASSUME ClientReads PROVE MessagesInv'
      <3>1. /\ outq # << >> /\ clientGot' = Append(clientGot, Head(outq)) /\ outq' = Tail(outq)
            /\ UNCHANGED <<appq, appSent, rpc, message, pipe, client, closing>>
        BY <2>2 DEF ClientReads, ClientUnchanged, reader, app
      <3>2. clientGot' \o outq' = clientGot \o outq
        <4>1. clientGot \in Seq(Messages) /\ outq \in Seq(Messages)
          BY MessagesTypes
        <4>2. outq # << >>
          BY <3>1
        <4>3. Append(clientGot, Head(outq)) \o Tail(outq) = clientGot \o outq
          BY <4>1, <4>2, MoveHead
        <4> QED
          BY <3>1, <4>3
      <3> QED
        BY <3>1, <3>2 DEF MessagesInv, ToClient
    <2> QED
      BY <1>4, <2>1, <2>2 DEF Client
  <1>5. ASSUME App PROVE MessagesInv'
    <2>1. ASSUME AppServes \/ AppReads PROVE MessagesInv'
      BY <2>1 DEF AppServes, AppReads, AppUnchanged, TypeOK, ReaderInv,
         ClosingInv, MessagesInv, ToClient, InHand, Reading, Before, main,
         reader, socket, app, io, history
    <2>2. ASSUME AppCloses PROVE MessagesInv'
      <3>1. /\ pipe' # "open" /\ appq' \in {appq, << >>}
            /\ UNCHANGED <<appSent, clientGot, outq, rpc, message, client, closing>>
        BY <2>2 DEF AppCloses, AppUnchanged, reader, socket, TypeOK
      <3> DEFINE s == clientGot \o outq
                 h == InHand(rpc = "send", message)
                 q == Good(appq)
                 t == Good(appSent)
      <3>2. /\ s \in Seq(Messages) /\ h \in Seq(Messages) /\ q \in Seq(Messages)
            /\ t \in Seq(Messages)
        BY MessagesTypes
      <3>3. CASE appq' = appq
        BY <3>1, <3>3 DEF MessagesInv, ToClient
      <3>4. CASE appq' = << >>
        <4>1. ToClient = s \o (h \o q) /\ ToClient' = s \o (h \o << >>)
          BY <3>1, <3>4, GoodMessages DEF ToClient
        <4>2. ASSUME IsPrefix(s \o (h \o q), t) PROVE IsPrefix(s \o (h \o << >>), t)
          <5> HIDE DEF s, h, q, t
          <5>1. (s \o h) \o q = s \o (h \o q) /\ h \o << >> = h /\ s \o h \in Seq(Messages)
            BY <3>2, ConcatAssoc, ConcatEmpty
          <5> DEFINE w == s \o h
          <5>2. w \in Seq(Messages) /\ IsPrefix(w \o q, t)
            BY <4>2, <5>1
          <5> HIDE DEF w
          <5>3. IsPrefix(w, t)
            BY <3>2, <5>2, PrefixLess
          <5> QED
            BY <5>1, <5>3 DEF w
        <4> QED
          BY <3>1, <4>1, <4>2 DEF MessagesInv
      <3> QED
        BY <3>1, <3>3, <3>4
    <2>3. ASSUME NEW m \in Messages \cup Malformed \cup TooLong, AppSends(m)
                PROVE MessagesInv'
      <3>1. /\ m \in AnyMessage /\ pipe = "open"
            /\ appq' = Append(appq, m) /\ appSent' = Append(appSent, m)
            /\ UNCHANGED <<pipe, clientGot, outq, rpc, message, client, closing>>
        BY <2>3 DEF AppSends, AppUnchanged, reader, socket, AnyMessage
      <3> DEFINE s == clientGot \o outq
                 h == InHand(rpc = "send", message)
                 q == Good(appq)
                 t == Good(appSent)
      <3>2. /\ s \in Seq(Messages) /\ h \in Seq(Messages) /\ q \in Seq(Messages)
            /\ t \in Seq(Messages) /\ appq \in Seq(AnyMessage) /\ appSent \in Seq(AnyMessage)
        BY MessagesTypes
      <3>3. s' = s /\ ToClient = s \o (h \o q) /\ ToClient' = s \o (h \o Good(appq'))
        BY <3>1 DEF ToClient
      <3>4. IsPrefix(s, t) /\ (rpc \in Reading \/ (client = "open" /\ ~closing) => t = s \o (h \o q))
        BY <3>1, <3>3 DEF MessagesInv
      <3>5. CASE m \in Messages
        <4> DEFINE v == Good(appq')
        <4>1. Good(appSent') = Append(t, m) /\ v = Append(q, m)
          BY <3>1, <3>2, <3>5, GoodMessages
        <4>2. IsPrefix(s, Append(t, m))
          <5> HIDE DEF s, t
          <5> QED
            BY <3>2, <3>4, <3>5, PrefixMore
        <4>3. s \o (h \o v) = Append(s \o (h \o q), m)
          <5> HIDE DEF s, h, q, v
          <5>1. s \in Seq(Messages) /\ h \in Seq(Messages) /\ q \in Seq(Messages)
            BY <3>2
          <5> DEFINE w == s \o (h \o q)
          <5>2. s \o (h \o Append(q, m)) = w \o <<m>> /\ w \in Seq(Messages)
            BY <3>5, <5>1, MoveEnd
          <5> HIDE DEF w
          <5>3. Append(w, m) = w \o <<m>>
            BY <3>5, <5>2
          <5> QED
            BY <4>1, <5>2, <5>3 DEF w
        <4>4. rpc \in Reading \/ (client = "open" /\ ~closing) => Good(appSent') = ToClient'
          BY <3>3, <3>4, <4>1, <4>3
        <4>5. Good(appSent') \in Seq(Messages)
          BY <3>2, <3>5, <4>1
        <4>6. IsPrefix(Good(appSent'), Good(appSent'))
          BY <4>5, PrefixSelf
        <4> QED
          BY <3>1, <3>3, <4>1, <4>2, <4>4, <4>6 DEF MessagesInv
      <3>6. CASE m \notin Messages
        <4>1. Good(appSent') = t /\ Good(appq') = q
          BY <3>1, <3>2, <3>6, GoodMessages
        <4> QED
          BY <3>1, <3>3, <4>1 DEF MessagesInv
      <3> QED
        BY <3>5, <3>6
    <2> QED
      BY <1>5, <2>1, <2>2, <2>3 DEF App
  <1>6. ASSUME UNCHANGED vars PROVE MessagesInv'
    BY <1>6 DEF vars, TypeOK, ReaderInv, ClosingInv, MessagesInv, ToClient, InHand,
       Reading, Before, main, reader, socket, app, io, history
  <1> QED
    BY <1>1, <1>2, <1>3, <1>4, <1>5, <1>6 DEF Next


(***************************************************************************)
(* The theorems.                                                           *)
(***************************************************************************)

\* The invariant holds at the start.
LEMMA InitInv == Init => IInv
  <1> SUFFICES ASSUME Init PROVE IInv
    OBVIOUS
  <1>1. \A X : << >> \in Seq(X)
    OBVIOUS
  <1>2. TypeOK
    BY <1>1 DEF Init, TypeOK, OpStates
  <1>3. ReaderInv /\ ClosingInv /\ FreshInv /\ BufferInv
    BY DEF Init, ReaderInv, ClosingInv, FreshInv, BufferInv, Before, Relay, Ending
  <1>4. CellsInv
    BY DEF Init, CellsInv, Cells, Alternate
  <1>5. << >> \o << >> = << >> /\ IsPrefix(<< >>, << >>)
    BY DEF IsPrefix
  <1>6. FramesInv
    BY <1>5, PayloadsType DEF Init, FramesInv, ToApp, InHand
  <1>7. MessagesInv
    BY <1>5, GoodMessages DEF Init, MessagesInv, Reading
  <1> QED
    BY <1>2, <1>3, <1>4, <1>6, <1>7 DEF IInv

\* The invariant that the properties follow from: types, the life of the
\* reader, the order of the cells, and where every frame and message is.
THEOREM Invariance == Spec => []IInv
  <1>1. IInv /\ [Next]_vars => IInv'
    BY TypeStep, ControlStep, CellsStep, FramesStep, MessagesStep DEF IInv
  <1> QED
    BY InitInv, <1>1, PTL DEF Spec

\* Every variable keeps its type: only frames that fit are written to the pipe
\* and only messages whose header tells their length are sent to the client.
THEOREM TypeCorrect == Spec => []TypeOK
  <1>1. IInv => TypeOK
    BY DEF IInv
  <1> QED
    BY Invariance, <1>1, PTL

\* The handle and the socket outlive the reader's use of them (main joins the
\* reader before it closes them, bridge.c main()).
THEOREM HandleSafety == Spec => []HandleSafe
  <1>1. IInv => HandleSafe
    BY DEF IInv, TypeOK, ReaderInv, HandleSafe, Before, Relay, Ending
  <1> QED
    BY Invariance, <1>1, PTL

\* What arrives on either side is a prefix of what the other side sent, for any
\* number of frames, messages and sessions and pipes and sockets of any size.
THEOREM InOrder == Spec => []RelayedInOrder
  <1>1. IInv => RelayedInOrder
    BY DEF IInv, FramesInv, MessagesInv, RelayedInOrder
  <1> QED
    BY Invariance, <1>1, PTL

\* While both sides are there and the session is not ending, each frame and each
\* well-formed message is delivered, on its way, or in the hands of a thread.
THEOREM Complete == Spec => []NothingLost
  <1>1. IInv => NothingLost
    <2> SUFFICES ASSUME IInv, client = "open", pipe = "open", ~closing
                 PROVE  /\ clientSent = appGot \o pipeq
                             \o InHand(mpc \in {"write", "writing"}, frame) \o Payloads(inq)
                        /\ Good(appSent) = clientGot \o outq
                             \o InHand(rpc = "send", message) \o Good(appq)
      BY DEF NothingLost
    <2>1. clientSent = ToApp /\ Good(appSent) = ToClient
      BY DEF IInv, FramesInv, MessagesInv
    <2>2. ((appGot \o pipeq) \o InHand(mpc \in {"write", "writing"}, frame)) \o Payloads(inq)
          = ToApp
      <3> DEFINE s == appGot \o pipeq
                 h == InHand(mpc \in {"write", "writing"}, frame)
                 q == Payloads(inq)
      <3>1. s \in Seq(AnyFrame) /\ h \in Seq(AnyFrame) /\ q \in Seq(AnyFrame)
        BY FramesTypes DEF IInv
      <3>2. (s \o h) \o q = s \o (h \o q)
        <4> HIDE DEF s, h, q
        <4> QED
          BY <3>1, ConcatAssoc
      <3> QED
        BY <3>2 DEF ToApp
    <2>3. ((clientGot \o outq) \o InHand(rpc = "send", message)) \o Good(appq) = ToClient
      <3> DEFINE s == clientGot \o outq
                 h == InHand(rpc = "send", message)
                 q == Good(appq)
      <3>1. s \in Seq(Messages) /\ h \in Seq(Messages) /\ q \in Seq(Messages)
        BY MessagesTypes DEF IInv
      <3>2. (s \o h) \o q = s \o (h \o q)
        <4> HIDE DEF s, h, q
        <4> QED
          BY <3>1, ConcatAssoc
      <3> QED
        BY <3>2 DEF ToClient
    <2> QED
      BY <2>1, <2>2, <2>3
  <1> QED
    BY Invariance, <1>1, PTL

=============================================================================
