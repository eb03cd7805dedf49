-------------------------- MODULE PlaySpaceProofs --------------------------
(***************************************************************************)
(* Proofs about PlaySpace: the search of the chaperone data, and the       *)
(* conversions of poses between SteamVR's coordinates and the play space.  *)
(***************************************************************************)
EXTENDS PlaySpace, TLAPS, NaturalsInduction, WellFoundedInduction

(***************************************************************************)
(* The search.                                                             *)
(***************************************************************************)

\* Every set of natural numbers has a least element, and Min is it.
LEMMA MinIsLeast ==
  ASSUME NEW T \in SUBSET Nat, T # {}
  PROVE  Min(T) \in T /\ \A n \in T : Min(T) <= n
  <1> DEFINE R == {ss \in Nat \X Nat : ss[1] < ss[2]}
  <1>1. IsWellFoundedOn(R, Nat)
    BY NatLessThanWellFounded DEF OpToRel
  <1>2. \A x, y \in Nat : x < y => <<x, y>> \in R
    OBVIOUS
  <1> HIDE DEF R
  <1>3. PICK x \in T : \A y \in T : ~(<<y, x>> \in R)
    BY <1>1, WFMin
  <1>4. ASSUME NEW n \in T PROVE x <= n
    <2>1. n \in Nat /\ x \in Nat /\ ~(n < x)
      BY <1>2, <1>3
    <2> QED
      BY <2>1
  <1> QED
    BY <1>4 DEF Min

\* The entries of each source are of their types.
SearchTypes == sources \in [Sources -> Seq(Entries)]

\* What SteamVR publishes keeps the types.
LEMMA SearchTypesStep ==
  SearchTypes /\ [PlayNext]_(playVars) => SearchTypes'
  <1> SUFFICES ASSUME SearchTypes, [PlayNext]_(playVars) PROVE SearchTypes'
    OBVIOUS
  <1>1. CASE UNCHANGED sources
    BY <1>1 DEF SearchTypes
  <1>2. ASSUME NEW i \in Sources, NEW entry \in Entries, Publish(i, entry)
        PROVE  SearchTypes'
    <2>1. Append(sources[i], entry) \in Seq(Entries)
      BY DEF SearchTypes
    <2> QED
      BY <1>2, <2>1 DEF SearchTypes, Publish
  <1>3. ASSUME NEW i \in Sources, Withdraw(i) PROVE SearchTypes'
    <2>1. << >> \in Seq(Entries)
      OBVIOUS
    <2> QED
      BY <1>3, <2>1 DEF SearchTypes, Withdraw
  <1> QED
    BY <1>1, <1>2, <1>3 DEF PlayNext, playVars, Search, SetUniverse

\* A search of one source: its first entry for the universe decides.
LEMMA SourceGives ==
  ASSUME SearchTypes, NEW i \in Sources
  PROVE  LET found == SearchUniverse(sources[i], id)
         IN  /\ found # << >> =>
                    \E s \in Standings : /\ Gives(i, s)
                                         /\ found = <<[id |-> id, standing |-> s]>>
             /\ (\E s \in Standings : Gives(i, s)) => found # << >>
  <1> DEFINE q == sources[i]
             Hit(n) == uint64(q[n].uid) = id
             hits == {n \in DOMAIN q : Hit(n)}
             found == SearchUniverse(q, id)
             m == Min(hits)
  <1>1. q \in Seq(Entries) /\ DOMAIN q = 1 .. Len(q) /\ Len(q) \in Nat
    BY DEF SearchTypes
  <1>2. hits \in SUBSET Nat
    BY <1>1
  <1>3. CASE hits = {}
    <2>1. found = << >>
      BY <1>3 DEF SearchUniverse
    <2>2. ASSUME NEW s \in Standings, Gives(i, s) PROVE FALSE
      BY <1>3, <2>2 DEF Gives
    <2> QED
      BY <2>1, <2>2
  <1>4. CASE hits # {}
    <2> HIDE DEF hits
    <2>1. m \in hits /\ \A n \in hits : m <= n
      BY <1>2, <1>4, MinIsLeast
    <2> HIDE DEF m
    <2>2. /\ m \in 1 .. Len(q) /\ Hit(m)
          /\ \A k \in 1 .. m - 1 : ~Hit(k)
      <3>1. m \in 1 .. Len(q) /\ Hit(m)
        BY <1>1, <2>1 DEF hits
      <3>2. ASSUME NEW k \in 1 .. m - 1, Hit(k) PROVE FALSE
        <4>1. k \in 1 .. Len(q) /\ ~(m <= k)
          BY <1>1, <3>1
        <4>2. k \in hits
          BY <1>1, <3>2, <4>1 DEF hits
        <4> QED
          BY <2>1, <4>1, <4>2
      <3> QED
        BY <3>1, <3>2
    <2>3. q[m] \in Entries
      BY <1>1, <2>2
    <2>4. found = IF q[m].standing = Unusable THEN << >>
                  ELSE <<[id |-> id, standing |-> q[m].standing[1]]>>
      BY <1>4 DEF SearchUniverse, m, hits
    <2>5. CASE q[m].standing = Unusable
      <3>1. ASSUME NEW s \in Standings, Gives(i, s) PROVE FALSE
        <4>1. PICK n \in DOMAIN q : /\ Hit(n) /\ q[n].standing = <<s>>
                                    /\ \A k \in 1 .. n - 1 : ~Hit(k)
          BY <3>1 DEF Gives
        <4>2. n \in hits /\ n \in Nat
          BY <1>1, <4>1 DEF hits
        <4>3. n = m
          <5>1. m <= n
            BY <2>1, <4>2
          <5>2. m \notin 1 .. n - 1
            BY <2>2, <4>1
          <5> QED
            BY <1>1, <2>2, <4>2, <5>1, <5>2
        <4>4. <<s>> # << >>
          OBVIOUS
        <4> QED
          BY <2>5, <4>1, <4>3, <4>4 DEF Unusable
      <3>2. found = << >>
        BY <2>4, <2>5
      <3> QED
        BY <3>1, <3>2
    <2>6. CASE q[m].standing # Unusable
      <3>1. PICK s \in Standings : q[m].standing = <<s>>
        BY <2>3, <2>6 DEF Entries
      <3>2. Gives(i, s)
        BY <1>1, <2>2, <3>1 DEF Gives
      <3>3. found = <<[id |-> id, standing |-> s]>>
        BY <2>4, <2>6, <3>1
      <3>4. found # << >>
        BY <3>3
      <3> QED
        BY <3>2, <3>3, <3>4
    <2> QED
      BY <2>5, <2>6
  <1> QED
    BY <1>3, <1>4

\* What FirstSourceDecides says of a search.
Decides ==
  \/ \E i \in Sources, s \in Standings :
        /\ Gives(i, s) /\ universe' = <<[id |-> id, standing |-> s]>>
        /\ \A j \in 1 .. i - 1, t \in Standings : ~Gives(j, t)
  \/ /\ UNCHANGED universe
     /\ \A i \in Sources, s \in Standings : ~Gives(i, s)

\* A search of well-typed sources decides as it should.
LEMMA SearchDecides == ASSUME SearchTypes, Search PROVE Decides
  <1> DEFINE Found(n) == SearchUniverse(sources[n], id)
             hits == {n \in Sources : Found(n) # << >>}
  <1>0. /\ \A n \in Sources : InOrder[n] = n
        /\ Sources = 1 .. 3
    BY DEF Sources, InOrder
  <1>1. \A n \in Sources :
           /\ Found(n) # << >> =>
                  \E s \in Standings : /\ Gives(n, s)
                                       /\ Found(n) = <<[id |-> id, standing |-> s]>>
           /\ (\E s \in Standings : Gives(n, s)) => Found(n) # << >>
    BY SourceGives
  <1>2. universe' = IF hits = {} THEN universe ELSE Found(Min(hits))
    <2>1. hits = {n \in Sources :
                     SearchUniverse(sources[InOrder[n]], id) # << >>}
      BY <1>0
    <2>2. hits # {} => Min(hits) \in Sources
      <3>1. hits \in SUBSET Nat
        BY <1>0
      <3> QED
        BY <3>1, MinIsLeast
    <2> QED
      BY <1>0, <2>1, <2>2 DEF Search
  <1>3. CASE hits = {}
    BY <1>1, <1>2, <1>3 DEF Decides
  <1>4. CASE hits # {}
    <2> DEFINE m == Min(hits)
    <2>1. m \in hits /\ \A n \in hits : m <= n
      <3>1. hits \in SUBSET Nat
        BY <1>0
      <3> HIDE DEF hits
      <3> QED
        BY <1>4, <3>1, MinIsLeast
    <2>2. universe' = Found(m)
      BY <1>2, <1>4
    <2> HIDE DEF m
    <2>3. m \in Sources /\ Found(m) # << >>
      BY <2>1
    <2>4. PICK s \in Standings : Gives(m, s) /\ Found(m) = <<[id |-> id, standing |-> s]>>
      BY <1>1, <2>3
    <2>5. ASSUME NEW j \in 1 .. m - 1, NEW t \in Standings, Gives(j, t) PROVE FALSE
      <3>1. j \in Sources /\ ~(m <= j)
        BY <1>0, <2>3
      <3>2. j \in hits
        BY <1>1, <2>5, <3>1
      <3> QED
        BY <2>1, <3>1, <3>2
    <2> QED
      BY <2>2, <2>3, <2>4, <2>5 DEF Decides
  <1> QED
    BY <1>3, <1>4

\* UpdateUniverse takes the play space from the first source that gives one, for
\* any number of entries, any ids and play spaces: a malformed entry or source
\* hides no later one, and an earlier source is never passed over.
THEOREM SearchInOrder == PlaySpec => FirstSourceDecides
  <1>1. PlayInit => SearchTypes
    <2>1. << >> \in Seq(Entries)
      OBVIOUS
    <2> QED
      BY <2>1 DEF PlayInit, SearchTypes
  <1>2. SearchTypes /\ [PlayNext]_(playVars) => [Search => Decides]_(playVars)
    BY SearchDecides
  <1> QED
    BY <1>1, <1>2, SearchTypesStep, PTL DEF PlaySpec, FirstSourceDecides, Decides

\* The play space in use, once there is one, is one that a source gave.
UniverseTypes ==
  universe # << >> =>
    \E i, s : s \in Standings /\ universe = <<[id |-> i, standing |-> s]>>

PlayTypes == SearchTypes /\ UniverseTypes

\* The types are an invariant of the searches.
LEMMA PlayTypesInvariance == PlaySpec => []PlayTypes
  <1>1. PlayInit => PlayTypes
    <2>1. << >> \in Seq(Entries)
      OBVIOUS
    <2> QED
      BY <2>1 DEF PlayInit, PlayTypes, SearchTypes, UniverseTypes
  <1>2. PlayTypes /\ [PlayNext]_(playVars) => PlayTypes'
    <2> SUFFICES ASSUME PlayTypes, [PlayNext]_(playVars) PROVE PlayTypes'
      OBVIOUS
    <2>1. SearchTypes'
      BY SearchTypesStep DEF PlayTypes
    <2>2. CASE UNCHANGED universe
      BY <2>1, <2>2 DEF PlayTypes, UniverseTypes
    <2>3. CASE Search
      <3>1. Decides
        BY <2>3, SearchDecides DEF PlayTypes
      <3> QED
        BY <2>1, <2>2, <3>1 DEF PlayTypes, UniverseTypes, Decides
    <2> QED
      BY <2>2, <2>3 DEF PlayNext, playVars, Publish, Withdraw, SetUniverse
  <1> QED
    BY <1>1, <1>2, PTL DEF PlaySpec

(***************************************************************************)
(* Positions.                                                              *)
(***************************************************************************)

\* The tables of quarter turns.
LEMMA Tables ==
  /\ Cos[0] = 1 /\ Cos[-1] = 0 /\ Cos[-2] = -1 /\ Cos[-3] = 0
  /\ Sin[0] = 0 /\ Sin[-1] = -1 /\ Sin[-2] = 0 /\ Sin[-3] = 1
  /\ HalfCos[0] = 1 /\ HalfCos[1] = 1 /\ HalfCos[2] = 0 /\ HalfCos[3] = -1
  /\ HalfSin[0] = 0 /\ HalfSin[1] = 1 /\ HalfSin[2] = 1 /\ HalfSin[3] = 1
  BY DEF Cos, Sin, HalfCos, HalfSin

\* What SendHmdPose sends for a position, by yaw.
LEMMA Sent ==
  ASSUME NEW x \in Int, NEW y \in Int, NEW z \in Int, NEW k \in 0 .. 3
  PROVE  TurnY(<<x, y, z>>, -k) = CASE k = 0 -> <<x, y, z>>
                                       [] k = 1 -> <<-z, y, x>>
                                       [] k = 2 -> <<-x, y, -z>>
                                       [] k = 3 -> <<z, y, -x>>
  <1>0. -k = 0 - k
    OBVIOUS
  <1>1. CASE k = 0
    <2>1. 0 - k = 0
      BY <1>1
    <2>2. Cos[-k] = 1 /\ Sin[-k] = 0
      BY <1>0, <2>1, Tables
    <2>3. TurnY(<<x, y, z>>, -k) = <<x, y, z>>
      BY <2>2 DEF TurnY
    <2> QED
      BY <1>1, <2>3
  <1>2. CASE k = 1
    BY <1>2, Tables DEF TurnY
  <1>3. CASE k = 2
    BY <1>3, Tables DEF TurnY
  <1>4. CASE k = 3
    BY <1>4, Tables DEF TurnY
  <1> QED
    BY <1>1, <1>2, <1>3, <1>4

\* The rotation OnPosition applies, by yaw.
LEMMA Turned ==
  ASSUME NEW k \in 0 .. 3, NEW q, q = <<HalfCos[k], 0, HalfSin[k], 0>>
  PROVE  /\ Norm(q) = IF k \in {0, 2} THEN 1 ELSE 2
         /\ \A x, y, z \in Int :
               /\ k = 0 => Applied(Matrix(q), <<x, y, z>>) = <<x, y, z>>
               /\ k = 1 => Applied(Matrix(q), <<x, y, z>>) = <<2 * z, 2 * y, -(2 * x)>>
               /\ k = 2 => Applied(Matrix(q), <<x, y, z>>) = <<-x, y, -z>>
               /\ k = 3 => Applied(Matrix(q), <<x, y, z>>) = <<-(2 * z), 2 * y, 2 * x>>
  <1>1. CASE k = 0
    <2>1. q = <<1, 0, 0, 0>>
      BY <1>1, Tables
    <2>2. Norm(q) = 1
      BY <2>1 DEF Norm
    <2>3. ASSUME NEW x \in Int, NEW y \in Int, NEW z \in Int
          PROVE  Applied(Matrix(q), <<x, y, z>>) = <<x, y, z>>
      BY <2>1, <2>2 DEF Applied, Matrix, Dot
    <2> QED
      BY <1>1, <2>2, <2>3
  <1>2. CASE k = 1
    <2>1. q = <<1, 0, 1, 0>>
      BY <1>2, Tables
    <2>2. Norm(q) = 2
      BY <2>1 DEF Norm
    <2>3. ASSUME NEW x \in Int, NEW y \in Int, NEW z \in Int
          PROVE  Applied(Matrix(q), <<x, y, z>>) = <<2 * z, 2 * y, -(2 * x)>>
      BY <2>1, <2>2 DEF Applied, Matrix, Dot
    <2> QED
      BY <1>2, <2>2, <2>3
  <1>3. CASE k = 2
    <2>1. q = <<0, 0, 1, 0>>
      BY <1>3, Tables
    <2>2. Norm(q) = 1
      BY <2>1 DEF Norm
    <2>3. ASSUME NEW x \in Int, NEW y \in Int, NEW z \in Int
          PROVE  Applied(Matrix(q), <<x, y, z>>) = <<-x, y, -z>>
      BY <2>1, <2>2 DEF Applied, Matrix, Dot
    <2> QED
      BY <1>3, <2>2, <2>3
  <1>4. CASE k = 3
    <2>1. q = <<-1, 0, 1, 0>>
      BY <1>4, Tables
    <2>2. Norm(q) = 2
      BY <2>1 DEF Norm
    <2>3. ASSUME NEW x \in Int, NEW y \in Int, NEW z \in Int
          PROVE  Applied(Matrix(q), <<x, y, z>>) = <<-(2 * z), 2 * y, 2 * x>>
      BY <2>1, <2>2 DEF Applied, Matrix, Dot
    <2> QED
      BY <1>4, <2>2, <2>3
  <1> QED
    BY <1>1, <1>2, <1>3, <1>4

\* A position that SendHmdPose converts for the app and OnPosition converts back
\* is where it was, for any translation of the play space by integers and any
\* yaw of quarter turns: the part of ThereAndBack about positions.
THEOREM PositionsReturn ==
  ASSUME NEW s, s.translation \in Int \X Int \X Int, s.yaw \in 0 .. 3,
         NEW i, NEW p \in Int \X Int \X Int
  PROVE  LET u == <<[id |-> i, standing |-> s]>>
             wfd == WorldFromDriver(u)
             n == Norm(wfd.q)
         IN  Shifted(Applied(Matrix(wfd.q), SentPosition(p, u)),
                        Scaled(wfd.t, n))
                = Scaled(p, n)
  <1> DEFINE u == <<[id |-> i, standing |-> s]>>
             k == s.yaw
             q == <<HalfCos[k], 0, HalfSin[k], 0>>
             a == s.translation[1]
             b == s.translation[2]
             c == s.translation[3]
             x == p[1]
             y == p[2]
             z == p[3]
             wfd == WorldFromDriver(u)
  <1>1. /\ a \in Int /\ b \in Int /\ c \in Int /\ x \in Int /\ y \in Int /\ z \in Int
        /\ k \in 0 .. 3 /\ x + a \in Int /\ y + b \in Int /\ z + c \in Int
    OBVIOUS
  <1>2. u # << >> /\ u[1].standing = s
    OBVIOUS
  <1>3. wfd.t = <<-a, -b, -c>> /\ wfd.q = q
    BY <1>2 DEF WorldFromDriver
  <1>4. SentPosition(p, u) = TurnY(<<x + a, y + b, z + c>>, -k)
    BY <1>2 DEF SentPosition, ToStanding, Shifted
  <1> DEFINE X == x + a
             Y == y + b
             Z == z + c
  <1> HIDE DEF u, q, k, wfd
  <1>5. /\ Norm(q) = IF k \in {0, 2} THEN 1 ELSE 2
        /\ \A f, g, h \in Int :
               /\ k = 0 => Applied(Matrix(q), <<f, g, h>>) = <<f, g, h>>
               /\ k = 1 => Applied(Matrix(q), <<f, g, h>>) = <<2 * h, 2 * g, -(2 * f)>>
               /\ k = 2 => Applied(Matrix(q), <<f, g, h>>) = <<-f, g, -h>>
               /\ k = 3 => Applied(Matrix(q), <<f, g, h>>) = <<-(2 * h), 2 * g, 2 * f>>
    <2>1. q = <<HalfCos[k], 0, HalfSin[k], 0>>
      BY DEF q
    <2> QED
      BY <1>1, <2>1, Turned
  <1>6. /\ Shifted(<<X, Y, Z>>, Scaled(<<-a, -b, -c>>, 1)) = Scaled(p, 1)
        /\ Shifted(<<2 * X, 2 * Y, 2 * Z>>, Scaled(<<-a, -b, -c>>, 2))
              = Scaled(p, 2)
    BY <1>1 DEF Shifted, Scaled
  <1>7. /\ X \in Int /\ Y \in Int /\ Z \in Int
        /\ -X \in Int /\ -Z \in Int /\ -(-X) = X /\ -(-Z) = Z
        /\ -(2 * (-X)) = 2 * X /\ -(2 * (-Z)) = 2 * Z
    BY <1>1
  <1> HIDE DEF X, Y, Z, a, b, c, x, y, z
  <1>8. SentPosition(p, u) = TurnY(<<X, Y, Z>>, -k)
    BY <1>4 DEF X, Y, Z
  <1>9. \/ Norm(q) = 1 /\ Applied(Matrix(q), SentPosition(p, u)) = <<X, Y, Z>>
        \/ Norm(q) = 2 /\ Applied(Matrix(q), SentPosition(p, u))
                                = <<2 * X, 2 * Y, 2 * Z>>
    <2>1. CASE k = 0
      <3>1. SentPosition(p, u) = <<X, Y, Z>>
        BY <1>1, <1>7, <1>8, <2>1, Sent
      <3>2. Norm(q) = 1 /\ Applied(Matrix(q), <<X, Y, Z>>) = <<X, Y, Z>>
        BY <1>7, <1>5, <2>1
      <3> QED
        BY <3>1, <3>2
    <2>2. CASE k = 1
      <3>1. SentPosition(p, u) = <<-Z, Y, X>>
        BY <1>1, <1>7, <1>8, <2>2, Sent
      <3>2. /\ Norm(q) = 2
            /\ Applied(Matrix(q), <<-Z, Y, X>>) = <<2 * X, 2 * Y, -(2 * (-Z))>>
        BY <1>7, <1>5, <2>2
      <3> QED
        BY <1>7, <3>1, <3>2
    <2>3. CASE k = 2
      <3>1. SentPosition(p, u) = <<-X, Y, -Z>>
        BY <1>1, <1>7, <1>8, <2>3, Sent
      <3>2. /\ Norm(q) = 1
            /\ Applied(Matrix(q), <<-X, Y, -Z>>) = <<-(-X), Y, -(-Z)>>
        BY <1>7, <1>5, <2>3
      <3> QED
        BY <1>7, <3>1, <3>2
    <2>4. CASE k = 3
      <3>1. SentPosition(p, u) = <<Z, Y, -X>>
        BY <1>1, <1>7, <1>8, <2>4, Sent
      <3>2. /\ Norm(q) = 2
            /\ Applied(Matrix(q), <<Z, Y, -X>>) = <<-(2 * (-X)), 2 * Y, 2 * Z>>
        BY <1>7, <1>5, <2>4
      <3> QED
        BY <1>7, <3>1, <3>2
    <2> QED
      BY <1>1, <2>1, <2>2, <2>3, <2>4
  <1>10. Shifted(Applied(Matrix(q), SentPosition(p, u)),
                    Scaled(<<-a, -b, -c>>, Norm(q))) = Scaled(p, Norm(q))
    BY <1>6, <1>9
  <1> QED
    BY <1>3, <1>10 DEF u, wfd

(***************************************************************************)
(* Rotations.                                                              *)
(***************************************************************************)

\* A matrix times a number.
Times(m, n) == <<Scaled(m[1], n), Scaled(m[2], n), Scaled(m[3], n)>>

Quaternions == Int \X Int \X Int \X Int

\* Quaternion q, of whichever length, is the orientation m.
Fits(q, m) == q \in Quaternions /\ Norm(q) \in Nat \ {0} /\ Matrix(q) = Times(m, Norm(q))

\* Orientation m, turned by minus k quarter turns about the Y axis.
RowsTurned(m, k) == CASE k = 0 -> m
                      [] k = 1 -> <<Scaled(m[3], -1), m[2], m[1]>>
                      [] k = 2 -> <<Scaled(m[1], -1), m[2], Scaled(m[3], -1)>>
                      [] k = 3 -> <<m[3], m[2], Scaled(m[1], -1)>>

\* An orientation by its first two rows.
LEMMA Rows ==
  ASSUME NEW m \in Exact
  PROVE  /\ ~Borderline(m)
         /\ \E x, y \in Axes : Cross(x, y) # <<0, 0, 0>> /\ m = <<x, y, Cross(x, y)>>
  BY DEF Exact, Orientations

\* The quaternion that the code makes of each orientation is of that orientation:
\* the signs of its elements are right.
LEMMA QuaternionFits == ASSUME NEW m \in Exact PROVE Fits(Quaternion(m), m)
  <1>1. ~Borderline(m)
    BY Rows
  <1>2. PICK x \in Axes, y \in Axes : Cross(x, y) # <<0, 0, 0>> /\ m = <<x, y, Cross(x, y)>>
    BY Rows
  <1>3. CASE x = <<1, 0, 0>>
    <2>1. m \in {<<<<1, 0, 0>>, <<0, 1, 0>>, <<0, 0, 1>>>>,
                <<<<1, 0, 0>>, <<0, 0, 1>>, <<0, -1, 0>>>>,
                <<<<1, 0, 0>>, <<0, -1, 0>>, <<0, 0, -1>>>>,
                <<<<1, 0, 0>>, <<0, 0, -1>>, <<0, 1, 0>>>>}
      BY <1>2, <1>3 DEF Axes, Cross
    <2>2. CASE m = <<<<1, 0, 0>>, <<0, 1, 0>>, <<0, 0, 1>>>>
      <3>1. Quaternion(m) = <<1, 0, 0, 0>>
        BY <2>2 DEF Quaternion, Component, Sign
      <3>2. Fits(<<1, 0, 0, 0>>, m)
        BY <2>2 DEF Matrix, Norm, Scaled, Fits, Times, Quaternions
      <3> QED
        BY <3>1, <3>2
    <2>3. CASE m = <<<<1, 0, 0>>, <<0, 0, 1>>, <<0, -1, 0>>>>
      <3>1. Quaternion(m) = <<1, -1, 0, 0>>
        BY <2>3 DEF Quaternion, Component, Sign
      <3>2. Fits(<<1, -1, 0, 0>>, m)
        BY <2>3 DEF Matrix, Norm, Scaled, Fits, Times, Quaternions
      <3> QED
        BY <3>1, <3>2
    <2>4. CASE m = <<<<1, 0, 0>>, <<0, -1, 0>>, <<0, 0, -1>>>>
      <3>1. Quaternion(m) = <<0, 1, 0, 0>>
        BY <2>4 DEF Quaternion, Component, Sign
      <3>2. Fits(<<0, 1, 0, 0>>, m)
        BY <2>4 DEF Matrix, Norm, Scaled, Fits, Times, Quaternions
      <3> QED
        BY <3>1, <3>2
    <2>5. CASE m = <<<<1, 0, 0>>, <<0, 0, -1>>, <<0, 1, 0>>>>
      <3>1. Quaternion(m) = <<1, 1, 0, 0>>
        BY <2>5 DEF Quaternion, Component, Sign
      <3>2. Fits(<<1, 1, 0, 0>>, m)
        BY <2>5 DEF Matrix, Norm, Scaled, Fits, Times, Quaternions
      <3> QED
        BY <3>1, <3>2
    <2> QED
      BY <2>1, <2>2, <2>3, <2>4, <2>5
  <1>4. CASE x = <<0, 1, 0>>
    <2>1. m \in {<<<<0, 1, 0>>, <<1, 0, 0>>, <<0, 0, -1>>>>,
                <<<<0, 1, 0>>, <<0, 0, 1>>, <<1, 0, 0>>>>,
                <<<<0, 1, 0>>, <<-1, 0, 0>>, <<0, 0, 1>>>>,
                <<<<0, 1, 0>>, <<0, 0, -1>>, <<-1, 0, 0>>>>}
      BY <1>2, <1>4 DEF Axes, Cross
    <2>2. CASE m = <<<<0, 1, 0>>, <<1, 0, 0>>, <<0, 0, -1>>>>
      <3>1. Quaternion(m) = <<0, 1, 1, 0>>
        BY <2>2 DEF Quaternion, Component, Sign
      <3>2. Fits(<<0, 1, 1, 0>>, m)
        BY <2>2 DEF Matrix, Norm, Scaled, Fits, Times, Quaternions
      <3> QED
        BY <3>1, <3>2
    <2>3. CASE m = <<<<0, 1, 0>>, <<0, 0, 1>>, <<1, 0, 0>>>>
      <3>1. Quaternion(m) = <<1, -1, -1, -1>>
        BY <2>3 DEF Quaternion, Component, Sign
      <3>2. Fits(<<1, -1, -1, -1>>, m)
        BY <2>3 DEF Matrix, Norm, Scaled, Fits, Times, Quaternions
      <3> QED
        BY <3>1, <3>2
    <2>4. CASE m = <<<<0, 1, 0>>, <<-1, 0, 0>>, <<0, 0, 1>>>>
      <3>1. Quaternion(m) = <<1, 0, 0, -1>>
        BY <2>4 DEF Quaternion, Component, Sign
      <3>2. Fits(<<1, 0, 0, -1>>, m)
        BY <2>4 DEF Matrix, Norm, Scaled, Fits, Times, Quaternions
      <3> QED
        BY <3>1, <3>2
    <2>5. CASE m = <<<<0, 1, 0>>, <<0, 0, -1>>, <<-1, 0, 0>>>>
      <3>1. Quaternion(m) = <<1, 1, 1, -1>>
        BY <2>5 DEF Quaternion, Component, Sign
      <3>2. Fits(<<1, 1, 1, -1>>, m)
        BY <2>5 DEF Matrix, Norm, Scaled, Fits, Times, Quaternions
      <3> QED
        BY <3>1, <3>2
    <2> QED
      BY <2>1, <2>2, <2>3, <2>4, <2>5
  <1>5. CASE x = <<0, 0, 1>>
    <2>1. m \in {<<<<0, 0, 1>>, <<1, 0, 0>>, <<0, 1, 0>>>>,
                <<<<0, 0, 1>>, <<0, 1, 0>>, <<-1, 0, 0>>>>,
                <<<<0, 0, 1>>, <<-1, 0, 0>>, <<0, -1, 0>>>>,
                <<<<0, 0, 1>>, <<0, -1, 0>>, <<1, 0, 0>>>>}
      BY <1>2, <1>5 DEF Axes, Cross
    <2>2. CASE m = <<<<0, 0, 1>>, <<1, 0, 0>>, <<0, 1, 0>>>>
      <3>1. Quaternion(m) = <<1, 1, 1, 1>>
        BY <2>2 DEF Quaternion, Component, Sign
      <3>2. Fits(<<1, 1, 1, 1>>, m)
        BY <2>2 DEF Matrix, Norm, Scaled, Fits, Times, Quaternions
      <3> QED
        BY <3>1, <3>2
    <2>3. CASE m = <<<<0, 0, 1>>, <<0, 1, 0>>, <<-1, 0, 0>>>>
      <3>1. Quaternion(m) = <<1, 0, 1, 0>>
        BY <2>3 DEF Quaternion, Component, Sign
      <3>2. Fits(<<1, 0, 1, 0>>, m)
        BY <2>3 DEF Matrix, Norm, Scaled, Fits, Times, Quaternions
      <3> QED
        BY <3>1, <3>2
    <2>4. CASE m = <<<<0, 0, 1>>, <<-1, 0, 0>>, <<0, -1, 0>>>>
      <3>1. Quaternion(m) = <<1, -1, 1, -1>>
        BY <2>4 DEF Quaternion, Component, Sign
      <3>2. Fits(<<1, -1, 1, -1>>, m)
        BY <2>4 DEF Matrix, Norm, Scaled, Fits, Times, Quaternions
      <3> QED
        BY <3>1, <3>2
    <2>5. CASE m = <<<<0, 0, 1>>, <<0, -1, 0>>, <<1, 0, 0>>>>
      <3>1. Quaternion(m) = <<0, 1, 0, 1>>
        BY <2>5 DEF Quaternion, Component, Sign
      <3>2. Fits(<<0, 1, 0, 1>>, m)
        BY <2>5 DEF Matrix, Norm, Scaled, Fits, Times, Quaternions
      <3> QED
        BY <3>1, <3>2
    <2> QED
      BY <2>1, <2>2, <2>3, <2>4, <2>5
  <1>6. CASE x = <<-1, 0, 0>>
    <2>1. m \in {<<<<-1, 0, 0>>, <<0, 1, 0>>, <<0, 0, -1>>>>,
                <<<<-1, 0, 0>>, <<0, 0, 1>>, <<0, 1, 0>>>>,
                <<<<-1, 0, 0>>, <<0, -1, 0>>, <<0, 0, 1>>>>,
                <<<<-1, 0, 0>>, <<0, 0, -1>>, <<0, -1, 0>>>>}
      BY <1>2, <1>6 DEF Axes, Cross
    <2>2. CASE m = <<<<-1, 0, 0>>, <<0, 1, 0>>, <<0, 0, -1>>>>
      <3>1. Quaternion(m) = <<0, 0, 1, 0>>
        BY <2>2 DEF Quaternion, Component, Sign
      <3>2. Fits(<<0, 0, 1, 0>>, m)
        BY <2>2 DEF Matrix, Norm, Scaled, Fits, Times, Quaternions
      <3> QED
        BY <3>1, <3>2
    <2>3. CASE m = <<<<-1, 0, 0>>, <<0, 0, 1>>, <<0, 1, 0>>>>
      <3>1. Quaternion(m) = <<0, 0, 1, 1>>
        BY <2>3 DEF Quaternion, Component, Sign
      <3>2. Fits(<<0, 0, 1, 1>>, m)
        BY <2>3 DEF Matrix, Norm, Scaled, Fits, Times, Quaternions
      <3> QED
        BY <3>1, <3>2
    <2>4. CASE m = <<<<-1, 0, 0>>, <<0, -1, 0>>, <<0, 0, 1>>>>
      <3>1. Quaternion(m) = <<0, 0, 0, 1>>
        BY <2>4 DEF Quaternion, Component, Sign
      <3>2. Fits(<<0, 0, 0, 1>>, m)
        BY <2>4 DEF Matrix, Norm, Scaled, Fits, Times, Quaternions
      <3> QED
        BY <3>1, <3>2
    <2>5. CASE m = <<<<-1, 0, 0>>, <<0, 0, -1>>, <<0, -1, 0>>>>
      BY <1>1, <2>5 DEF Borderline
    <2> QED
      BY <2>1, <2>2, <2>3, <2>4, <2>5
  <1>7. CASE x = <<0, -1, 0>>
    <2>1. m \in {<<<<0, -1, 0>>, <<1, 0, 0>>, <<0, 0, 1>>>>,
                <<<<0, -1, 0>>, <<0, 0, 1>>, <<-1, 0, 0>>>>,
                <<<<0, -1, 0>>, <<-1, 0, 0>>, <<0, 0, -1>>>>,
                <<<<0, -1, 0>>, <<0, 0, -1>>, <<1, 0, 0>>>>}
      BY <1>2, <1>7 DEF Axes, Cross
    <2>2. CASE m = <<<<0, -1, 0>>, <<1, 0, 0>>, <<0, 0, 1>>>>
      <3>1. Quaternion(m) = <<1, 0, 0, 1>>
        BY <2>2 DEF Quaternion, Component, Sign
      <3>2. Fits(<<1, 0, 0, 1>>, m)
        BY <2>2 DEF Matrix, Norm, Scaled, Fits, Times, Quaternions
      <3> QED
        BY <3>1, <3>2
    <2>3. CASE m = <<<<0, -1, 0>>, <<0, 0, 1>>, <<-1, 0, 0>>>>
      <3>1. Quaternion(m) = <<1, -1, 1, 1>>
        BY <2>3 DEF Quaternion, Component, Sign
      <3>2. Fits(<<1, -1, 1, 1>>, m)
        BY <2>3 DEF Matrix, Norm, Scaled, Fits, Times, Quaternions
      <3> QED
        BY <3>1, <3>2
    <2>4. CASE m = <<<<0, -1, 0>>, <<-1, 0, 0>>, <<0, 0, -1>>>>
      BY <1>1, <2>4 DEF Borderline
    <2>5. CASE m = <<<<0, -1, 0>>, <<0, 0, -1>>, <<1, 0, 0>>>>
      <3>1. Quaternion(m) = <<1, 1, -1, 1>>
        BY <2>5 DEF Quaternion, Component, Sign
      <3>2. Fits(<<1, 1, -1, 1>>, m)
        BY <2>5 DEF Matrix, Norm, Scaled, Fits, Times, Quaternions
      <3> QED
        BY <3>1, <3>2
    <2> QED
      BY <2>1, <2>2, <2>3, <2>4, <2>5
  <1>8. CASE x = <<0, 0, -1>>
    <2>1. m \in {<<<<0, 0, -1>>, <<1, 0, 0>>, <<0, -1, 0>>>>,
                <<<<0, 0, -1>>, <<0, 1, 0>>, <<1, 0, 0>>>>,
                <<<<0, 0, -1>>, <<-1, 0, 0>>, <<0, 1, 0>>>>,
                <<<<0, 0, -1>>, <<0, -1, 0>>, <<-1, 0, 0>>>>}
      BY <1>2, <1>8 DEF Axes, Cross
    <2>2. CASE m = <<<<0, 0, -1>>, <<1, 0, 0>>, <<0, -1, 0>>>>
      <3>1. Quaternion(m) = <<1, -1, -1, 1>>
        BY <2>2 DEF Quaternion, Component, Sign
      <3>2. Fits(<<1, -1, -1, 1>>, m)
        BY <2>2 DEF Matrix, Norm, Scaled, Fits, Times, Quaternions
      <3> QED
        BY <3>1, <3>2
    <2>3. CASE m = <<<<0, 0, -1>>, <<0, 1, 0>>, <<1, 0, 0>>>>
      <3>1. Quaternion(m) = <<1, 0, -1, 0>>
        BY <2>3 DEF Quaternion, Component, Sign
      <3>2. Fits(<<1, 0, -1, 0>>, m)
        BY <2>3 DEF Matrix, Norm, Scaled, Fits, Times, Quaternions
      <3> QED
        BY <3>1, <3>2
    <2>4. CASE m = <<<<0, 0, -1>>, <<-1, 0, 0>>, <<0, 1, 0>>>>
      <3>1. Quaternion(m) = <<1, 1, -1, -1>>
        BY <2>4 DEF Quaternion, Component, Sign
      <3>2. Fits(<<1, 1, -1, -1>>, m)
        BY <2>4 DEF Matrix, Norm, Scaled, Fits, Times, Quaternions
      <3> QED
        BY <3>1, <3>2
    <2>5. CASE m = <<<<0, 0, -1>>, <<0, -1, 0>>, <<-1, 0, 0>>>>
      BY <1>1, <2>5 DEF Borderline
    <2> QED
      BY <2>1, <2>2, <2>3, <2>4, <2>5
  <1> QED
    BY <1>2, <1>3, <1>4, <1>5, <1>6, <1>7, <1>8 DEF Axes

\* Turning a quaternion by minus k quarter turns about Y turns its matrix.
LEMMA TurnedQuaternion ==
  ASSUME NEW q \in Quaternions, NEW k \in 0 .. 3, NEW r,
         r = <<(HalfCos[-k] * q[1]) - (HalfSin[-k] * q[3]),
               (HalfCos[-k] * q[2]) + (HalfSin[-k] * q[4]),
               (HalfCos[-k] * q[3]) + (HalfSin[-k] * q[1]),
               (HalfCos[-k] * q[4]) - (HalfSin[-k] * q[2])>>
  PROVE  /\ r \in Quaternions
         /\ Norm(r) = (IF k \in {0, 2} THEN 1 ELSE 2) * Norm(q)
         /\ Matrix(r) = Times(RowsTurned(Matrix(q), k), IF k \in {0, 2} THEN 1 ELSE 2)
  <1> DEFINE a == q[1]
             b == q[2]
             c == q[3]
             d == q[4]
  <1>1. q = <<a, b, c, d>> /\ a \in Int /\ b \in Int /\ c \in Int /\ d \in Int
    BY DEF Quaternions
  <1>0. Matrix(r) = <<Matrix(r)[1], Matrix(r)[2], Matrix(r)[3]>>
    BY DEF Matrix
  <1> HIDE DEF a, b, c, d
  <1>2. CASE k = 0
    <2>1. HalfCos[-k] = 1 /\ HalfSin[-k] = 0
      <3>1. -k = 0 - k
        OBVIOUS
      <3>2. 0 - k = 0
        BY <1>2
      <3> QED
        BY <3>1, <3>2, Tables
    <2>2. r = q
      BY <1>1, <2>1
    <2>3. Matrix(q) = Times(Matrix(q), 1) /\ Norm(q) \in Int
      BY <1>1 DEF Matrix, Norm, Times, Scaled
    <2> QED
      BY <1>1, <1>2, <2>2, <2>3 DEF RowsTurned
  <1>3. CASE k = 1
    <2>1. HalfCos[-k] = 1 /\ HalfSin[-k] = -1
      BY <1>3 DEF HalfCos, HalfSin
    <2>2. r = <<a + c, b - d, c - a, d + b>>
      BY <1>1, <2>1
    <2>3. Norm(r) = 2 * Norm(q)
      BY <1>1, <2>2 DEF Norm
    <2>4. Matrix(r) = Times(RowsTurned(Matrix(q), 1), 2)
      <3>1. Matrix(r)[1] = Scaled(Scaled(Matrix(q)[3], -1), 2)
        BY <1>1, <2>2 DEF Norm, Matrix, Scaled
      <3>2. Matrix(r)[2] = Scaled(Matrix(q)[2], 2)
        BY <1>1, <2>2 DEF Norm, Matrix, Scaled
      <3>3. Matrix(r)[3] = Scaled(Matrix(q)[1], 2)
        BY <1>1, <2>2 DEF Norm, Matrix, Scaled
      <3> QED
        BY <1>0, <3>1, <3>2, <3>3 DEF Times, RowsTurned
    <2> QED
      BY <1>1, <1>3, <2>2, <2>3, <2>4 DEF Quaternions
  <1>4. CASE k = 2
    <2>1. HalfCos[-k] = 0 /\ HalfSin[-k] = -1
      BY <1>4 DEF HalfCos, HalfSin
    <2>2. r = <<c, -d, -a, b>>
      BY <1>1, <2>1
    <2>3. Norm(r) = 1 * Norm(q)
      BY <1>1, <2>2 DEF Norm
    <2>4. Matrix(r) = Times(RowsTurned(Matrix(q), 2), 1)
      <3>1. Matrix(r)[1] = Scaled(Scaled(Matrix(q)[1], -1), 1)
        BY <1>1, <2>2 DEF Norm, Matrix, Scaled
      <3>2. Matrix(r)[2] = Scaled(Matrix(q)[2], 1)
        BY <1>1, <2>2 DEF Norm, Matrix, Scaled
      <3>3. Matrix(r)[3] = Scaled(Scaled(Matrix(q)[3], -1), 1)
        BY <1>1, <2>2 DEF Norm, Matrix, Scaled
      <3> QED
        BY <1>0, <3>1, <3>2, <3>3 DEF Times, RowsTurned
    <2> QED
      BY <1>1, <1>4, <2>2, <2>3, <2>4 DEF Quaternions
  <1>5. CASE k = 3
    <2>1. HalfCos[-k] = -1 /\ HalfSin[-k] = -1
      BY <1>5 DEF HalfCos, HalfSin
    <2>2. r = <<c - a, -b - d, -c - a, b - d>>
      BY <1>1, <2>1
    <2>3. Norm(r) = 2 * Norm(q)
      BY <1>1, <2>2 DEF Norm
    <2>4. Matrix(r) = Times(RowsTurned(Matrix(q), 3), 2)
      <3>1. Matrix(r)[1] = Scaled(Matrix(q)[3], 2)
        BY <1>1, <2>2 DEF Norm, Matrix, Scaled
      <3>2. Matrix(r)[2] = Scaled(Matrix(q)[2], 2)
        BY <1>1, <2>2 DEF Norm, Matrix, Scaled
      <3>3. Matrix(r)[3] = Scaled(Scaled(Matrix(q)[1], -1), 2)
        BY <1>1, <2>2 DEF Norm, Matrix, Scaled
      <3> QED
        BY <1>0, <3>1, <3>2, <3>3 DEF Times, RowsTurned
    <2> QED
      BY <1>1, <1>5, <2>2, <2>3, <2>4 DEF Quaternions
  <1> QED
    BY <1>2, <1>3, <1>4, <1>5

\* The elements of an orientation are integers.
LEMMA Elements ==
  ASSUME NEW m \in Orientations
  PROVE  /\ m = <<m[1], m[2], m[3]>>
         /\ \A i \in 1 .. 3 : m[i] \in Int \X Int \X Int
  <1>1. PICK x \in Axes, y \in Axes : m = <<x, y, Cross(x, y)>>
    BY DEF Orientations
  <1>2. \A v \in Axes : v \in Int \X Int \X Int
    BY DEF Axes
  <1>3. Cross(x, y) \in Int \X Int \X Int
    BY <1>2 DEF Cross
  <1>4. m[1] = x /\ m[2] = y /\ m[3] = Cross(x, y)
    BY <1>1
  <1> QED
    BY <1>1, <1>2, <1>3, <1>4

\* SendHmdPose sends the orientation of the headset, turned by the yaw of the
\* play space.
LEMMA SentFits ==
  ASSUME NEW m \in Exact, NEW s, s.yaw \in 0 .. 3, NEW i
  PROVE  Fits(SentRotation(m, <<[id |-> i, standing |-> s]>>), RowsTurned(m, s.yaw))
  <1> DEFINE u == <<[id |-> i, standing |-> s]>>
             k == s.yaw
             q == Quaternion(m)
             r == SentRotation(m, u)
             f == IF k \in {0, 2} THEN 1 ELSE 2
             n == Norm(q)
  <1>1. u # << >> /\ u[1].standing = s
    OBVIOUS
  <1>2. r = <<(HalfCos[-k] * q[1]) - (HalfSin[-k] * q[3]),
               (HalfCos[-k] * q[2]) + (HalfSin[-k] * q[4]),
               (HalfCos[-k] * q[3]) + (HalfSin[-k] * q[1]),
               (HalfCos[-k] * q[4]) - (HalfSin[-k] * q[2])>>
    <2> HIDE DEF u
    <2> QED
      BY <1>1 DEF SentRotation
  <1>3. q \in Quaternions /\ n \in Nat \ {0} /\ Matrix(q) = Times(m, n)
    BY QuaternionFits DEF Fits
  <1> HIDE DEF q, r, k, u
  <1>4. k \in 0 .. 3
    BY DEF k
  <1>5. r \in Quaternions /\ Norm(r) = f * n /\ Matrix(r) = Times(RowsTurned(Times(m, n), k), f)
    BY <1>2, <1>3, <1>4, TurnedQuaternion
  <1> HIDE DEF n
  <1>6. f \in Nat \ {0} /\ f * n \in Nat \ {0}
    BY <1>3
  <1>7. Times(RowsTurned(Times(m, n), k), f) = Times(RowsTurned(m, k), f * n)
    <2>1. m \in Orientations
      BY DEF Exact
    <2>2. \A v \in Int \X Int \X Int : \A j \in {-1, 1} :
             /\ Scaled(Scaled(v, n), f) = Scaled(v, f * n)
             /\ Scaled(Scaled(Scaled(v, n), j), f) = Scaled(Scaled(v, j), f * n)
      BY <1>3, <1>6 DEF Scaled
    <2> QED
      BY <1>4, <2>1, <2>2, Elements DEF Times, RowsTurned
  <1> QED
    BY <1>5, <1>6, <1>7 DEF Fits, r, u, k

\* What the elements of a rotated pose's matrix do to an axis.
LEMMA AppliedTimes ==
  ASSUME NEW m, m = <<m[1], m[2], m[3]>>, \A i \in 1 .. 3 : m[i] \in Int \X Int \X Int,
         NEW p \in Int \X Int \X Int, NEW n \in Int
  PROVE  /\ Applied(m, p) \in Int \X Int \X Int
         /\ Applied(Times(m, n), p) = Scaled(Applied(m, p), n)
  <1>1. ASSUME NEW v \in Int \X Int \X Int
        PROVE  Dot(v, p) \in Int /\ Dot(Scaled(v, n), p) = n * Dot(v, p)
    BY DEF Dot, Scaled
  <1>2. 1 \in 1 .. 3 /\ 2 \in 1 .. 3 /\ 3 \in 1 .. 3
    OBVIOUS
  <1> QED
    BY <1>1, <1>2 DEF Applied, Times, Scaled

\* What RowsTurned does to the point that a matrix takes p to.
LEMMA AppliedTurned ==
  ASSUME NEW m \in Orientations, NEW p \in Int \X Int \X Int, NEW k \in 0 .. 3
  PROVE  LET d == Applied(m, p) IN
         /\ d \in Int \X Int \X Int
         /\ Applied(RowsTurned(m, k), p) = CASE k = 0 -> d
                                             [] k = 1 -> <<-d[3], d[2], d[1]>>
                                             [] k = 2 -> <<-d[1], d[2], -d[3]>>
                                             [] k = 3 -> <<d[3], d[2], -d[1]>>
  <1>1. ASSUME NEW v \in Int \X Int \X Int
        PROVE  Dot(v, p) \in Int /\ Dot(Scaled(v, -1), p) = -Dot(v, p)
    BY DEF Dot, Scaled
  <1>2. m[1] \in Int \X Int \X Int /\ m[2] \in Int \X Int \X Int /\ m[3] \in Int \X Int \X Int
    BY Elements
  <1>3. CASE k = 0
    BY <1>1, <1>2, <1>3 DEF Applied, RowsTurned
  <1>4. CASE k = 1
    BY <1>1, <1>2, <1>4 DEF Applied, RowsTurned
  <1>5. CASE k = 2
    BY <1>1, <1>2, <1>5 DEF Applied, RowsTurned
  <1>6. CASE k = 3
    BY <1>1, <1>2, <1>6 DEF Applied, RowsTurned
  <1> QED
    BY <1>3, <1>4, <1>5, <1>6

\* A turned orientation has elements that are integers.
LEMMA TurnedElements ==
  ASSUME NEW m \in Orientations, NEW k \in 0 .. 3, NEW t, t = RowsTurned(m, k)
  PROVE  t = <<t[1], t[2], t[3]>> /\ \A i \in 1 .. 3 : t[i] \in Int \X Int \X Int
  <1>1. ASSUME NEW v \in Int \X Int \X Int PROVE Scaled(v, -1) \in Int \X Int \X Int
    BY DEF Scaled
  <1>2. /\ m = <<m[1], m[2], m[3]>>
        /\ m[1] \in Int \X Int \X Int /\ m[2] \in Int \X Int \X Int /\ m[3] \in Int \X Int \X Int
    BY Elements
  <1> QED
    BY <1>1, <1>2 DEF RowsTurned

\* An orientation that SendHmdPose converts for the app and OnPosition converts
\* back is what it was: the part of ThereAndBack about rotations.
LEMMA RotationReturns ==
  ASSUME NEW m \in Exact, NEW s, s.yaw \in 0 .. 3, NEW i, NEW axis \in Axes
  PROVE  LET u == <<[id |-> i, standing |-> s]>>
             wfd == WorldFromDriver(u)
             q == SentRotation(m, u)
         IN  Applied(Matrix(wfd.q), Applied(Matrix(q), axis))
                = Scaled(Applied(m, axis), Norm(wfd.q) * Norm(q))
  <1> DEFINE u == <<[id |-> i, standing |-> s]>>
             k == s.yaw
             wfd == WorldFromDriver(u)
             h == wfd.q
             q == SentRotation(m, u)
             n == Norm(q)
             t == RowsTurned(m, k)
             d == Applied(m, axis)
  <1>1. h = <<HalfCos[k], 0, HalfSin[k], 0>>
    <2>1. u # << >> /\ u[1].standing = s
      OBVIOUS
    <2> HIDE DEF u
    <2> QED
      BY <2>1 DEF WorldFromDriver
  <1>2. n \in Nat \ {0} /\ Matrix(q) = Times(t, n)
    BY SentFits DEF Fits
  <1>3. m \in Orientations /\ axis \in Int \X Int \X Int
    BY DEF Exact, Axes
  <1> HIDE DEF u, k, h, q, n, wfd
  <1>4. k \in 0 .. 3
    BY DEF k
  <1>5. /\ d \in Int \X Int \X Int
        /\ Applied(t, axis) = CASE k = 0 -> d
                                [] k = 1 -> <<-d[3], d[2], d[1]>>
                                [] k = 2 -> <<-d[1], d[2], -d[3]>>
                                [] k = 3 -> <<d[3], d[2], -d[1]>>
    BY <1>3, <1>4, AppliedTurned
  <1>6. Applied(Matrix(q), axis) = Scaled(Applied(t, axis), n)
    <2> HIDE DEF t
    <2>1. t = <<t[1], t[2], t[3]>> /\ \A j \in 1 .. 3 : t[j] \in Int \X Int \X Int
      BY <1>3, <1>4, TurnedElements DEF t
    <2> QED
      BY <1>2, <1>3, <2>1, AppliedTimes
  <1> HIDE DEF t, d
  <1> DEFINE a == d[1]
             b == d[2]
             c == d[3]
  <1>7. d = <<a, b, c>> /\ a \in Int /\ b \in Int /\ c \in Int
    BY <1>5
  <1>8. /\ Norm(h) = IF k \in {0, 2} THEN 1 ELSE 2
        /\ \A x, y, z \in Int :
               /\ k = 0 => Applied(Matrix(h), <<x, y, z>>) = <<x, y, z>>
               /\ k = 1 => Applied(Matrix(h), <<x, y, z>>) = <<2 * z, 2 * y, -(2 * x)>>
               /\ k = 2 => Applied(Matrix(h), <<x, y, z>>) = <<-x, y, -z>>
               /\ k = 3 => Applied(Matrix(h), <<x, y, z>>) = <<-(2 * z), 2 * y, 2 * x>>
    BY <1>1, <1>4, Turned
  <1> HIDE DEF a, b, c
  <1>9. /\ n * a \in Int /\ n * b \in Int /\ n * c \in Int
        /\ n * (-a) = -(n * a) /\ n * (-c) = -(n * c)
    BY <1>2, <1>7
  <1>10. /\ Scaled(d, 1 * n) = <<n * a, n * b, n * c>>
         /\ Scaled(d, 2 * n) = <<2 * (n * a), 2 * (n * b), 2 * (n * c)>>
    BY <1>2, <1>7 DEF Scaled
  <1> DEFINE x == n * a
             y == n * b
             z == n * c
  <1>0. /\ x \in Int /\ y \in Int /\ z \in Int /\ -x \in Int /\ -z \in Int
        /\ -(-x) = x /\ -(-z) = z /\ -(2 * (-x)) = 2 * x /\ -(2 * (-z)) = 2 * z
    BY <1>9
  <1> HIDE DEF x, y, z
  <1>11. CASE k = 0
    <2>1. Applied(Matrix(q), axis) = <<x, y, z>>
      BY <1>5, <1>6, <1>7, <1>11 DEF Scaled, x, y, z
    <2> QED
      BY <1>8, <1>9, <1>10, <1>11, <2>1 DEF u, wfd, q, h, n, d, x, y, z
  <1>12. CASE k = 1
    <2>1. Applied(Matrix(q), axis) = <<-z, y, x>>
      BY <1>5, <1>6, <1>7, <1>9, <1>12 DEF Scaled, x, y, z
    <2>2. Applied(Matrix(h), <<-z, y, x>>) = <<2 * x, 2 * y, 2 * z>>
      BY <1>0, <1>8, <1>12
    <2>3. Norm(h) = 2
      BY <1>8, <1>12
    <2> QED
      BY <1>10, <2>1, <2>2, <2>3 DEF u, wfd, q, h, n, d, x, y, z
  <1>13. CASE k = 2
    <2>1. Applied(Matrix(q), axis) = <<-x, y, -z>>
      BY <1>5, <1>6, <1>7, <1>9, <1>13 DEF Scaled, x, y, z
    <2>2. Applied(Matrix(h), <<-x, y, -z>>) = <<x, y, z>>
      BY <1>0, <1>8, <1>13
    <2>3. Norm(h) = 1
      BY <1>8, <1>13
    <2> QED
      BY <1>10, <2>1, <2>2, <2>3 DEF u, wfd, q, h, n, d, x, y, z
  <1>14. CASE k = 3
    <2>1. Applied(Matrix(q), axis) = <<z, y, -x>>
      BY <1>5, <1>6, <1>7, <1>9, <1>14 DEF Scaled, x, y, z
    <2>2. Applied(Matrix(h), <<z, y, -x>>) = <<2 * x, 2 * y, 2 * z>>
      BY <1>0, <1>8, <1>14
    <2>3. Norm(h) = 2
      BY <1>8, <1>14
    <2> QED
      BY <1>10, <2>1, <2>2, <2>3 DEF u, wfd, q, h, n, d, x, y, z
  <1> QED
    BY <1>4, <1>11, <1>12, <1>13, <1>14

\* A tracker of which the app says that it is where the headset is, is shown
\* where the headset is, in every play space that a search can find: positions of
\* any integers, every orientation whose quaternion is exact.
THEOREM PosesReturn == PlaySpec => []ThereAndBack
  <1>1. PlayTypes => ThereAndBack
    <2> SUFFICES ASSUME PlayTypes, universe # << >> PROVE ThereAndBack
      BY DEF ThereAndBack
    <2>1. PICK i, s : s \in Standings /\ universe = <<[id |-> i, standing |-> s]>>
      BY DEF PlayTypes, UniverseTypes
    <2>2. s.yaw \in 0 .. 3 /\ s.translation \in Int \X Int \X Int
      BY <2>1, PlaySpaceAssumption
    <2> DEFINE wfd == WorldFromDriver(universe)
               n == Norm(wfd.q)
               shown == Matrix(wfd.q)
    <2>3. ASSUME NEW p \in Points
          PROVE  Shifted(Applied(shown, SentPosition(p, universe)), Scaled(wfd.t, n)) = Scaled(p, n)
      <3>1. p \in Int \X Int \X Int
        BY PlaySpaceAssumption
      <3> QED
        BY <2>1, <2>2, <3>1, PositionsReturn
    <2>4. ASSUME NEW m \in Exact, NEW axis \in Axes
          PROVE  LET q == SentRotation(m, universe)
                 IN  Applied(shown, Applied(Matrix(q), axis))
                        = Scaled(Applied(m, axis), n * Norm(q))
      BY <2>1, <2>2, RotationReturns
    <2> QED
      BY <2>3, <2>4 DEF ThereAndBack
  <1> QED
    BY <1>1, PlayTypesInvariance, PTL

(***************************************************************************)
(* The direction of the stick.                                             *)
(***************************************************************************)

\* The code turns a direction on the floor by the yaw as it turns a pose.
LEMMA LevelTurned ==
  ASSUME NEW m \in Orientations, NEW k \in 0 .. 3
  PROVE  /\ m[1][3] \in Int /\ m[3][3] \in Int
         /\ Level(RowsTurned(m, k)) = CASE k = 0 -> <<-m[1][3], -m[3][3]>>
                                        [] k = 1 -> <<m[3][3], -m[1][3]>>
                                        [] k = 2 -> <<m[1][3], m[3][3]>>
                                        [] k = 3 -> <<-m[3][3], m[1][3]>>
  <1>1. m[1] \in Int \X Int \X Int /\ m[2] \in Int \X Int \X Int /\ m[3] \in Int \X Int \X Int
    BY Elements
  <1>2. ASSUME NEW v \in Int \X Int \X Int
        PROVE  v[3] \in Int /\ Scaled(v, -1)[3] = -v[3] /\ -(-v[3]) = v[3]
    BY DEF Scaled
  <1>3. CASE k = 0
    BY <1>1, <1>2, <1>3 DEF Level, RowsTurned
  <1>4. CASE k = 1
    BY <1>1, <1>2, <1>4 DEF Level, RowsTurned
  <1>5. CASE k = 2
    BY <1>1, <1>2, <1>5 DEF Level, RowsTurned
  <1>6. CASE k = 3
    BY <1>1, <1>2, <1>6 DEF Level, RowsTurned
  <1> QED
    BY <1>1, <1>2, <1>3, <1>4, <1>5, <1>6

\* The reference of the stick is turned like the waist.
LEMMA ReferenceTurned ==
  ASSUME NEW m \in Orientations, NEW s, s.yaw \in 0 .. 3, NEW i
  PROVE  Reference(m, <<[id |-> i, standing |-> s]>>) = Level(RowsTurned(m, s.yaw))
  <1> DEFINE u == <<[id |-> i, standing |-> s]>>
             k == s.yaw
             x == -m[1][3]
             z == -m[3][3]
             C == Cos[-k]
             S == Sin[-k]
  <1>1. u # << >> /\ u[1].standing = s
    OBVIOUS
  <1> HIDE DEF u
  <1>2. Reference(m, u) = <<(x * C) + (z * S), (z * C) - (x * S)>>
    BY <1>1 DEF Reference
  <1> HIDE DEF C, S, k
  <1>3. k \in 0 .. 3 /\ x \in Int /\ z \in Int /\ -x = m[1][3] /\ -z = m[3][3]
    <2>1. k \in 0 .. 3
      BY DEF k
    <2>2. m[1][3] \in Int /\ m[3][3] \in Int
      BY <2>1, LevelTurned
    <2> QED
      BY <2>1, <2>2
  <1>4. Level(RowsTurned(m, k)) = CASE k = 0 -> <<x, z>>
                                    [] k = 1 -> <<-z, x>>
                                    [] k = 2 -> <<-x, -z>>
                                    [] k = 3 -> <<z, -x>>
    BY <1>3, LevelTurned
  <1> HIDE DEF x, z
  <1>5. -k = 0 - k
    BY <1>3
  <1>6. CASE k = 0
    <2>1. 0 - k = 0
      BY <1>6
    <2>2. C = 1 /\ S = 0
      BY <1>5, <2>1, Tables DEF C, S
    <2> QED
      BY <1>2, <1>3, <1>4, <1>6, <2>2 DEF u, k
  <1>7. CASE k = 1
    <2>1. C = 0 /\ S = -1
      BY <1>7, Tables DEF C, S
    <2> QED
      BY <1>2, <1>3, <1>4, <1>7, <2>1 DEF u, k
  <1>8. CASE k = 2
    <2>1. C = -1 /\ S = 0
      BY <1>8, Tables DEF C, S
    <2> QED
      BY <1>2, <1>3, <1>4, <1>8, <2>1 DEF u, k
  <1>9. CASE k = 3
    <2>1. C = 0 /\ S = 1
      BY <1>9, Tables DEF C, S
    <2> QED
      BY <1>2, <1>3, <1>4, <1>9, <2>1 DEF u, k
  <1> QED
    BY <1>3, <1>6, <1>7, <1>8, <1>9 DEF u, k

\* The forward direction of an orientation of quarter turns is an axis, on the
\* floor or not.
LEMMA LevelIsAxis ==
  ASSUME NEW m \in Orientations
  PROVE  /\ m[1][3] \in {-1, 0, 1} /\ m[3][3] \in {-1, 0, 1}
         /\ m[1][3] = 0 \/ m[3][3] = 0
  <1>1. PICK x \in Axes, y \in Axes : Cross(x, y) # <<0, 0, 0>> /\ m = <<x, y, Cross(x, y)>>
    BY DEF Orientations
  <1>2. m[1][3] = x[3] /\ m[3][3] = (x[1] * y[2]) - (x[2] * y[1])
    BY <1>1 DEF Cross
  <1>3. /\ x[1] \in {-1, 0, 1} /\ x[2] \in {-1, 0, 1} /\ x[3] \in {-1, 0, 1}
        /\ x[3] # 0 => x[1] = 0 /\ x[2] = 0
        /\ x[1] # 0 => x[2] = 0
        /\ y[1] \in {-1, 0, 1} /\ y[2] \in {-1, 0, 1}
    BY DEF Axes
  <1> QED
    BY <1>2, <1>3

\* FloorForward takes the forward direction out of the quaternion.
LEMMA ForwardLevel ==
  ASSUME NEW q, NEW t, Fits(q, t), t[1][3] \in {-1, 0, 1}, t[3][3] \in {-1, 0, 1}
  PROVE  FloorForward(q) = IF Level(t) = <<0, 0>> THEN << >> ELSE Level(t)
  <1> DEFINE n == Norm(q)
             a == 2 * ((q[2] * q[4]) + (q[1] * q[3]))
             b == n - (2 * ((q[2] * q[2]) + (q[3] * q[3])))
             x == -(a \div n)
             z == -(b \div n)
  <1>1. n \in Nat \ {0} /\ q \in Quaternions /\ Matrix(q) = Times(t, n)
    BY DEF Fits
  <1>2. FloorForward(q) = IF x = 0 /\ z = 0 THEN << >> ELSE <<x, z>>
    BY DEF FloorForward
  <1>3. /\ Matrix(q)[1][3] = (2 * q[2] * q[4]) + (2 * q[1] * q[3])
        /\ Matrix(q)[3][3] = n - (2 * q[2] * q[2]) - (2 * q[3] * q[3])
    BY DEF Matrix
  <1>4. Times(t, n)[1][3] = n * t[1][3] /\ Times(t, n)[3][3] = n * t[3][3]
    BY DEF Times, Scaled
  <1>5. /\ a = (2 * q[2] * q[4]) + (2 * q[1] * q[3])
        /\ b = n - (2 * q[2] * q[2]) - (2 * q[3] * q[3])
    <2> HIDE DEF n
    <2> QED
      BY <1>1 DEF Quaternions
  <1>6. a = n * t[1][3] /\ b = n * t[3][3]
    <2> HIDE DEF a, b, n
    <2> QED
      BY <1>1, <1>3, <1>4, <1>5
  <1> HIDE DEF n, a, b
  <1>7. \A j \in {-1, 0, 1} : (n * j) \div n = j
    BY <1>1
  <1>8. x = -t[1][3] /\ z = -t[3][3]
    BY <1>6, <1>7
  <1> QED
    BY <1>2, <1>8 DEF Level

\* A direction of the stick, relative to the reference, that is turned with it.
LEMMA WalksForward ==
  ASSUME NEW m \in Exact, NEW o \in Orientations, NEW s, s.yaw \in 0 .. 3, NEW i,
         Level(m) # <<0, 0>>, Level(o) # <<0, 0>>
  PROVE  LET u == <<[id |-> i, standing |-> s]>>
             dir == WaistStickDirection(SentRotation(m, u), o, u)
             f == Level(o)
         IN  <<(dir[2] * f[1]) - (dir[1] * f[2]), (dir[2] * f[2]) + (dir[1] * f[1])>>
                = Level(m)
  <1> DEFINE u == <<[id |-> i, standing |-> s]>>
             k == s.yaw
             q == SentRotation(m, u)
             w == Level(RowsTurned(m, k))
             r == Level(RowsTurned(o, k))
             a == -m[1][3]
             b == -m[3][3]
             c == -o[1][3]
             d == -o[3][3]
  <1>1. m \in Orientations
    BY DEF Exact
  <1>2. /\ a \in {-1, 0, 1} /\ b \in {-1, 0, 1} /\ (a = 0 \/ b = 0)
        /\ c \in {-1, 0, 1} /\ d \in {-1, 0, 1} /\ (c = 0 \/ d = 0)
        /\ Level(m) = <<a, b>> /\ Level(o) = <<c, d>>
        /\ -a = m[1][3] /\ -b = m[3][3] /\ -c = o[1][3] /\ -d = o[3][3]
    BY <1>1, LevelIsAxis DEF Level
  <1>3. (c # 0 \/ d # 0) /\ (a # 0 \/ b # 0)
    BY <1>2
  <1> HIDE DEF u, k, q
  <1>4. k \in 0 .. 3
    BY DEF k
  <1>5. /\ w = CASE k = 0 -> <<a, b>> [] k = 1 -> <<-b, a>>
                 [] k = 2 -> <<-a, -b>> [] k = 3 -> <<b, -a>>
        /\ r = CASE k = 0 -> <<c, d>> [] k = 1 -> <<-d, c>>
                 [] k = 2 -> <<-c, -d>> [] k = 3 -> <<d, -c>>
    BY <1>1, <1>2, <1>4, LevelTurned
  <1>6. FloorForward(q) = w
    <2> DEFINE t == RowsTurned(m, k)
    <2>1. Fits(q, t)
      BY SentFits DEF q, u, k
    <2>2. t[1][3] \in {-1, 0, 1} /\ t[3][3] \in {-1, 0, 1}
      <3>1. m[1] \in Int \X Int \X Int /\ m[3] \in Int \X Int \X Int
        BY <1>1, Elements
      <3>2. m[1][3] \in {-1, 0, 1} /\ m[3][3] \in {-1, 0, 1}
        BY <1>1, LevelIsAxis
      <3> QED
        BY <1>4, <3>1, <3>2 DEF RowsTurned, Scaled
    <2>3. w # <<0, 0>>
      <3> HIDE DEF w
      <3> QED
        BY <1>2, <1>3, <1>4, <1>5
    <2> HIDE DEF t
    <2>4. FloorForward(q) = IF Level(t) = <<0, 0>> THEN << >> ELSE Level(t)
      BY <2>1, <2>2, ForwardLevel
    <2> QED
      BY <2>3, <2>4 DEF t
  <1>7. Reference(o, u) = r
    BY ReferenceTurned DEF u, k
  <1>8. q # << >> /\ o # << >>
    <2>1. q \in Quaternions
      BY SentFits DEF Fits, q, u, k
    <2>2. o = <<o[1], o[2], o[3]>>
      BY Elements
    <2>3. q = <<q[1], q[2], q[3], q[4]>>
      BY <2>1 DEF Quaternions
    <2>4. \A e, x, y, z : <<x, y, z>> # << >> /\ <<e, x, y, z>> # << >>
      OBVIOUS
    <2> QED
      BY <2>2, <2>3, <2>4
  <1> HIDE DEF w, r, a, b, c, d
  <1>9. w # << >> /\ r # <<0, 0>>
    BY <1>2, <1>3, <1>4, <1>5
  <1>10. WaistStickDirection(q, o, u) = <<(w[2] * r[1]) - (w[1] * r[2]),
                                          (w[1] * r[1]) + (w[2] * r[2])>>
    BY <1>6, <1>7, <1>8, <1>9 DEF WaistStickDirection
  <1>11. /\ (w[2] * r[1]) - (w[1] * r[2]) = (b * c) - (a * d)
         /\ (w[1] * r[1]) + (w[2] * r[2]) = (a * c) + (b * d)
    BY <1>2, <1>4, <1>5
  <1>12. /\ (((a * c) + (b * d)) * c) - (((b * c) - (a * d)) * d) = a
         /\ (((a * c) + (b * d)) * d) + (((b * c) - (a * d)) * c) = b
    BY <1>2, <1>3
  <1> QED
    BY <1>2, <1>10, <1>11, <1>12 DEF u, q

\* The player goes where his waist faces, in every play space that a search can
\* find, for every exact orientation of the waist and every one of the reference.
THEOREM WalksAhead == PlaySpec => []WalksWhereWaistFaces
  <1>1. PlayTypes => WalksWhereWaistFaces
    <2> SUFFICES ASSUME PlayTypes, universe # << >> PROVE WalksWhereWaistFaces
      BY DEF WalksWhereWaistFaces
    <2>1. PICK i, s : s \in Standings /\ universe = <<[id |-> i, standing |-> s]>>
      BY DEF PlayTypes, UniverseTypes
    <2>2. s.yaw \in 0 .. 3
      BY <2>1, PlaySpaceAssumption
    <2>3. ASSUME NEW waist \in Exact, Level(waist) # <<0, 0>>,
                 NEW m \in Orientations, Level(m) # <<0, 0>>
          PROVE  LET dir == WaistStickDirection(SentRotation(waist, universe), m, universe)
                     f == Level(m)
                 IN  <<(dir[2] * f[1]) - (dir[1] * f[2]), (dir[2] * f[2]) + (dir[1] * f[1])>>
                        = Level(waist)
      BY <2>1, <2>2, <2>3, WalksForward
    <2> QED
      BY <2>3 DEF WalksWhereWaistFaces
  <1> QED
    BY <1>1, PlayTypesInvariance, PTL

=============================================================================
