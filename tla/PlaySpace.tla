----------------------------- MODULE PlaySpace -----------------------------
(***************************************************************************)
(* The play space (driver/src/driver.cpp): the search of the chaperone     *)
(* data, what the headset's pose is sent as, what the poses of the app are *)
(* turned back with, and the direction of the stick.                       *)
(*                                                                         *)
(* Yaws and orientations are of quarter turns and lengths are integers, so *)
(* that the code's formulas are exact.  A quaternion may have any length:  *)
(* only its direction is used.  A matrix is a tuple of rows.               *)
(***************************************************************************)
EXTENDS Integers, Sequences, FiniteSetsExt

CONSTANTS
    Standings,    \* translation and yaw of play spaces
    Points,       \* positions
    IdBits,       \* for 64
    MaxEntries    \* bound: entries in all sources

Ids == 0 .. 2^IdBits - 1
Unusable == << >>
Other    == << >>

ASSUME PlaySpaceAssumption ==
    /\ IdBits \in Nat \ {0} /\ MaxEntries \in Nat
    /\ \A s \in Standings : s.yaw \in 0 .. 3 /\ s.translation \in Int \X Int \X Int
    /\ Points \subseteq Int \X Int \X Int

\* universeID: a number, perhaps negative, or as a string; or another type.
\* standing: as it should be, or missing or of the wrong types.
Uids    == -1 .. 2^IdBits - 1
Entries == [uid : {<<n>> : n \in Uids} \cup {Other},
            standing : {<<s>> : s \in Standings} \cup {Unusable}]

\* The JSON property, the file the headset's driver provides, the default file;
\* << >> for one that is missing, unreadable or no JSON.
Sources == 1 .. 3

VARIABLES
    sources,      \* entries in each source
    id,           \* CurrentUniverseId
    universe      \* << >>: have_universe_ is false

playVars == <<sources, id, universe>>

PlayInit == sources = [i \in Sources |-> << >>] /\ id = 0 /\ universe = << >>

-----------------------------------------------------------------------------
(* SearchUniverse and UpdateUniverse *)

uint64(uid) == IF uid = Other THEN 0 ELSE uid[1] % 2^IdBits

\* The first entry for universe i decides.
SearchUniverse(source, i) ==
    LET hits == {n \in DOMAIN source : uint64(source[n].uid) = i} IN
    IF hits = {} \/ source[Min(hits)].standing = Unusable THEN << >>
    ELSE <<[id |-> i, standing |-> source[Min(hits)].standing[1]]>>

\* Mutant: the default file comes before what the headset's driver provides.
InOrderDefaultFirst == <<3, 1, 2>>

InOrder == <<1, 2, 3>>

\* The search of UpdateUniverse, where the universe in use is another one.
Search ==
    LET found(n) == SearchUniverse(sources[InOrder[n]], id)
        hits     == {n \in Sources : found(n) # << >>}
    IN  /\ universe # << >> => universe[1].id # id
        /\ universe' = IF hits = {} THEN universe ELSE found(Min(hits))
        /\ UNCHANGED <<sources, id>>

Size == Len(sources[1]) + Len(sources[2]) + Len(sources[3])

\* SteamVR and the headset's driver.
Publish(i, entry) ==
    /\ Size < MaxEntries
    /\ sources' = [sources EXCEPT ![i] = Append(@, entry)]
    /\ UNCHANGED <<id, universe>>

Withdraw(i) ==
    /\ sources[i] # << >>
    /\ sources' = [sources EXCEPT ![i] = << >>]
    /\ UNCHANGED <<id, universe>>

SetUniverse(i) == id # i /\ id' = i /\ UNCHANGED <<sources, universe>>

PlayNext ==
    \/ Search
    \/ \E i \in Sources : Withdraw(i) \/ \E entry \in Entries : Publish(i, entry)
    \/ \E i \in Ids : SetUniverse(i)

PlaySpec == PlayInit /\ [][PlayNext]_playVars

-----------------------------------------------------------------------------
(* Geometry *)

Cos == [k \in -3 .. 3 |-> CASE k = 0 -> 1 [] k \in {-2, 2} -> -1 [] OTHER -> 0]
Sin == [k \in -3 .. 3 |-> CASE k \in {1, -3} -> 1 [] k \in {-1, 3} -> -1 [] OTHER -> 0]

\* Of half the angle: cos and sin of eighths, times sqrt(2) where both are not 0.
HalfCos == [k \in -3 .. 3 |-> CASE k \in -1 .. 1 -> 1 [] k \in {-2, 2} -> 0 [] OTHER -> -1]
HalfSin == [k \in -3 .. 3 |-> CASE k > 0 -> 1 [] k = 0 -> 0 [] OTHER -> -1]

Sign(n) == IF n < 0 THEN -1 ELSE 1

\* A component of the quaternion is 0 or its size is that of all the others.
Component(square, sign) == IF square > 0 THEN Sign(sign) ELSE 0

Quaternion(m) ==
    <<Component(1 + m[1][1] + m[2][2] + m[3][3], 1),
      Component(1 + m[1][1] - m[2][2] - m[3][3], m[3][2] - m[2][3]),
      Component(1 - m[1][1] + m[2][2] - m[3][3], m[1][3] - m[3][1]),
      Component(1 - m[1][1] - m[2][2] + m[3][3], m[2][1] - m[1][2])>>

TurnY(p, k) == <<(p[1] * Cos[k]) + (p[3] * Sin[k]), p[2],
                 (p[3] * Cos[k]) - (p[1] * Sin[k])>>

Shifted(p, t) == <<p[1] + t[1], p[2] + t[2], p[3] + t[3]>>

\* Mutant: turned first, moved then.
ToStandingTurned(p, s) == Shifted(TurnY(p, -s.yaw), s.translation)

ToStanding(p, s) == TurnY(Shifted(p, s.translation), -s.yaw)

\* SendHmdPose: position and orientation that go to the app.
SentPosition(p, u) == IF u = << >> THEN p ELSE ToStanding(p, u[1].standing)

SentRotation(m, u) ==
    LET q == Quaternion(m) IN
    IF u = << >> THEN q
    ELSE LET rw == HalfCos[-u[1].standing.yaw]
             ry == HalfSin[-u[1].standing.yaw]
         IN  <<(rw * q[1]) - (ry * q[3]), (rw * q[2]) + (ry * q[4]),
               (rw * q[3]) + (ry * q[1]), (rw * q[4]) - (ry * q[2])>>

\* OnPosition: worldFromDriver, as translation and rotation.
WorldFromDriver(u) ==
    IF u = << >> THEN [t |-> <<0, 0, 0>>, q |-> <<1, 0, 0, 0>>]
    ELSE LET s == u[1].standing IN
         [t |-> <<-s.translation[1], -s.translation[2], -s.translation[3]>>,
          q |-> <<HalfCos[s.yaw], 0, HalfSin[s.yaw], 0>>]

Norm(q) == (q[1] * q[1]) + (q[2] * q[2]) + (q[3] * q[3]) + (q[4] * q[4])

\* FloorForward: the -Z axis on the floor, << >> if it is vertical.
FloorForward(q) ==
    LET n == Norm(q)
        x == -((2 * ((q[2] * q[4]) + (q[1] * q[3]))) \div n)
        z == -((n - (2 * ((q[2] * q[2]) + (q[3] * q[3])))) \div n)
    IN  IF x = 0 /\ z = 0 THEN << >> ELSE <<x, z>>

\* Mutant: the reference is not turned into the play space.
ReferenceRaw(m, u) == <<-m[1][3], -m[3][3]>>

Reference(m, u) ==
    LET rx == -m[1][3]
        rz == -m[3][3]
        a  == -u[1].standing.yaw
    IN  IF u = << >> THEN <<rx, rz>>
        ELSE <<(rx * Cos[a]) + (rz * Sin[a]), (rz * Cos[a]) - (rx * Sin[a])>>

\* WaistStickDirection, for the waist's quaternion and the reference's matrix.
\* << >> for one that is missing or not tracked.
WaistStickDirection(waist, m, u) ==
    LET w == FloorForward(waist)
        r == Reference(m, u)
    IN  IF waist = << >> \/ w = << >> \/ m = << >> \/ r = <<0, 0>> THEN <<0, 1>>
        ELSE <<(w[2] * r[1]) - (w[1] * r[2]), (w[1] * r[1]) + (w[2] * r[2])>>

-----------------------------------------------------------------------------
(* SteamVR and the game *)

\* The 24 orientations of quarter turns: matrices of which each row and column
\* has one element, 1 or -1, and whose rows are a right-handed basis.
Axes == {<<1, 0, 0>>, <<0, 1, 0>>, <<0, 0, 1>>, <<-1, 0, 0>>, <<0, -1, 0>>, <<0, 0, -1>>}

Cross(a, b) == <<(a[2] * b[3]) - (a[3] * b[2]), (a[3] * b[1]) - (a[1] * b[3]),
                 (a[1] * b[2]) - (a[2] * b[1])>>

Orientations == {<<ab[1], ab[2], Cross(ab[1], ab[2])>> :
                    ab \in {xy \in Axes \X Axes : Cross(xy[1], xy[2]) # <<0, 0, 0>>}}

\* Half turns about an axis between two others: the signs of the quaternion's
\* elements are those of differences that are 0 exactly there.
Borderline(m) ==
    /\ m[1][2] = m[2][1] /\ m[1][3] = m[3][1] /\ m[2][3] = m[3][2]
    /\ m[1][2] < 0 \/ m[1][3] < 0 \/ m[2][3] < 0

Exact == {m \in Orientations : ~Borderline(m)}

\* Forward, on the floor.
Level(m) == <<-m[1][3], -m[3][3]>>

\* The matrix of a quaternion, times its Norm.
Matrix(q) ==
    LET M(i, j) == 2 * q[i] * q[j] IN
    <<<<Norm(q) - M(3, 3) - M(4, 4), M(2, 3) - M(1, 4), M(2, 4) + M(1, 3)>>,
      <<M(2, 3) + M(1, 4), Norm(q) - M(2, 2) - M(4, 4), M(3, 4) - M(1, 2)>>,
      <<M(2, 4) - M(1, 3), M(3, 4) + M(1, 2), Norm(q) - M(2, 2) - M(3, 3)>>>>

Dot(a, b)     == (a[1] * b[1]) + (a[2] * b[2]) + (a[3] * b[3])
Scaled(p, n)  == <<n * p[1], n * p[2], n * p[3]>>
Applied(m, p) == <<Dot(m[1], p), Dot(m[2], p), Dot(m[3], p)>>

-----------------------------------------------------------------------------
(* Properties *)

\* What a source gives: what its first entry for the headset's universe says.
Gives(i, s) ==
    \E n \in DOMAIN sources[i] :
        /\ uint64(sources[i][n].uid) = id
        /\ sources[i][n].standing = <<s>>
        /\ \A k \in 1 .. n - 1 : uint64(sources[i][k].uid) # id

\* A search takes the play space from the first source that gives one, whatever
\* else the sources hold; where none does, nothing changes.
FirstSourceDecides ==
    [][Search =>
          \/ \E i \in Sources, s \in Standings :
                /\ Gives(i, s) /\ universe' = <<[id |-> id, standing |-> s]>>
                /\ \A j \in 1 .. i - 1, t \in Standings : ~Gives(j, t)
          \/ /\ UNCHANGED universe
             /\ \A i \in Sources, s \in Standings : ~Gives(i, s)]_playVars

\* "headset pose sent to the app: p' = Ry(-yaw) * (p + t) ... tracker poses
\* returned to SteamVR: ... -t and ... Ry(yaw)" (protocol.md).  A tracker of
\* which the app says that it is where the headset is, is shown where the headset
\* is: the two conversions of the code undo one another.
ThereAndBack ==
    LET wfd == WorldFromDriver(universe)
        n == Norm(wfd.q)
        shown == Matrix(wfd.q)
        Shown(p) == Shifted(Applied(shown, p), Scaled(wfd.t, n))
    IN  universe # << >> =>
        /\ \A p \in Points : Shown(SentPosition(p, universe)) = Scaled(p, n)
        /\ \A m \in Exact :
              LET q == SentRotation(m, universe)
                  sent == Matrix(q)
              IN  \A axis \in Axes : Applied(shown, Applied(sent, axis))
                                       = Scaled(Applied(m, axis), n * Norm(q))

\* A game moves the player along the forward direction of its reference, turned
\* by the stick.  He goes where his waist faces, however the headset, the waist
\* and the play space are turned.
WalksWhereWaistFaces ==
    universe # << >> => \A waist \in Exact :
        LET q == SentRotation(waist, universe) IN
        Level(waist) # <<0, 0>> => \A m \in Orientations :
            LET dir == WaistStickDirection(q, m, universe)
                f == Level(m)
            IN  f # <<0, 0>> =>
                <<(dir[2] * f[1]) - (dir[1] * f[2]), (dir[2] * f[2]) + (dir[1] * f[1])>>
                    = Level(waist)

=============================================================================
