--------------------------- MODULE InstallProofs ---------------------------
(***************************************************************************)
(* Proofs about InputHooks: its types, that a handle is captured for one   *)
(* hand and that no stick keeps injected values once it is released, for   *)
(* any controllers, hands, values and length of the pending list.  Proofs  *)
(* about Installer: SteamVR never finds two copies of the driver, and a    *)
(* run that gets to its end makes good for all that were cut off.          *)
(***************************************************************************)
EXTENDS InputHooks, Installer, TLAPS

(***************************************************************************)
(* Lists without repetition.                                               *)
(***************************************************************************)

Elems(s) == {s[i] : i \in 1 .. Len(s)}
NoDup(s) == \A i, j \in 1 .. Len(s) : s[i] = s[j] => i = j

\* The empty list.
LEMMA EmptyList == Elems(<< >>) = {} /\ NoDup(<< >>)
  BY DEF Elems, NoDup

\* A list holds members of the set it is a list over.
LEMMA ElemsType == ASSUME NEW S, NEW s \in Seq(S) PROVE Elems(s) \subseteq S
  BY DEF Elems

\* A new element at the end.
LEMMA AppendList ==
  ASSUME NEW S, NEW s \in Seq(S), NEW c \in S
  PROVE  /\ Elems(Append(s, c)) = Elems(s) \cup {c}
         /\ NoDup(s) /\ c \notin Elems(s) => NoDup(Append(s, c))
  <1> DEFINE t == Append(s, c)
  <1>1. Len(s) \in Nat /\ Len(t) = Len(s) + 1 /\ t[Len(s) + 1] = c
    OBVIOUS
  <1>2. \A i \in 1 .. Len(s) : t[i] = s[i]
    OBVIOUS
  <1> HIDE DEF t
  <1>3. 1 .. Len(t) = (1 .. Len(s)) \cup {Len(s) + 1}
    BY <1>1
  <1>4. Elems(t) = Elems(s) \cup {c}
    BY <1>1, <1>2, <1>3 DEF Elems
  <1>5. ASSUME NoDup(s), c \notin Elems(s) PROVE NoDup(t)
    BY <1>1, <1>2, <1>3, <1>5 DEF Elems, NoDup
  <1> QED
    BY <1>4, <1>5 DEF t

\* The list without its first element.
LEMMA TailList ==
  ASSUME NEW S, NEW s \in Seq(S), s # << >>
  PROVE  /\ Head(s) \in Elems(s) /\ Elems(Tail(s)) \subseteq Elems(s)
         /\ NoDup(s) => NoDup(Tail(s)) /\ Head(s) \notin Elems(Tail(s))
  <1> DEFINE t == Tail(s)
  <1>1. Len(s) \in Nat \ {0} /\ Len(t) = Len(s) - 1 /\ Head(s) = s[1]
    OBVIOUS
  <1>2. \A i \in 1 .. Len(t) : t[i] = s[i + 1] /\ i + 1 \in 1 .. Len(s)
    OBVIOUS
  <1> HIDE DEF t
  <1>3. Head(s) \in Elems(s) /\ Elems(t) \subseteq Elems(s)
    BY <1>1, <1>2 DEF Elems
  <1>4. ASSUME NoDup(s) PROVE NoDup(t) /\ Head(s) \notin Elems(t)
    BY <1>1, <1>2, <1>4, SMTT(30) DEF Elems, NoDup
  <1> QED
    BY <1>3, <1>4 DEF t

\* One list after another.
LEMMA ConcatList ==
  ASSUME NEW S, NEW s \in Seq(S), NEW t \in Seq(S)
  PROVE  /\ Elems(s \o t) = Elems(s) \cup Elems(t)
         /\ NoDup(s) /\ NoDup(t) /\ Elems(s) \cap Elems(t) = {} => NoDup(s \o t)
  <1> DEFINE u == s \o t
             m == Len(s)
             n == Len(t)
  <1>1. m \in Nat /\ n \in Nat /\ Len(u) = m + n
    OBVIOUS
  <1>2. /\ \A i \in 1 .. m : u[i] = s[i]
        /\ \A i \in 1 .. n : u[m + i] = t[i]
    OBVIOUS
  <1>3. \A i \in 1 .. m + n : i \in 1 .. m \/ (i - m \in 1 .. n /\ u[i] = t[i - m])
    OBVIOUS
  <1> HIDE DEF u
  <1>4. Elems(u) = Elems(s) \cup Elems(t)
    <2>1. Elems(u) \subseteq Elems(s) \cup Elems(t)
      BY <1>1, <1>2, <1>3, SMTT(30) DEF Elems
    <2>2. Elems(s) \subseteq Elems(u)
      BY <1>1, <1>2 DEF Elems
    <2>3. Elems(t) \subseteq Elems(u)
      BY <1>1, <1>2 DEF Elems
    <2> QED
      BY <2>1, <2>2, <2>3
  <1>5. ASSUME NoDup(s), NoDup(t), Elems(s) \cap Elems(t) = {} PROVE NoDup(u)
    <2> SUFFICES ASSUME NEW i \in 1 .. m + n, NEW j \in 1 .. m + n, u[i] = u[j]
                 PROVE  i = j
      BY <1>1 DEF NoDup
    <2>1. CASE i \in 1 .. m /\ j \in 1 .. m
      BY <2>1, <1>2, <1>5 DEF NoDup
    <2>2. CASE i \notin 1 .. m /\ j \notin 1 .. m
      BY <2>2, <1>1, <1>3, <1>5 DEF NoDup
    <2>3. CASE i \in 1 .. m /\ j \notin 1 .. m
      <3>1. u[i] \in Elems(s) /\ u[j] \in Elems(t)
        BY <2>3, <1>2, <1>3 DEF Elems
      <3> QED
        BY <3>1, <1>5
    <2>4. CASE i \notin 1 .. m /\ j \in 1 .. m
      <3>1. u[i] \in Elems(t) /\ u[j] \in Elems(s)
        BY <2>4, <1>2, <1>3 DEF Elems
      <3> QED
        BY <3>1, <1>5
    <2> QED
      BY <2>1, <2>2, <2>3, <2>4
  <1> QED
    BY <1>4, <1>5 DEF u

\* A new element at the end of a list that loses its oldest when it is full, as
\* pending does.
LEMMA PushList ==
  ASSUME NEW S, NEW s \in Seq(S), NEW c \in S
  PROVE  LET t == Append(IF Len(s) >= MaxPending THEN Tail(s) ELSE s, c) IN
         /\ t \in Seq(S)
         /\ Elems(t) \subseteq Elems(s) \cup {c}
         /\ NoDup(s) /\ c \notin Elems(s) => NoDup(t)
  <1> DEFINE r == IF Len(s) >= MaxPending THEN Tail(s) ELSE s
  <1>1. Len(s) >= MaxPending => s # << >>
    BY HooksAssumption
  <1>2. r \in Seq(S) /\ Elems(r) \subseteq Elems(s) /\ (NoDup(s) => NoDup(r))
    BY <1>1, TailList
  <1> HIDE DEF r
  <1>3. /\ Append(r, c) \in Seq(S)
        /\ Elems(Append(r, c)) \subseteq Elems(s) \cup {c}
        /\ NoDup(s) /\ c \notin Elems(s) => NoDup(Append(r, c))
    BY <1>2, AppendList
  <1> QED
    BY <1>3 DEF r

(***************************************************************************)
(* The invariant.                                                          *)
(***************************************************************************)

Driven(c)       == shown[c][1] = "driven"
Captured(h, a)  == sticks[h][a] # NoComp
Listed          == Elems(pending) \cup Elems(todo) \cup Elems(keep)

\* A component is in one list at most, and there only until it is captured.
ListInv ==
    /\ NoDup(pending) /\ NoDup(todo) /\ NoDup(keep)
    /\ Elems(pending) \cap Elems(todo) = {}
    /\ Elems(pending) \cap Elems(keep) = {}
    /\ Elems(todo) \cap Elems(keep) = {}
    /\ Listed \subseteq created
    /\ \A h \in Hands, a \in Axes : sticks[h][a] \notin Listed

\* What holds walk-in-place output was created and has left the lists.
FreshInv == \A c \in Comps : Driven(c) => c \in created \ Listed

Before(a, b) == <<a, b>> \in {<<"x", "y">>, <<"x", "touch">>, <<"y", "touch">>}

\* Which stick the frame thread is busy with.
StickInv ==
    /\ fpc = "release" => stick = overriding /\ stick # NoHand
    /\ fpc \in {"load", "restore"} => stick \in Hands /\ overriding = NoHand
    /\ fpc \in {"steer", "engage"} => stick # NoHand /\ overriding \in {NoHand, stick}
    /\ fpc = "drive" => stick # NoHand /\ overriding = stick
    /\ fpc \in {"load", "restore", "drive"} =>
          axis \in Axes /\ (axis = "touch" => HasTouch)

\* Captured components with walk-in-place output belong to the stick that is
\* driven, or have yet to be restored.
DrivenInv ==
    installed => \A h \in Hands, a \in Axes :
        Captured(h, a) /\ Driven(sticks[h][a]) =>
            IF fpc \in {"load", "restore"}
            THEN h = stick /\ ~Before(a, axis)
            ELSE overriding = h

\* TypeOK with the function the handles are.
HandlesType == sticks \in [Hands -> [Axes -> Comps \cup {NoComp}]]

Order == ListInv /\ FreshInv /\ StickInv /\ CapturedByRole /\ DrivenInv

IInv == TypeOK /\ HandlesType /\ Order

(***************************************************************************)
(* Types.                                                                  *)
(***************************************************************************)

HookTypes == [pc : {"idle", "match", "check", "forward"},
              comp : Comps \cup {NoComp}, v : Held, stick : Hands \cup {NoHand}]

\* Types hold at the start.
LEMMA TypeInit == Init => TypeOK /\ HandlesType
  <1> SUFFICES ASSUME Init PROVE TypeOK /\ HandlesType
    OBVIOUS
  <1>1. {"x", "y"} \subseteq Axes /\ Rest \in Held /\ NoAim \in Aims
    BY HooksAssumption DEF Held, Aims, NoAim
  <1> QED
    BY <1>1 DEF Init, TypeOK, HandlesType, Comps, Shown, IdleHook

\* A step of another driver keeps types.
LEMMA TypeHooks ==
  ASSUME TypeOK, HandlesType, OtherDrivers
  PROVE  TypeOK' /\ HandlesType'
  <1> USE DEF HookUnchanged, frameVars
  <1>1. ASSUME NEW c \in Comps, HookCreate(c) PROVE TypeOK' /\ HandlesType'
    <2>1. pending' \in Seq(Comps)
      BY <1>1, PushList DEF HookCreate, TypeOK
    <2> QED
      BY <1>1, <2>1 DEF HookCreate, TypeOK, HandlesType
  <1>2. ASSUME NEW c \in Comps, NEW v \in RealValues, Report(c, v)
        PROVE  TypeOK' /\ HandlesType'
    <2>1. last' \in [Comps -> Held]
      BY <1>2 DEF Report, TypeOK, Held
    <2>2. hook' \in [Devices -> HookTypes]
      <3>1. [pc |-> "match", comp |-> c, v |-> v, stick |-> NoHand] \in HookTypes
        BY DEF HookTypes, Held
      <3> QED
        BY <1>2, <3>1 DEF Report, TypeOK, HookTypes
    <2>3. shown' \in [Comps -> Shown]
      <3>1. <<"real", v>> \in Shown
        BY DEF Shown, Held
      <3> QED
        BY <1>2, <3>1 DEF Report, TypeOK
    <2> QED
      BY <1>2, <2>1, <2>2, <2>3 DEF Report, HookTypes, TypeOK, HandlesType
  <1>3. ASSUME NEW d \in Devices, HookMatch(d) PROVE TypeOK' /\ HandlesType'
    <2>1. hook[d] \in HookTypes
      BY DEF TypeOK, HookTypes
    <2>2. hook' \in [Devices -> HookTypes]
      <3>1. \A h \in Hands : Noted(d, h) \in HookTypes
        BY <2>1 DEF Noted, HookTypes
      <3>2. [hook[d] EXCEPT !.pc = "forward"] \in HookTypes
        BY <2>1 DEF HookTypes
      <3>3. \E x \in HookTypes : hook' = [hook EXCEPT ![d] = x]
        BY <1>3, <3>1, <3>2 DEF HookMatch
      <3> QED
        BY <3>3 DEF TypeOK, HookTypes
    <2>3. real' \in [Hands -> [Axes -> Held]]
      <3>1. hook[d].v \in Held
        BY <2>1 DEF HookTypes
      <3>2. \A h, a : \A w \in Held :
               [real EXCEPT ![h][a] = w] \in [Hands -> [Axes -> Held]]
        BY DEF TypeOK
      <3>3. \/ UNCHANGED real
            \/ \E h \in Hands : real' = [real EXCEPT ![h][hook[d].comp[2]] = hook[d].v]
        BY <1>3 DEF HookMatch
      <3>4. CASE UNCHANGED real
        BY <3>4 DEF TypeOK
      <3>5. ASSUME NEW h \in Hands, real' = [real EXCEPT ![h][hook[d].comp[2]] = hook[d].v]
            PROVE  real' \in [Hands -> [Axes -> Held]]
        <4>1. [real EXCEPT ![h][hook[d].comp[2]] = hook[d].v] \in [Hands -> [Axes -> Held]]
          BY <3>1, <3>2, Zenon
        <4> QED
          BY <3>5, <4>1, Zenon
      <3> QED
        BY <3>3, <3>4, <3>5
    <2> QED
      BY <1>3, <2>2, <2>3 DEF HookMatch, HookTypes, TypeOK, HandlesType
  <1>4. ASSUME NEW d \in Devices, HookCheck(d) PROVE TypeOK' /\ HandlesType'
    <2>1. hook[d] \in HookTypes /\ IdleHook \in HookTypes
      BY DEF TypeOK, HookTypes, IdleHook, Held
    <2>2. [hook[d] EXCEPT !.pc = "forward"] \in HookTypes
      BY <2>1 DEF HookTypes
    <2>3. hook' \in [Devices -> HookTypes]
      BY <1>4, <2>1, <2>2 DEF HookCheck, TypeOK, HookTypes
    <2> QED
      BY <1>4, <2>3 DEF HookCheck, HookTypes, TypeOK, HandlesType
  <1>5. ASSUME NEW d \in Devices, HookForward(d) PROVE TypeOK' /\ HandlesType'
    <2>1. hook[d] \in HookTypes /\ IdleHook \in HookTypes
      BY DEF TypeOK, HookTypes, IdleHook, Held
    <2>2. <<"real", hook[d].v>> \in Shown
      BY <2>1 DEF Shown, HookTypes
    <2>3. hook' \in [Devices -> HookTypes] /\ shown' \in [Comps -> Shown]
      BY <1>5, <2>1, <2>2 DEF HookForward, TypeOK, HookTypes
    <2> QED
      BY <1>5, <2>3 DEF HookForward, HookTypes, TypeOK, HandlesType
  <1>6. ASSUME NEW d \in Devices, NEW r \in Hands \cup {"other"}, SetRole(d, r)
        PROVE  TypeOK' /\ HandlesType'
    BY <1>6 DEF SetRole, TypeOK, HandlesType
  <1> QED
    BY <1>1, <1>2, <1>3, <1>4, <1>5, <1>6 DEF OtherDrivers, HookStep

\* A step of the frame thread keeps types.
LEMMA TypeFrame ==
  ASSUME TypeOK, HandlesType, StickInv, FrameThread
  PROVE  TypeOK' /\ HandlesType'
  <1> USE DEF ResolveUnchanged, DriveUnchanged
  <1>0. {"x", "y"} \subseteq Axes /\ Rest \in Held /\ NoAim \in Aims
    BY HooksAssumption DEF Held, Aims, NoAim
  <1>1. CASE ResolveTake
    BY <1>1 DEF ResolveTake, TypeOK, HandlesType
  <1>2. CASE ResolveOne
    <2> DEFINE c == Head(todo)
    <2>1. c \in Comps /\ Tail(todo) \in Seq(Comps) /\ Append(keep, c) \in Seq(Comps)
      BY <1>2 DEF ResolveOne, TypeOK
    <2>2. c \in {<<d, c[2]>> : d \in Devices} /\ c[2] \in Axes
      BY <2>1 DEF Comps
    <2> HIDE DEF c
    <2>3. /\ sticks' \in [Hands -> [Axes -> Comps \cup {NoComp}]]
          /\ \A h \in Hands, a \in Axes :
                sticks'[h][a] \in {<<d, a>> : d \in Devices} \cup {NoComp}
      <3>1. CASE UNCHANGED sticks
        BY <3>1 DEF TypeOK, HandlesType
      <3>2. CASE /\ Role(c[1]) \in Hands
                 /\ sticks' = [sticks EXCEPT ![Role(c[1])][c[2]] = c]
        BY <2>1, <2>2, <3>2 DEF TypeOK, HandlesType
      <3> QED
        BY <1>2, <3>1, <3>2 DEF ResolveOne, AxisOf, c
    <2>4. keep' \in Seq(Comps) /\ todo' \in Seq(Comps)
      BY <1>2, <2>1 DEF ResolveOne, TypeOK, c
    <2> QED
      BY <1>2, <2>3, <2>4 DEF ResolveOne, TypeOK, HandlesType
  <1>3. CASE ResolveKeep
    BY <1>3 DEF ResolveKeep, TypeOK, HandlesType
  <1>4. ASSUME NEW h \in Hands \cup {NoHand}, NEW s \in Speeds \cup {0}, DriveCall(h, s)
        PROVE  TypeOK' /\ HandlesType'
    BY <1>4 DEF DriveCall, Free, TypeOK, HandlesType
  <1>5. CASE Release
    BY <1>5 DEF Release, TypeOK, HandlesType
  <1>6. CASE LoadReal
    BY <1>6 DEF LoadReal, StickInv, TypeOK, HandlesType
  <1>7. CASE Restore
    <2>1. shown' \in [Comps -> Shown]
      <3>1. <<"real", value>> \in Shown
        BY DEF Shown, TypeOK
      <3> QED
        BY <1>7, <3>1 DEF Restore, TypeOK
    <2> QED
      BY <1>0, <1>7, <2>1 DEF Restore, Idle, AxisAfter, TypeOK, HandlesType
  <1>8. CASE Steer
    BY <1>0, <1>8 DEF Steer, Idle, StickInv, Aims, TypeOK, HandlesType
  <1>9. CASE Engage
    BY <1>9 DEF Engage, StickInv, TypeOK, HandlesType
  <1>10. CASE Inject
    <2>1. shown' \in [Comps -> Shown]
      <3>1. <<"driven", aim>> \in Shown
        BY DEF Shown, TypeOK
      <3> QED
        BY <1>10, <3>1 DEF Inject, TypeOK
    <2> QED
      BY <1>0, <1>10, <2>1 DEF Inject, Idle, AxisAfter, TypeOK, HandlesType
  <1>11. CASE Remove
    BY <1>11 DEF Remove, frameVars, TypeOK, HandlesType
  <1> QED
    BY <1>1, <1>2, <1>3, <1>4, <1>5, <1>6, <1>7, <1>8, <1>9, <1>10, <1>11
       DEF FrameThread, DriveStep

(***************************************************************************)
(* The steps of other drivers.                                             *)
(***************************************************************************)

\* What Order depends on.
orderVars == <<sticks, overriding, pending, todo, keep, installed, fpc, stick,
               axis, role, created, shown>>

\* A step that changes none of it.
LEMMA OrderSame == ASSUME Order, UNCHANGED orderVars PROVE Order'
  BY DEF Order, orderVars, ListInv, Listed, FreshInv, Driven, StickInv, HasTouch,
         CapturedByRole, DrivenInv, Captured

\* SteamVR is given real values only.
LEMMA OrderReal ==
  ASSUME TypeOK, HandlesType, Order, NEW c, NEW v,
         shown' = [shown EXCEPT ![c] = <<"real", v>>],
         UNCHANGED <<sticks, overriding, pending, todo, keep, installed, fpc, stick,
                     axis, role, created>>
  PROVE  Order'
  <1>1. \A x \in Comps : Driven(x)' => Driven(x)
    BY DEF Driven, TypeOK
  <1>2. ListInv' /\ StickInv' /\ CapturedByRole'
    BY DEF Order, ListInv, Listed, StickInv, HasTouch, CapturedByRole
  <1>3. FreshInv'
    BY <1>1 DEF Order, FreshInv, Listed
  <1>4. DrivenInv'
    <2>1. \A h \in Hands, a \in Axes :
             Captured(h, a) /\ Driven(sticks[h][a])' => Driven(sticks[h][a])
      BY <1>1 DEF Captured, HandlesType
    <2> QED
      BY <2>1 DEF Order, DrivenInv, Captured, Driven
  <1> QED
    BY <1>2, <1>3, <1>4 DEF Order

\* A new component is in no list and has no walk-in-place output.
LEMMA OrderCreate ==
  ASSUME TypeOK, HandlesType, Order, NEW c \in Comps, HookCreate(c)
  PROVE  Order'
  <1> USE DEF HookUnchanged, frameVars
  <1>1. /\ Elems(pending') \subseteq Elems(pending) \cup {c}
        /\ NoDup(pending) /\ c \notin Elems(pending) => NoDup(pending')
    BY PushList DEF HookCreate, TypeOK
  <1>2. c \notin created /\ c \notin Listed /\ c # NoComp
    BY HooksAssumption DEF HookCreate, Order, ListInv, Comps
  <1>3. \A h \in Hands, a \in Axes : sticks[h][a] # c
    BY <1>2 DEF Order, CapturedByRole
  <1>4. Listed' \subseteq Listed \cup {c} /\ created' = created \cup {c}
    BY <1>1 DEF HookCreate, Listed
  <1>5. ListInv'
    <2>1. NoDup(pending') /\ NoDup(todo') /\ NoDup(keep')
      BY <1>1, <1>2 DEF HookCreate, Order, ListInv, Listed
    <2>2. /\ Elems(pending') \cap Elems(todo') = {}
          /\ Elems(pending') \cap Elems(keep') = {}
          /\ Elems(todo') \cap Elems(keep') = {}
      BY <1>1, <1>2 DEF HookCreate, Order, ListInv, Listed
    <2>3. /\ Listed' \subseteq created'
          /\ \A h \in Hands, a \in Axes : sticks'[h][a] \notin Listed'
      BY <1>3, <1>4 DEF HookCreate, Order, ListInv
    <2> QED
      BY <2>1, <2>2, <2>3 DEF ListInv
  <1>6. FreshInv'
    BY <1>2, <1>4 DEF HookCreate, Order, FreshInv, Driven
  <1>7. StickInv' /\ CapturedByRole' /\ DrivenInv'
    BY DEF HookCreate, Order, StickInv, HasTouch, CapturedByRole, DrivenInv,
           Captured, Driven
  <1> QED
    BY <1>5, <1>6, <1>7 DEF Order

\* A step of another driver keeps Order.
LEMMA OrderHooks ==
  ASSUME TypeOK, HandlesType, Order, OtherDrivers
  PROVE  Order'
  <1> USE DEF HookUnchanged, frameVars
  <1>1. ASSUME NEW c \in Comps, HookCreate(c) PROVE Order'
    BY <1>1, OrderCreate
  <1>2. ASSUME NEW c \in Comps, NEW v \in RealValues, Report(c, v) PROVE Order'
    <2>1. CASE installed
      BY <1>2, <2>1, OrderSame DEF Report, orderVars
    <2>2. CASE ~installed
      BY <1>2, <2>2, OrderReal DEF Report
    <2> QED
      BY <2>1, <2>2
  <1>3. ASSUME NEW d \in Devices, HookMatch(d) PROVE Order'
    BY <1>3, OrderSame DEF HookMatch, orderVars
  <1>4. ASSUME NEW d \in Devices, HookCheck(d) PROVE Order'
    BY <1>4, OrderSame DEF HookCheck, orderVars
  <1>5. ASSUME NEW d \in Devices, HookForward(d) PROVE Order'
    BY <1>5, OrderReal DEF HookForward
  <1>6. ASSUME NEW d \in Devices, NEW r \in Hands \cup {"other"}, SetRole(d, r)
        PROVE  Order'
    <2>1. \A x \in Devices : role[x] \in Hands => role'[x] = role[x]
      BY <1>6, HooksAssumption DEF SetRole, TypeOK
    <2>2. CapturedByRole'
      BY <1>6, <2>1 DEF SetRole, Order, CapturedByRole, HandlesType, Comps
    <2>3. ListInv' /\ FreshInv' /\ StickInv' /\ DrivenInv'
      BY <1>6 DEF SetRole, Order, ListInv, Listed, FreshInv, Driven, StickInv,
                  HasTouch, DrivenInv, Captured
    <2> QED
      BY <2>2, <2>3 DEF Order
  <1> QED
    BY <1>1, <1>2, <1>3, <1>4, <1>5, <1>6 DEF OtherDrivers, HookStep

(***************************************************************************)
(* The steps of the frame thread.                                          *)
(***************************************************************************)

\* An entry is kept, dropped or captured: it then is in one place only.
LEMMA OrderResolveOne ==
  ASSUME TypeOK, HandlesType, Order, ResolveOne
  PROVE  Order'
  <1> USE DEF ResolveUnchanged
  <1> DEFINE c == Head(todo)
  <1>1. /\ c \in Comps /\ c \in Elems(todo) /\ c \notin Elems(todo')
        /\ Elems(todo') \subseteq Elems(todo) /\ NoDup(todo')
    BY TailList DEF ResolveOne, TypeOK, Order, ListInv
  <1>2. c \in created /\ ~Driven(c) /\ c[2] \in Axes /\ c # NoComp
    BY <1>1, HooksAssumption DEF Order, ListInv, Listed, FreshInv, Comps
  <1>3. fpc = "resolve" /\ fpc' = fpc /\ pending' = pending
    BY DEF ResolveOne
  <1>4. CASE Role(c[1]) = "unset" /\ keep' = Append(keep, c) /\ UNCHANGED sticks
    <2>1. /\ Elems(keep') = Elems(keep) \cup {c}
          /\ NoDup(keep) /\ c \notin Elems(keep) => NoDup(keep')
      BY <1>1, <1>4, AppendList DEF TypeOK
    <2>2. ListInv'
      BY <1>1, <1>2, <1>3, <1>4, <2>1 DEF ResolveOne, Order, ListInv, Listed
    <2>3. FreshInv'
      BY <1>1, <1>2, <1>3, <2>1 DEF ResolveOne, Order, FreshInv, Listed, Driven
    <2>4. StickInv' /\ CapturedByRole' /\ DrivenInv'
      BY <1>3, <1>4 DEF ResolveOne, Order, StickInv, HasTouch, CapturedByRole,
                        DrivenInv, Captured, Driven
    <2> QED
      BY <2>2, <2>3, <2>4 DEF Order
  <1>5. CASE UNCHANGED <<keep, sticks>>
    <2>1. ListInv'
      BY <1>1, <1>3, <1>5 DEF ResolveOne, Order, ListInv, Listed
    <2>2. FreshInv'
      BY <1>1, <1>3, <1>5 DEF ResolveOne, Order, FreshInv, Listed, Driven
    <2>3. StickInv' /\ CapturedByRole' /\ DrivenInv'
      BY <1>3, <1>5 DEF ResolveOne, Order, StickInv, HasTouch, CapturedByRole,
                        DrivenInv, Captured, Driven
    <2> QED
      BY <2>1, <2>2, <2>3 DEF Order
  <1>6. CASE /\ Role(c[1]) \in Hands /\ UNCHANGED keep
             /\ sticks' = [sticks EXCEPT ![Role(c[1])][AxisOf(c)] = c]
    <2>1. \A h \in Hands, a \in Axes :
             \/ sticks'[h][a] = sticks[h][a]
             \/ sticks'[h][a] = c /\ h = role[c[1]]
      BY <1>6, <1>2 DEF HandlesType, Role, AxisOf
    <2>2. ListInv'
      BY <1>1, <1>3, <1>6, <2>1 DEF ResolveOne, Order, ListInv, Listed
    <2>3. FreshInv'
      BY <1>1, <1>3, <1>6 DEF ResolveOne, Order, FreshInv, Listed, Driven
    <2>4. CapturedByRole'
      BY <1>2, <2>1 DEF ResolveOne, Order, CapturedByRole
    <2>5. DrivenInv'
      BY <1>2, <1>3, <2>1 DEF ResolveOne, Order, DrivenInv, Captured, Driven
    <2>6. StickInv'
      BY <1>3 DEF ResolveOne, Order, StickInv
    <2> QED
      BY <2>2, <2>3, <2>4, <2>5, <2>6 DEF Order
  <1> QED
    BY <1>4, <1>5, <1>6 DEF ResolveOne

\* The whole list is taken, or what is kept is put back.
LEMMA OrderLists ==
  ASSUME TypeOK, HandlesType, Order, ResolveTake \/ ResolveKeep
  PROVE  Order'
  <1> USE DEF ResolveUnchanged
  <1>1. UNCHANGED <<sticks, overriding, installed, stick, axis, role, created, shown>>
    BY DEF ResolveTake, ResolveKeep
  <1>2. /\ fpc \in {"idle", "resolve"} /\ fpc' \in {"idle", "resolve"}
    BY DEF ResolveTake, ResolveKeep
  <1>3. StickInv' /\ CapturedByRole' /\ DrivenInv'
    BY <1>1, <1>2 DEF Order, StickInv, CapturedByRole, DrivenInv, Captured, Driven
  <1>4. /\ NoDup(pending') /\ NoDup(todo') /\ NoDup(keep')
        /\ Elems(pending') \cap Elems(todo') = {}
        /\ Elems(pending') \cap Elems(keep') = {}
        /\ Elems(todo') \cap Elems(keep') = {}
        /\ Listed' \subseteq Listed
    <2>1. CASE ResolveTake
      BY <2>1, EmptyList DEF ResolveTake, Order, ListInv, Listed
    <2>2. CASE ResolveKeep
      <3>1. /\ Elems(pending') = Elems(pending) \cup Elems(keep)
            /\ NoDup(pending')
        BY <2>2, ConcatList DEF ResolveKeep, TypeOK, Order, ListInv
      <3>2. Elems(todo') = {} /\ Elems(keep') = {} /\ NoDup(todo') /\ NoDup(keep')
        BY <2>2, EmptyList DEF ResolveKeep
      <3> QED
        BY <3>1, <3>2 DEF Listed
    <2> QED
      BY <2>1, <2>2
  <1>5. ListInv' /\ FreshInv'
    BY <1>1, <1>4 DEF Order, ListInv, FreshInv, Driven
  <1> QED
    BY <1>3, <1>5 DEF Order

\* The frame thread drives or releases a stick: neither lists nor handles change.
LEMMA OrderDrive ==
  ASSUME TypeOK, HandlesType, Order,
         \/ \E h \in Hands \cup {NoHand}, s \in Speeds \cup {0} : DriveCall(h, s)
         \/ DriveStep
  PROVE  Order'
  <1> USE DEF DriveUnchanged
  <1>0. HooksAssumption /\ {"x", "y"} \subseteq Axes
    BY HooksAssumption DEF HooksAssumption
  <1>1. /\ UNCHANGED <<sticks, pending, todo, keep, role, created, installed>>
        /\ ListInv' /\ CapturedByRole'
    BY DEF DriveCall, DriveStep, Release, LoadReal, Restore, Steer, Engage, Inject,
           Order, ListInv, Listed, CapturedByRole
  <1> SUFFICES FreshInv' /\ StickInv' /\ DrivenInv'
    BY <1>1 DEF Order
  <1>2. ASSUME UNCHANGED shown PROVE FreshInv'
    BY <1>1, <1>2 DEF Order, FreshInv, Driven, Listed
  <1>3. \A h \in Hands, a \in Axes : Captured(h, a)' <=> Captured(h, a)
    BY <1>1 DEF Captured
  <1>4. ASSUME NEW h \in Hands \cup {NoHand}, NEW s \in Speeds \cup {0}, DriveCall(h, s)
        PROVE  FreshInv' /\ StickInv' /\ DrivenInv'
    <2>1. UNCHANGED <<shown, overriding>> /\ fpc = "idle"
          /\ fpc' \in {"release", "steer"}
      BY <1>4 DEF DriveCall
    <2>2. StickInv'
      BY <1>0, <1>4, <2>1 DEF DriveCall, Free, StickInv, HooksAssumption, TypeOK
    <2>3. DrivenInv'
      BY <1>1, <1>3, <2>1 DEF Order, DrivenInv, Driven
    <2> QED
      BY <1>2, <2>1, <2>2, <2>3
  <1>5. CASE Release
    <2>1. /\ UNCHANGED <<shown, stick>> /\ fpc = "release" /\ fpc' = "load"
          /\ axis' = "x" /\ overriding' = NoHand
      BY <1>5 DEF Release
    <2>2. StickInv'
      BY <1>0, <2>1 DEF Order, StickInv, TypeOK
    <2>3. DrivenInv'
      BY <1>1, <1>3, <2>1 DEF Order, StickInv, DrivenInv, Driven, Before
    <2> QED
      BY <1>2, <2>1, <2>2, <2>3
  <1>6. CASE LoadReal
    <2>1. /\ UNCHANGED <<shown, stick, axis, overriding>>
          /\ fpc = "load" /\ fpc' = "restore"
      BY <1>6 DEF LoadReal
    <2>2. StickInv'
      BY <1>1, <2>1 DEF Order, StickInv, HasTouch
    <2>3. DrivenInv'
      BY <1>1, <1>3, <2>1 DEF Order, DrivenInv, Driven, Before
    <2> QED
      BY <1>2, <2>1, <2>2, <2>3
  <1>7. CASE Restore
    <2>1. /\ fpc = "restore" /\ overriding = NoHand /\ overriding' = NoHand
          /\ stick \in Hands /\ axis \in Axes /\ (axis = "touch" => HasTouch)
          /\ shown' = [shown EXCEPT ![sticks[stick][axis]] = <<"real", value>>]
      BY <1>7 DEF Restore, Order, StickInv
    <2>2. \A x \in Comps : Driven(x)' => Driven(x) /\ x # sticks[stick][axis]
      BY <2>1 DEF Driven, TypeOK
    <2>3. FreshInv'
      BY <1>1, <2>2 DEF Order, FreshInv, Listed
    <2>4. \A h \in Hands, a \in Axes :
             Captured(h, a)' /\ Driven(sticks[h][a])' =>
                (installed => h = stick /\ a # axis /\ ~Before(a, axis))
      <3>1. ASSUME installed, NEW h \in Hands, NEW a \in Axes,
                   Captured(h, a)', Driven(sticks[h][a])'
            PROVE  h = stick /\ a # axis /\ ~Before(a, axis)
        <4>1. Captured(h, a) /\ sticks[h][a] \in Comps
          BY <1>3, <3>1 DEF Captured, HandlesType
        <4>2. Driven(sticks[h][a]) /\ sticks[h][a] # sticks[stick][axis]
          BY <1>1, <2>2, <3>1, <4>1 DEF Driven
        <4>3. h = stick /\ ~Before(a, axis)
          BY <2>1, <3>1, <4>1, <4>2 DEF Order, DrivenInv
        <4> QED
          BY <4>2, <4>3
      <3> QED
        BY <3>1
    <2>5. CASE ~LastAxis(axis)
      <3>1. fpc' = "load" /\ axis' = AxisAfter(axis) /\ stick' = stick
        BY <1>7, <2>5 DEF Restore
      <3>2. \/ axis = "x" /\ axis' = "y"
            \/ axis = "y" /\ axis' = "touch" /\ HasTouch
        BY <1>0, <2>1, <2>5, <3>1 DEF LastAxis, AxisAfter, HooksAssumption
      <3>3. StickInv'
        BY <1>0, <1>1, <2>1, <3>1, <3>2 DEF StickInv, HasTouch
      <3>4. DrivenInv'
        BY <1>0, <1>1, <2>4, <3>1, <3>2 DEF DrivenInv, Before, Driven, HooksAssumption
      <3> QED
        BY <2>3, <3>3, <3>4
    <2>6. CASE LastAxis(axis)
      <3>1. /\ fpc' \in {"steer", "idle"}
            /\ fpc' = "steer" => stick' # NoHand
        BY <1>7, <2>6 DEF Restore, Idle
      <3>2. StickInv'
        BY <2>1, <3>1 DEF StickInv
      <3>3. \A h \in Hands, a \in Axes : installed =>
               ~(Captured(h, a)' /\ Driven(sticks[h][a])')
        <4>1. ASSUME installed, NEW h \in Hands, NEW a \in Axes,
                     Captured(h, a)', Driven(sticks[h][a])'
              PROVE  FALSE
          <5>1. h = stick /\ a # axis /\ ~Before(a, axis)
            BY <2>4, <4>1
          <5>2. axis = "y" /\ a = "touch"
            BY <1>0, <2>1, <2>6, <5>1 DEF LastAxis, Before, HooksAssumption
          <5>3. ~HasTouch
            BY <2>6, <5>2 DEF LastAxis
          <5> QED
            BY <1>3, <4>1, <5>1, <5>2, <5>3 DEF HasTouch, Captured
        <4> QED
          BY <4>1
      <3>4. DrivenInv'
        BY <1>1, <3>3 DEF DrivenInv, Driven
      <3> QED
        BY <2>3, <3>2, <3>4
    <2> QED
      BY <2>5, <2>6
  <1>8. CASE Steer
    <2>1. /\ UNCHANGED <<shown, overriding>> /\ fpc = "steer"
          /\ fpc' \in {"idle", "engage"}
          /\ fpc' = "engage" => stick' = stick
      BY <1>8 DEF Steer, Idle
    <2>2. StickInv'
      BY <2>1 DEF Order, StickInv
    <2>3. DrivenInv'
      BY <1>1, <1>3, <2>1 DEF Order, DrivenInv, Driven
    <2> QED
      BY <1>2, <2>1, <2>2, <2>3
  <1>9. CASE Engage
    <2>1. /\ UNCHANGED <<shown, stick>> /\ fpc = "engage" /\ fpc' = "drive"
          /\ axis' = "x" /\ overriding' = stick /\ overriding \in {NoHand, stick}
          /\ stick # NoHand
      BY <1>9 DEF Engage, Order, StickInv
    <2>2. StickInv'
      BY <1>0, <2>1 DEF StickInv
    <2>3. DrivenInv'
      BY <1>0, <1>1, <1>3, <2>1 DEF Order, DrivenInv, Driven, HooksAssumption
    <2> QED
      BY <1>2, <2>1, <2>2, <2>3
  <1>10. CASE Inject
    <2>1. /\ fpc = "drive" /\ overriding = stick /\ overriding' = stick
          /\ stick \in Hands /\ axis \in Axes /\ (axis = "touch" => HasTouch)
          /\ shown' = [shown EXCEPT ![sticks[stick][axis]] = <<"driven", aim>>]
      BY <1>10 DEF Inject, Order, StickInv, TypeOK
    <2>2. \A x \in Comps : Driven(x)' => Driven(x) \/ x = sticks[stick][axis]
      BY <2>1 DEF Driven, TypeOK
    <2>3. FreshInv'
      <3>1. sticks[stick][axis] \in Comps => sticks[stick][axis] \in created \ Listed
        BY <1>0, <2>1 DEF Order, CapturedByRole, ListInv, HooksAssumption, Comps
      <3> QED
        BY <1>1, <2>2, <3>1 DEF Order, FreshInv, Listed
    <2>4. DrivenInv'
      <3>1. \A h \in Hands, a \in Axes : installed =>
               (Captured(h, a)' /\ Driven(sticks[h][a])' => overriding = h)
        <4>1. ASSUME installed, NEW h \in Hands, NEW a \in Axes,
                     Captured(h, a)', Driven(sticks[h][a])'
              PROVE  overriding = h
          <5>1. Captured(h, a) /\ sticks[h][a] \in Comps
            BY <1>3, <4>1 DEF Captured, HandlesType
          <5>2. Driven(sticks[h][a]) \/ sticks[h][a] = sticks[stick][axis]
            BY <1>1, <2>2, <4>1, <5>1 DEF Driven
          <5>3. CASE Driven(sticks[h][a])
            BY <2>1, <4>1, <5>1, <5>3 DEF Order, DrivenInv
          <5>4. CASE sticks[h][a] = sticks[stick][axis]
            BY <2>1, <5>1, <5>4 DEF Order, CapturedByRole, Captured
          <5> QED
            BY <5>2, <5>3, <5>4
        <4> QED
          BY <4>1
      <3>2. fpc' \in {"idle", "drive"}
        BY <1>10 DEF Inject, Idle
      <3> QED
        BY <1>1, <2>1, <3>1, <3>2 DEF DrivenInv, Driven
    <2>5. StickInv'
      <3>1. CASE LastAxis(axis)
        BY <1>10, <3>1 DEF Inject, Idle, StickInv
      <3>2. CASE ~LastAxis(axis)
        <4>1. fpc' = "drive" /\ axis' = AxisAfter(axis) /\ stick' = stick
          BY <1>10, <2>1, <3>2 DEF Inject
        <4>2. axis' = "y" \/ (axis' = "touch" /\ HasTouch)
          BY <1>0, <2>1, <3>2, <4>1 DEF LastAxis, AxisAfter, HooksAssumption
        <4> QED
          BY <1>0, <1>1, <2>1, <4>1, <4>2 DEF Order, StickInv, HasTouch
      <3> QED
        BY <3>1, <3>2
    <2> QED
      BY <2>3, <2>4, <2>5
  <1> QED
    BY <1>4, <1>5, <1>6, <1>7, <1>8, <1>9, <1>10 DEF DriveStep

\* A step of the frame thread keeps Order.
LEMMA OrderFrame ==
  ASSUME TypeOK, HandlesType, Order, FrameThread
  PROVE  Order'
  <1>1. CASE Remove
    BY <1>1 DEF Remove, frameVars, Order, ListInv, Listed, FreshInv, Driven, StickInv,
                CapturedByRole, DrivenInv
  <1> QED
    BY <1>1, OrderResolveOne, OrderLists, OrderDrive DEF FrameThread

(***************************************************************************)
(* The theorems.                                                           *)
(***************************************************************************)

\* The invariant holds at the start.
LEMMA IInvInit == Init => IInv
  <1>1. Init => Order
    <2> SUFFICES ASSUME Init PROVE Order
      OBVIOUS
    <2>1. Listed = {}
      BY EmptyList DEF Init, Listed
    <2> QED
      BY <2>1, EmptyList DEF Init, Order, ListInv, FreshInv, Driven, StickInv,
                             CapturedByRole, DrivenInv, Captured
  <1> QED
    BY <1>1, TypeInit DEF IInv

\* Every step keeps the invariant.
LEMMA IInvNext == IInv /\ [Next]_vars => IInv'
  <1> SUFFICES ASSUME IInv, [Next]_vars PROVE IInv'
    OBVIOUS
  <1>1. TypeOK /\ HandlesType /\ Order /\ StickInv
    BY DEF IInv, Order
  <1>2. CASE FrameThread
    BY <1>1, <1>2, TypeFrame, OrderFrame DEF IInv
  <1>3. CASE OtherDrivers
    BY <1>1, <1>3, TypeHooks, OrderHooks DEF IInv
  <1>4. CASE UNCHANGED vars
    <2>1. TypeOK' /\ HandlesType'
      BY <1>1, <1>4 DEF vars, frameVars, TypeOK, HandlesType
    <2> QED
      BY <1>1, <1>4, <2>1, OrderSame DEF IInv, vars, frameVars, orderVars
  <1> QED
    BY <1>2, <1>3, <1>4 DEF Next

\* The invariant holds in every state the driver and the hooks reach.
THEOREM Invariance == Spec => []IInv
  BY IInvInit, IInvNext, PTL DEF Spec

\* Every variable keeps its type, and a handle is captured for its own axis
\* (ResolvePending, Drive and the hooks).
THEOREM TypeCorrect == Spec => []TypeOK
  <1>1. IInv => TypeOK
    BY DEF IInv
  <1> QED
    BY <1>1, Invariance, PTL

\* ResolvePending captures a component for one hand only, that of its device's
\* role, and only after the hooks remembered its creation.
THEOREM CapturedOnce == Spec => []CapturedByRole
  <1>1. IInv => CapturedByRole
    BY DEF IInv, Order
  <1> QED
    BY <1>1, Invariance, PTL

\* Between calls of Drive no captured component but those of the stick named by
\* overriding holds walk-in-place output: a stick that was released holds none.
THEOREM ReleasedIsReal == Spec => []OnlyDrivenStick
  <1>1. IInv => OnlyDrivenStick
    <2> SUFFICES ASSUME IInv, fpc = "idle", installed, NEW h \in Hands, NEW a \in Axes,
                        sticks[h][a] # NoComp, shown[sticks[h][a]][1] = "driven"
                 PROVE  overriding = h
      BY DEF OnlyDrivenStick
    <2> QED
      BY DEF IInv, Order, DrivenInv, Captured, Driven
  <1> QED
    BY <1>1, Invariance, PTL

(***************************************************************************)
(* Installer.                                                              *)
(***************************************************************************)

(***************************************************************************)
(* The invariant.  Nothing is known of a run that was cut off but that it  *)
(* left at most one home in SteamVR's list: each run removes the homes     *)
(* from the list before it adds its own.                                   *)
(***************************************************************************)

States == {"none", "bare", "named", "part", "whole"}
Paths  == {UserPaths[n] : n \in 1 .. 3}
Registered == external_drivers \cap Homes

\* Where a run of install() or uninstall() has registered copies to deal with.
Registering == {"find", "remove", "add", "links"}

TypeInv ==
    /\ app \in [Homes -> {"none", "part", "whole"}]
    /\ driver \in [Homes -> States]
    /\ external_drivers \subseteq Homes \cup Others
    /\ user_paths \in [Paths -> Homes \cup {NoHome}]
    /\ job \in [kind : {"none", "install", "uninstall"}, home : Homes \cup {NoHome},
                register : BOOLEAN]
    /\ pc \in {"idle", "unpack", "unpacking", "rmtree", "items", "manifest", "library",
               "done"} \cup Registering
    /\ found \subseteq Homes
    /\ paths \in Seq(Paths)

\* Which run it is.
JobInv ==
    /\ job.kind = "install" => job.home \in Homes
    /\ job.kind = "uninstall" => job.home = NoHome /\ ~job.register
    /\ pc \in {"unpack", "unpacking", "rmtree", "items", "manifest", "library", "add"}
          => job.kind = "install"
    /\ pc \in Registering => job.kind = "uninstall" \/ job.register
    /\ pc # "idle" => job.kind # "none"

\* The copy is built before it is registered.
BuiltInv == pc \in Registering \cup {"done"} /\ job.kind = "install"
                => driver[job.home] = app[job.home]

\* The homes in the list.
CopiesInv ==
    /\ Others \subseteq external_drivers
    /\ \A d, e \in Registered : d = e
    /\ pc = "remove" => Registered = found
    /\ pc = "add" => Registered = {}
    /\ pc \in {"links", "done"} =>
          /\ job.register => Registered = {job.home}
          /\ job.kind = "uninstall" => Registered = {}

\* The paths of the user not yet dealt with.
PathsInv ==
    /\ pc \in {"remove", "add", "links"} =>
          \A p \in Paths : \/ \E n \in 1 .. Len(paths) : paths[n] = p
                           \/ pc = "links" /\ user_paths[p] = job.home
    /\ pc = "done" /\ (job.register \/ job.kind = "uninstall")
          => \A p \in Paths : user_paths[p] = job.home

InstallerInv == TypeInv /\ JobInv /\ BuiltInv /\ CopiesInv /\ PathsInv

\* What the paths are.
LEMMA UserPathsSeq ==
  /\ UserPaths \in Seq(Paths)
  /\ \A p \in Paths : \E n \in 1 .. Len(UserPaths) : UserPaths[n] = p
  <1>1. UserPaths = <<UserPaths[1], UserPaths[2], UserPaths[3]>> /\ Len(UserPaths) = 3
    BY DEF UserPaths
  <1>2. UserPaths[1] \in Paths /\ UserPaths[2] \in Paths /\ UserPaths[3] \in Paths
    BY DEF Paths
  <1>3. UserPaths \in Seq(Paths)
    BY <1>2 DEF UserPaths
  <1> QED
    BY <1>1, <1>3 DEF Paths

\* Every step keeps the types.
LEMMA TypeStep == TypeInv /\ JobInv /\ [InstallerNext]_installerVars => TypeInv'
  <1> SUFFICES ASSUME TypeInv, JobInv, [InstallerNext]_installerVars PROVE TypeInv'
    OBVIOUS
  <1> USE DEF TypeInv, JobInv, States, Registering, Paths, files, steamvr,
          loops
  <1>1. ASSUME InstallStep PROVE TypeInv'
    <2>1. ASSUME BeginUnpack PROVE TypeInv'
      BY <2>1 DEF BeginUnpack, At, OnlyFiles
    <2>2. ASSUME EndUnpack PROVE TypeInv'
      BY <2>2 DEF EndUnpack, At, OnlyFiles
    <2>3. ASSUME RemoveTree PROVE TypeInv'
      BY <2>3 DEF RemoveTree, At, Becomes, OnlyFiles
    <2>4. ASSUME CopyItems PROVE TypeInv'
      BY <2>4 DEF CopyItems, At, Becomes, OnlyFiles
    <2>5. ASSUME CopyManifest PROVE TypeInv'
      BY <2>5 DEF CopyManifest, At, Becomes, OnlyFiles
    <2>6. ASSUME CopyLibrary PROVE TypeInv'
      BY <2>6 DEF CopyLibrary, At, Becomes, OnlyFiles
    <2>7. ASSUME FindDrivers PROVE TypeInv'
      <3>1. found' \subseteq Homes /\ paths' \in Seq(Paths)
        BY <2>7, UserPathsSeq DEF FindDrivers, Recognised, Named, Paths
      <3> QED
        BY <2>7, <3>1 DEF FindDrivers, At
    <2>8. ASSUME RemoveDriver PROVE TypeInv'
      BY <2>8 DEF RemoveDriver, At
    <2>9. ASSUME Removed PROVE TypeInv'
      BY <2>9 DEF Removed, At
    <2>10. ASSUME AddDriver PROVE TypeInv'
      BY <2>10 DEF AddDriver, At
    <2>11. ASSUME WritePath PROVE TypeInv'
      BY <2>11 DEF WritePath, At
    <2>12. ASSUME Written PROVE TypeInv'
      BY <2>12 DEF Written, At
    <2>13. ASSUME Done PROVE TypeInv'
      BY <2>13 DEF Done, Ends, NoJob
    <2> QED
      BY <1>1, <2>1, <2>2, <2>3, <2>4, <2>5, <2>6, <2>7, <2>8, <2>9, <2>10,
         <2>11, <2>12, <2>13 DEF InstallStep
  <1>2. ASSUME NEW h \in Homes, DeleteHome(h) PROVE TypeInv'
    BY <1>2 DEF DeleteHome
  <1>3. ASSUME NEW h \in Homes, NEW i \in BOOLEAN, NEW r \in BOOLEAN, Start(h,
              i, r) PROVE TypeInv'
    BY <1>3 DEF Start
  <1>4. ASSUME Uninstall PROVE TypeInv'
    BY <1>4 DEF Uninstall, NoJob
  <1>5. ASSUME Fail PROVE TypeInv'
    BY <1>5 DEF Fail, Ends, NoJob
  <1>6. ASSUME UNCHANGED installerVars PROVE TypeInv'
    BY <1>6 DEF installerVars
  <1> QED
    BY <1>1, <1>2, <1>3, <1>4, <1>5, <1>6 DEF InstallerNext

\* Every step keeps what is known of the run and of SteamVR's list.
LEMMA RunStep ==
  TypeInv /\ JobInv /\ BuiltInv /\ CopiesInv /\ [InstallerNext]_installerVars
      => (JobInv /\ BuiltInv /\ CopiesInv)'
  <1> SUFFICES ASSUME TypeInv, JobInv, BuiltInv, CopiesInv, [InstallerNext]_installerVars
               PROVE  (JobInv /\ BuiltInv /\ CopiesInv)'
    OBVIOUS
  <1> USE DEF TypeInv, JobInv, BuiltInv, CopiesInv, Registered, Registering, files,
          steamvr, loops
  <1>1. ASSUME InstallStep PROVE (JobInv /\ BuiltInv /\ CopiesInv)'
    <2>1. ASSUME BeginUnpack PROVE (JobInv /\ BuiltInv /\ CopiesInv)'
      BY <2>1 DEF BeginUnpack, At, OnlyFiles
    <2>2. ASSUME EndUnpack PROVE (JobInv /\ BuiltInv /\ CopiesInv)'
      BY <2>2 DEF EndUnpack, At, OnlyFiles
    <2>3. ASSUME RemoveTree PROVE (JobInv /\ BuiltInv /\ CopiesInv)'
      BY <2>3 DEF RemoveTree, At, Becomes, OnlyFiles
    <2>4. ASSUME CopyItems PROVE (JobInv /\ BuiltInv /\ CopiesInv)'
      BY <2>4 DEF CopyItems, At, Becomes, OnlyFiles
    <2>5. ASSUME CopyManifest PROVE (JobInv /\ BuiltInv /\ CopiesInv)'
      BY <2>5 DEF CopyManifest, At, Becomes, OnlyFiles
    <2>6. ASSUME CopyLibrary PROVE (JobInv /\ BuiltInv /\ CopiesInv)'
      BY <2>6 DEF CopyLibrary, At, Becomes, OnlyFiles
    <2>7. ASSUME FindDrivers PROVE (JobInv /\ BuiltInv /\ CopiesInv)'
      BY <2>7 DEF FindDrivers, At, Recognised, Named
    <2>8. ASSUME RemoveDriver PROVE (JobInv /\ BuiltInv /\ CopiesInv)'
      <3>1. PICK d \in found : /\ found' = found \ {d}
                               /\ external_drivers' = external_drivers \ {d}
        BY <2>8 DEF RemoveDriver
      <3>2. /\ pc = "remove" /\ pc' = "remove" /\ d \notin Others /\ Registered = found
            /\ UNCHANGED <<job, driver, app>>
        BY <2>8, <3>1, InstallerAssumption DEF RemoveDriver, At
      <3>3. Others \subseteq external_drivers' /\ Registered' = found'
        BY <3>1, <3>2
      <3> QED
        BY <3>1, <3>2, <3>3
    <2>9. ASSUME Removed PROVE (JobInv /\ BuiltInv /\ CopiesInv)'
      <3>1. /\ pc = "remove" /\ found = {} /\ Registered = {} /\ Registered' = {}
            /\ pc' = IF job.kind = "install" THEN "add" ELSE "links"
            /\ UNCHANGED <<job, driver, app, external_drivers>>
        BY <2>9 DEF Removed, At
      <3>2. job.kind = "install" \/ (job.kind = "uninstall" /\ ~job.register)
        BY <3>1
      <3> QED
        BY <3>1, <3>2
    <2>10. ASSUME AddDriver PROVE (JobInv /\ BuiltInv /\ CopiesInv)'
      BY <2>10 DEF AddDriver, At
    <2>11. ASSUME WritePath PROVE (JobInv /\ BuiltInv /\ CopiesInv)'
      BY <2>11 DEF WritePath, At
    <2>12. ASSUME Written PROVE (JobInv /\ BuiltInv /\ CopiesInv)'
      <3>1. /\ pc = "links" /\ pc' = "done" /\ Registered' = Registered
            /\ UNCHANGED <<job, driver, app, external_drivers>>
        BY <2>12 DEF Written, At
      <3>2. job.kind \in {"install", "uninstall"}
        BY <3>1
      <3> QED
        BY <3>1, <3>2
    <2>13. ASSUME Done PROVE (JobInv /\ BuiltInv /\ CopiesInv)'
      BY <2>13 DEF Done, Ends, NoJob
    <2> QED
      BY <1>1, <2>1, <2>2, <2>3, <2>4, <2>5, <2>6, <2>7, <2>8, <2>9, <2>10,
         <2>11, <2>12, <2>13 DEF InstallStep
  <1>2. ASSUME NEW h \in Homes, DeleteHome(h) PROVE (JobInv /\ BuiltInv /\
              CopiesInv)'
    BY <1>2 DEF DeleteHome
  <1>3. ASSUME NEW h \in Homes, NEW i \in BOOLEAN, NEW r \in BOOLEAN, Start(h,
              i, r) PROVE (JobInv /\ BuiltInv /\ CopiesInv)'
    BY <1>3 DEF Start
  <1>4. ASSUME Uninstall PROVE (JobInv /\ BuiltInv /\ CopiesInv)'
    BY <1>4 DEF Uninstall, NoJob
  <1>5. ASSUME Fail PROVE (JobInv /\ BuiltInv /\ CopiesInv)'
    BY <1>5 DEF Fail, Ends, NoJob
  <1>6. ASSUME UNCHANGED installerVars PROVE (JobInv /\ BuiltInv /\ CopiesInv)'
    BY <1>6 DEF installerVars
  <1> QED
    BY <1>1, <1>2, <1>3, <1>4, <1>5, <1>6 DEF InstallerNext

\* Every step keeps what is known of the user's paths.
LEMMA PathsStep ==
  TypeInv /\ JobInv /\ PathsInv /\ [InstallerNext]_installerVars => PathsInv'
  <1> SUFFICES ASSUME TypeInv, JobInv, PathsInv, [InstallerNext]_installerVars
               PROVE  PathsInv'
    OBVIOUS
  <1> USE DEF TypeInv, JobInv, PathsInv, files, steamvr, loops
  <1>1. ASSUME InstallStep PROVE PathsInv'
    <2>1. ASSUME BeginUnpack PROVE PathsInv'
      BY <2>1 DEF BeginUnpack, At, OnlyFiles
    <2>2. ASSUME EndUnpack PROVE PathsInv'
      BY <2>2 DEF EndUnpack, At, OnlyFiles
    <2>3. ASSUME RemoveTree PROVE PathsInv'
      BY <2>3 DEF RemoveTree, At, Becomes, OnlyFiles
    <2>4. ASSUME CopyItems PROVE PathsInv'
      BY <2>4 DEF CopyItems, At, Becomes, OnlyFiles
    <2>5. ASSUME CopyManifest PROVE PathsInv'
      BY <2>5 DEF CopyManifest, At, Becomes, OnlyFiles
    <2>6. ASSUME CopyLibrary PROVE PathsInv'
      BY <2>6 DEF CopyLibrary, At, Becomes, OnlyFiles
    <2>7. ASSUME FindDrivers PROVE PathsInv'
      <3>1. \A p \in Paths : \E n \in 1 .. Len(paths') : paths'[n] = p
        BY <2>7, UserPathsSeq DEF FindDrivers
      <3> QED
        BY <2>7, <3>1 DEF FindDrivers, At
    <2>8. ASSUME RemoveDriver PROVE PathsInv'
      BY <2>8 DEF RemoveDriver, At
    <2>9. ASSUME Removed PROVE PathsInv'
      BY <2>9 DEF Removed, At
    <2>10. ASSUME AddDriver PROVE PathsInv'
      BY <2>10 DEF AddDriver, At
    <2>11. ASSUME WritePath PROVE PathsInv'
      <3>1. /\ pc = "links" /\ pc' = "links" /\ job' = job
            /\ paths # << >> /\ paths' = Tail(paths)
            /\ user_paths' = [user_paths EXCEPT ![Head(paths)] = job.home]
        BY <2>11 DEF WritePath, At
      <3>2. ASSUME NEW p \in Paths
            PROVE  (\E n \in 1 .. Len(paths') : paths'[n] = p) \/ user_paths'[p] = job.home
        <4>1. CASE p = Head(paths)
          BY <3>1, <4>1
        <4>2. CASE p # Head(paths) /\ user_paths[p] = job.home
          BY <3>1, <4>2
        <4>3. ASSUME NEW n \in 1 .. Len(paths), p # Head(paths), paths[n] = p
              PROVE  \E k \in 1 .. Len(paths') : paths'[k] = p
          <5>1. n # 1 /\ n - 1 \in 1 .. Len(Tail(paths)) /\ Tail(paths)[n - 1] = paths[n]
            BY <3>1, <4>3
          <5> QED
            BY <3>1, <4>3, <5>1
        <4> QED
          BY <3>1, <4>1, <4>2, <4>3
      <3> QED
        BY <3>1, <3>2
    <2>12. ASSUME Written PROVE PathsInv'
      BY <2>12 DEF Written, At
    <2>13. ASSUME Done PROVE PathsInv'
      BY <2>13 DEF Done, Ends, NoJob
    <2> QED
      BY <1>1, <2>1, <2>2, <2>3, <2>4, <2>5, <2>6, <2>7, <2>8, <2>9, <2>10,
         <2>11, <2>12, <2>13 DEF InstallStep
  <1>2. ASSUME NEW h \in Homes, DeleteHome(h) PROVE PathsInv'
    BY <1>2 DEF DeleteHome
  <1>3. ASSUME NEW h \in Homes, NEW i \in BOOLEAN, NEW r \in BOOLEAN, Start(h,
              i, r) PROVE PathsInv'
    BY <1>3 DEF Start
  <1>4. ASSUME Uninstall PROVE PathsInv'
    BY <1>4 DEF Uninstall, NoJob
  <1>5. ASSUME Fail PROVE PathsInv'
    BY <1>5 DEF Fail, Ends, NoJob
  <1>6. ASSUME UNCHANGED installerVars PROVE PathsInv'
    BY <1>6 DEF installerVars
  <1> QED
    BY <1>1, <1>2, <1>3, <1>4, <1>5, <1>6 DEF InstallerNext

\* What the invariant says of the run that ends now, and of SteamVR's list.
LEMMA Good ==
  InstallerInv =>
          /\ OneDriver
          /\ Done =>
               /\ Others \subseteq external_drivers
               /\ job.kind = "install" => driver[job.home] = app[job.home]
               /\ job.register => external_drivers \cap Homes = {job.home}
               /\ job.kind = "uninstall" => external_drivers = Others
               /\ job.register \/ job.kind = "uninstall" =>
                     \A p \in DOMAIN user_paths : user_paths[p] = job.home
  <1> SUFFICES ASSUME InstallerInv
               PROVE  /\ OneDriver
                      /\ Done =>
                           /\ Others \subseteq external_drivers
                           /\ job.kind = "install" => driver[job.home] = app[job.home]
                           /\ job.register => external_drivers \cap Homes = {job.home}
                           /\ job.kind = "uninstall" => external_drivers = Others
                           /\ job.register \/ job.kind = "uninstall" =>
                                 \A p \in DOMAIN user_paths : user_paths[p] = job.home
    OBVIOUS
  <1>1. OneDriver
    BY DEF InstallerInv, CopiesInv, Registered, OneDriver, Named
  <1>2. ASSUME Done
        PROVE  /\ Others \subseteq external_drivers
               /\ job.kind = "install" => driver[job.home] = app[job.home]
               /\ job.register => external_drivers \cap Homes = {job.home}
               /\ job.kind = "uninstall" => external_drivers = Others
    BY <1>2 DEF InstallerInv, TypeInv, BuiltInv, CopiesInv, Registered, Done
  <1>3. ASSUME Done, job.register \/ job.kind = "uninstall"
        PROVE  \A p \in DOMAIN user_paths : user_paths[p] = job.home
    BY <1>3 DEF InstallerInv, TypeInv, PathsInv, Done
  <1> QED
    BY <1>1, <1>2, <1>3

\* The invariant that RunMakesGood follows from: a run removes the homes from
\* SteamVR's list before it adds its own, and what a run that was cut off left
\* behind is of no consequence to the next.
THEOREM InstallerInvariance == InstallerSpec => []InstallerInv
  <1>1. InstallerInit => InstallerInv
    <2> SUFFICES ASSUME InstallerInit PROVE InstallerInv
      OBVIOUS
    <2>1. << >> \in Seq(Paths)
      OBVIOUS
    <2>2. TypeInv
      BY <2>1 DEF InstallerInit, TypeInv, NoJob, States, Registering, Paths
    <2>3. JobInv /\ BuiltInv /\ CopiesInv /\ PathsInv
      BY InstallerAssumption DEF InstallerInit, JobInv, BuiltInv, CopiesInv, PathsInv, Registered,
         NoJob, Registering
    <2> QED
      BY <2>2, <2>3 DEF InstallerInv
  <1>2. InstallerInv /\ [InstallerNext]_installerVars => InstallerInv'
    BY TypeStep, RunStep, PathsStep DEF InstallerInv
  <1> QED
    BY <1>1, <1>2, PTL DEF InstallerSpec

\* SteamVR never finds two copies of the driver, for any homes and whatever runs
\* were cut off, and a run of install.py that gets to its end makes good for
\* all that were.
THEOREM MakesGood == InstallerSpec => RunMakesGood
  <1>1. InstallerInv /\ InstallerInv' /\ [InstallerNext]_installerVars =>
          [/\ OneDriver'
           /\ Done =>
                /\ Others \subseteq external_drivers
                /\ job.kind = "install" => driver[job.home] = app[job.home]
                /\ job.register => external_drivers \cap Homes = {job.home}
                /\ job.kind = "uninstall" => external_drivers = Others
                /\ job.register \/ job.kind = "uninstall" =>
                      \A p \in DOMAIN user_paths : user_paths[p] = job.home]_installerVars
    <2>1. InstallerInv' => OneDriver'
      BY DEF InstallerInv, CopiesInv, Registered, OneDriver, Named
    <2> QED
      BY <2>1, Good
  <1> QED
    BY InstallerInvariance, <1>1, PTL DEF InstallerSpec, RunMakesGood

=============================================================================
