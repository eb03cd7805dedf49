----------------------------- MODULE InputHooks -----------------------------
(***************************************************************************)
(* Walk-in-place injection into a hand controller's thumbstick             *)
(* (driver/src/input_hooks.hpp).                                           *)
(*                                                                         *)
(* The hooks run on the threads of other drivers, one call at a time for   *)
(* each device: HookCreate* remembers stick components, HookUpdate* notes  *)
(* the real value and forwards the update unless the stick is being        *)
(* driven.  ResolvePending() and Drive() run on this driver's frame        *)
(* thread.  They share atomics and no lock, so each load and store that    *)
(* the other side can see is a step.                                       *)
(*                                                                         *)
(* A component is <<device, axis>>.  shown is what SteamVR, the external   *)
(* system behind the original functions, holds for each component: the     *)
(* last value it was given, either real or driven.                         *)
(***************************************************************************)
EXTENDS Naturals, Sequences

CONSTANTS
    Devices,      \* controllers of other drivers
    Axes,         \* components a controller has, of "x", "y" and "touch"
    Hands,        \* the two sticks: "left" and "right"
    NoHand,       \* -1
    NoComp,       \* handle 0
    RealValues,   \* values drivers report
    Rest,         \* the value a component starts with
    Speeds,       \* speeds above 0, each with its direction (dir_x, dir_y)
    MaxPending    \* longest pending list (64)

ASSUME HooksAssumption ==
    /\ {"x", "y"} \subseteq Axes /\ Axes \subseteq {"x", "y", "touch"}
    /\ NoHand \notin Hands /\ Hands \cap {"unset", "other"} = {}
    /\ NoComp \notin Devices \X Axes
    /\ 0 \notin Speeds
    /\ MaxPending \in Nat \ {0}

Comps == Devices \X Axes

VARIABLES
    sticks,       \* the handles of each hand's stick
    real,         \* real_x, real_y, real_touch of each stick
    overriding,
    written,      \* written_x, written_y: speed and real deflection they came from
    pending,
    installed,
    fpc, stick, next, axis, value, aim, todo, keep,   \* the frame thread
    hook,         \* each device's thread inside a hook
    role,         \* the role hint of each device
    created,      \* components created so far
    shown, last   \* what SteamVR holds; history: what was last reported

frameVars == <<fpc, stick, next, axis, value, aim, todo, keep>>
vars == <<sticks, real, overriding, written, pending, installed, frameVars,
          hook, role, created, shown, last>>

NoAim    == <<0, Rest, Rest>>
IdleHook == [pc |-> "idle", comp |-> NoComp, v |-> Rest, stick |-> NoHand]

Init ==
    /\ sticks = [h \in Hands |-> [a \in Axes |-> NoComp]]
    /\ real = [h \in Hands |-> [a \in Axes |-> Rest]]
    /\ overriding = NoHand
    /\ written = NoAim
    /\ pending = << >>
    /\ installed = TRUE
    /\ fpc = "idle" /\ stick = NoHand /\ next = <<NoHand, 0>> /\ axis = "x"
    /\ value = Rest /\ aim = NoAim /\ todo = << >> /\ keep = << >>
    /\ hook = [d \in Devices |-> IdleHook]
    /\ role = [d \in Devices |-> "unset"]
    /\ created = {}
    /\ shown = [c \in Comps |-> <<"real", Rest>>]
    /\ last = [c \in Comps |-> Rest]

Complete(h) == sticks[h]["x"] # NoComp /\ sticks[h]["y"] # NoComp

-----------------------------------------------------------------------------
(* The hooks, on the threads of other drivers *)

HookUnchanged ==
    UNCHANGED <<sticks, overriding, written, installed, frameVars, role>>

\* HookCreateBoolean, HookCreateScalar and Remember().  Only stick components
\* are modelled; a long list loses its oldest entry.
HookCreate(c) ==
    /\ installed
    /\ c \notin created
    /\ hook[c[1]].pc = "idle"
    /\ created' = created \cup {c}
    /\ pending' = Append(IF Len(pending) >= MaxPending THEN Tail(pending)
                                                       ELSE pending, c)
    /\ UNCHANGED <<real, hook, shown, last>>
    /\ HookUnchanged

\* A device's driver reports a value: the call of HookUpdateScalar or
\* HookUpdateBoolean, or of the original once the hooks are gone.
Report(c, v) ==
    /\ c \in created
    /\ hook[c[1]].pc = "idle"
    /\ last' = [last EXCEPT ![c] = v]
    /\ IF installed
       THEN /\ hook' = [hook EXCEPT ![c[1]] =
                          [pc |-> "match", comp |-> c, v |-> v, stick |-> NoHand]]
            /\ UNCHANGED shown
       ELSE /\ shown' = [shown EXCEPT ![c] = <<"real", v>>]
            /\ UNCHANGED hook
    /\ UNCHANGED <<real, pending, created>>
    /\ HookUnchanged

\* Mutant: a value that has not changed is not forwarded.
NotedSkipsSame(d, h) == IF real[h][hook[d].comp[2]] = hook[d].v THEN IdleHook
                        ELSE [hook[d] EXCEPT !.pc = "check", !.stick = h]

Noted(d, h) == [hook[d] EXCEPT !.pc = "check", !.stick = h]

\* The search for the stick the component belongs to, and real_*.store(v).
HookMatch(d) ==
    /\ hook[d].pc = "match"
    /\ LET c == hook[d].comp IN
       \/ \E h \in Hands :
             /\ sticks[h][c[2]] = c
             /\ real' = [real EXCEPT ![h][c[2]] = hook[d].v]
             /\ hook' = [hook EXCEPT ![d] = Noted(d, h)]
       \/ /\ \A h \in Hands : sticks[h][c[2]] # c
          /\ hook' = [hook EXCEPT ![d].pc = "forward"]
          /\ UNCHANGED real
    /\ UNCHANGED <<pending, created, shown, last>>
    /\ HookUnchanged

\* overriding.load(): the update is withheld from a stick being driven.
HookCheck(d) ==
    /\ hook[d].pc = "check"
    /\ hook' = [hook EXCEPT ![d] =
                  IF overriding = hook[d].stick
                  THEN IdleHook
                  ELSE [hook[d] EXCEPT !.pc = "forward"]]
    /\ UNCHANGED <<real, pending, created, shown, last>>
    /\ HookUnchanged

HookForward(d) ==
    /\ hook[d].pc = "forward"
    /\ shown' = [shown EXCEPT ![hook[d].comp] = <<"real", hook[d].v>>]
    /\ hook' = [hook EXCEPT ![d] = IdleHook]
    /\ UNCHANGED <<real, pending, created, last>>
    /\ HookUnchanged

\* SteamVR learns the role of a device; "other" stands for any role that is no
\* hand.
SetRole(d, r) ==
    /\ role[d] = "unset"
    /\ role' = [role EXCEPT ![d] = r]
    /\ UNCHANGED <<sticks, real, overriding, written, pending, installed,
                   frameVars, hook, created, shown, last>>

-----------------------------------------------------------------------------
(* ResolvePending() *)

ResolveUnchanged ==
    UNCHANGED <<real, overriding, written, installed, stick, next, axis, value,
                aim, hook, role, created, shown, last>>

\* todo.swap(g.pending)
ResolveTake ==
    /\ fpc = "idle"
    /\ installed
    /\ pending # << >>
    /\ fpc' = "resolve"
    /\ todo' = pending
    /\ pending' = << >>
    /\ UNCHANGED <<sticks, keep>>
    /\ ResolveUnchanged

\* Mutant: every role but the left hand's is taken for the right hand's.
RoleAnyRight(d) == IF role[d] = "other" THEN "right" ELSE role[d]

Role(d) == role[d]

\* Mutant: the handle is stored as y whichever axis it is.
AxisOfAny(c) == "y"

AxisOf(c) == c[2]

\* One entry: kept while its device has no role, dropped if that is no hand's,
\* else assigned.
ResolveOne ==
    /\ fpc = "resolve"
    /\ todo # << >>
    /\ LET c == Head(todo) IN
       \/ /\ Role(c[1]) = "unset"
          /\ keep' = Append(keep, c)
          /\ UNCHANGED sticks
       \/ /\ Role(c[1]) = "other"
          /\ UNCHANGED <<keep, sticks>>
       \/ /\ Role(c[1]) \in Hands
          /\ sticks' = [sticks EXCEPT ![Role(c[1])][AxisOf(c)] = c]
          /\ UNCHANGED keep
    /\ todo' = Tail(todo)
    /\ UNCHANGED <<fpc, pending>>
    /\ ResolveUnchanged

ResolveKeep ==
    /\ fpc = "resolve"
    /\ todo = << >>
    /\ fpc' = "idle"
    /\ pending' = pending \o keep
    /\ keep' = << >>
    /\ UNCHANGED <<sticks, todo>>
    /\ ResolveUnchanged

-----------------------------------------------------------------------------
(* Drive() *)

DriveUnchanged ==
    UNCHANGED <<sticks, real, pending, installed, todo, keep, hook, role,
                created, last>>

\* Mutant: the stick of the other hand is not released when the hand changes.
FreeAlways(h) == TRUE

Free(h) == overriding \in {NoHand, h}

\* The call, up to its first effect.  A call that releases nothing has none.
\* next is what is left to do after a release: the stick and speed to drive.
DriveCall(h, s) ==
    /\ fpc = "idle"
    /\ installed
    /\ IF s = 0 \/ h = NoHand \/ (h # NoHand /\ ~Complete(h))
       THEN /\ overriding # NoHand
            /\ fpc' = "release" /\ stick' = overriding /\ next' = <<NoHand, 0>>
       ELSE /\ fpc' = IF Free(h) THEN "steer" ELSE "release"
            /\ stick' = IF Free(h) THEN h ELSE overriding
            /\ next' = <<h, s>>
    /\ UNCHANGED <<overriding, written, axis, value, aim, shown>>
    /\ DriveUnchanged

\* overriding.store(-1)
Release ==
    /\ fpc = "release"
    /\ overriding' = NoHand
    /\ fpc' = "load"
    /\ axis' = "x"
    /\ UNCHANGED <<stick, next, written, value, aim, shown>>
    /\ DriveUnchanged

LoadReal ==
    /\ fpc = "load"
    /\ value' = real[stick][axis]
    /\ fpc' = "restore"
    /\ UNCHANGED <<overriding, written, stick, next, axis, aim, shown>>
    /\ DriveUnchanged

\* x, then y, then touch where the stick has one.
HasTouch    == "touch" \in Axes /\ sticks[stick]["touch"] # NoComp
LastAxis(a) == a = IF HasTouch THEN "touch" ELSE "y"

AxisAfter(a) == IF a = "x" THEN "y" ELSE "touch"

Idle ==
    /\ fpc' = "idle" /\ stick' = NoHand /\ next' = <<NoHand, 0>> /\ axis' = "x"
    /\ value' = Rest /\ aim' = NoAim

Restore ==
    /\ fpc = "restore"
    /\ shown' = [shown EXCEPT ![sticks[stick][axis]] = <<"real", value>>]
    /\ \/ /\ ~LastAxis(axis)
          /\ fpc' = "load" /\ axis' = AxisAfter(axis)
          /\ UNCHANGED <<stick, next, value, aim>>
       \/ /\ LastAxis(axis) /\ next[1] # NoHand
          /\ fpc' = "steer" /\ stick' = next[1]
          /\ UNCHANGED <<next, axis, value, aim>>
       \/ /\ LastAxis(axis) /\ next[1] = NoHand
          /\ Idle
    /\ UNCHANGED <<overriding, written>>
    /\ DriveUnchanged

\* The loads of real_x and real_y.  A stick already driven the same way is left
\* alone.  The values written are named by what they are computed from: speed,
\* with its direction, and the real deflection (RealValues are told apart by
\* the direction they give, so that equal outputs have equal names).
Steer ==
    /\ fpc = "steer"
    /\ LET w == <<next[2], real[stick]["x"], real[stick]["y"]>> IN
       IF overriding = stick /\ w = written
       THEN Idle
       ELSE /\ aim' = w
            /\ fpc' = "engage"
            /\ UNCHANGED <<stick, next, axis, value>>
    /\ UNCHANGED <<overriding, written, shown>>
    /\ DriveUnchanged

\* overriding.store(hand)
Engage ==
    /\ fpc = "engage"
    /\ overriding' = stick
    /\ written' = aim
    /\ fpc' = "drive"
    /\ axis' = "x"
    /\ UNCHANGED <<stick, next, value, aim, shown>>
    /\ DriveUnchanged

Inject ==
    /\ fpc = "drive"
    /\ shown' = [shown EXCEPT ![sticks[stick][axis]] = <<"driven", aim>>]
    /\ IF LastAxis(axis)
       THEN Idle
       ELSE /\ axis' = AxisAfter(axis)
            /\ UNCHANGED <<fpc, stick, next, value, aim>>
    /\ UNCHANGED <<overriding, written>>
    /\ DriveUnchanged

\* Remove(), from Cleanup().
Remove ==
    /\ fpc = "idle"
    /\ installed
    /\ overriding' = NoHand
    /\ installed' = FALSE
    /\ UNCHANGED <<sticks, real, written, pending, frameVars, hook, role,
                   created, shown, last>>

-----------------------------------------------------------------------------

DriveStep ==
    \/ Release \/ LoadReal \/ Restore \/ Steer \/ Engage \/ Inject

FrameThread ==
    \/ ResolveTake \/ ResolveOne \/ ResolveKeep
    \/ \E h \in Hands \cup {NoHand}, s \in Speeds \cup {0} : DriveCall(h, s)
    \/ DriveStep
    \/ Remove

HookStep(d) == HookMatch(d) \/ HookCheck(d) \/ HookForward(d)

OtherDrivers ==
    \/ \E c \in Comps : HookCreate(c) \/ \E v \in RealValues : Report(c, v)
    \/ \E d \in Devices : HookStep(d)
    \/ \E d \in Devices, r \in Hands \cup {"other"} : SetRole(d, r)

Next == FrameThread \/ OtherDrivers

Spec == Init /\ [][Next]_vars

\* Calls that have begun end.
Running ==
    /\ WF_vars(DriveStep \/ ResolveOne \/ ResolveKeep)
    /\ \A d \in Devices : WF_vars(HookStep(d))

FairSpec == Spec /\ Running

\* Drivers that report a component again and again once they have, moved or not.
Repeating ==
    \A c \in Comps : SF_vars(last[c] \in RealValues /\ Report(c, last[c]))

RepeatingSpec == FairSpec /\ Repeating

-----------------------------------------------------------------------------
(* Properties *)

Held  == RealValues \cup {Rest}
Aims  == (Speeds \cup {0}) \X Held \X Held
Shown == ({"real"} \X Held) \cup ({"driven"} \X Aims)

\* Every variable keeps its type; a handle is captured for its own axis.
TypeOK ==
    /\ \A h \in Hands, a \in Axes :
          sticks[h][a] \in {<<d, a>> : d \in Devices} \cup {NoComp}
    /\ real \in [Hands -> [Axes -> Held]]
    /\ overriding \in Hands \cup {NoHand}
    /\ written \in Aims /\ aim \in Aims
    /\ pending \in Seq(Comps) /\ todo \in Seq(Comps) /\ keep \in Seq(Comps)
    /\ installed \in BOOLEAN
    /\ fpc \in {"idle", "resolve", "release", "load", "restore", "steer",
                "engage", "drive"}
    /\ stick \in Hands \cup {NoHand}
    /\ next \in (Hands \cup {NoHand}) \X (Speeds \cup {0})
    /\ axis \in {"x", "y", "touch"} /\ value \in Held
    /\ hook \in [Devices -> [pc : {"idle", "match", "check", "forward"},
                             comp : Comps \cup {NoComp}, v : Held,
                             stick : Hands \cup {NoHand}]]
    /\ role \in [Devices -> Hands \cup {"unset", "other"}]
    /\ created \subseteq Comps
    /\ shown \in [Comps -> Shown]
    /\ last \in [Comps -> Held]

\* Between calls of the frame thread only the stick named by overriding holds
\* walk-in-place output.  Whatever the hooks did meanwhile, a stick that was
\* released, because the user stopped or the hand changed, holds none: the
\* player does not keep walking.
OnlyDrivenStick ==
    fpc = "idle" /\ installed =>
        \A h \in Hands, a \in Axes :
            LET c == sticks[h][a] IN
            c # NoComp /\ shown[c][1] = "driven" => overriding = h

\* A component is captured for one hand only, and only after its device had
\* that hand's role, whatever the order of creation, roles and resolving, and
\* however long the list of pending components grew.
CapturedByRole ==
    \A h \in Hands, a \in Axes :
        LET c == sticks[h][a] IN c # NoComp => c \in created /\ role[c[1]] = h

\* Once a stick is released for good and its driver reports it again and again,
\* SteamVR holds what it reports.
RealReturns ==
    \A c \in Comps, v \in RealValues :
        <>[](overriding = NoHand /\ last[c] = v /\ c \in created)
            => <>[](shown[c] = <<"real", v>>)

=============================================================================
