----------------------------- MODULE HandPoses -----------------------------
(***************************************************************************)
(* Hand pose replacement (driver/src/pose_hooks.hpp, and OnHandPose,       *)
(* FindHandControllers and the switch in OnWipSetting in driver.cpp).      *)
(*                                                                         *)
(* HookPoseUpdated runs on the threads of the controllers' drivers, a call *)
(* at a time for each device; the rest is the frame thread's.  They share  *)
(* the atomics enabled and device_index and, under a mutex of each hand,   *)
(* the last hand pose.  What SteamVR was given for a device is either its  *)
(* own pose or a replaced one.  Time is only told as: 500 ms have passed.  *)
(***************************************************************************)
EXTENDS Naturals, Sequences

CONSTANTS
    Devices,      \* controllers, in the order of their indices: numbers
    HandMsgs,     \* hand poses of the app: hand, pos, rot
    LastSpace,    \* bound: play spaces
    NoDevice,     \* k_unTrackedDeviceIndexInvalid
    Own           \* the controller's own value, where none was received

\* In the order of hands[].
Hand == <<"left", "right">>
Sides == {"left", "right"}

ASSUME HandsAssumption ==
    /\ Devices \subseteq Nat /\ NoDevice \notin Devices
    /\ \A m \in HandMsgs : m.hand \in Sides
    /\ LastSpace \in Nat

VARIABLES
    vtable,        \* which function the vtable's slot holds
    installed_, enabled, device_index,
    hand_pose,     \* position, rotation, world of each hand; Own if not received
    fresh,         \* hands with a pose not older than 500 ms
    mutex,         \* of each hand: "free", or held by the "frame" or a "hook"
    at, arg,       \* the frame thread: where, and its argument
    u,             \* the play space of the frame, Own if not known
    call,          \* each device's thread inside the hook
    side,          \* the role of each device: a hand, or "other"
    given,         \* what SteamVR was given last for each device
    received       \* history: the pose made of the messages received so far

hookState == <<vtable, installed_, enabled, device_index>>
poseState == <<hand_pose, fresh, mutex, received>>
frameAt   == <<at, arg>>
handVars  == <<hookState, poseState, frameAt, u, call, side, given>>

NoPose   == [position |-> Own, rotation |-> Own, world |-> Own]
OwnPose  == <<"own", NoPose>>
IdleCall == [pc |-> "idle", n |-> 1]

\* Install(): PatchVtable() fails where mprotect() does.
HandsInit ==
    /\ installed_ \in BOOLEAN
    /\ vtable = IF installed_ THEN "hook" ELSE "original"
    /\ enabled = FALSE
    /\ device_index = [h \in Sides |-> NoDevice]
    /\ hand_pose = [h \in Sides |-> NoPose]
    /\ fresh = {}
    /\ mutex = [h \in Sides |-> "free"]
    /\ at = "idle" /\ arg = Own
    /\ u = Own
    /\ call = [d \in Devices |-> IdleCall]
    /\ side = [d \in Devices |-> "other"]
    /\ given = [d \in Devices |-> OwnPose]
    /\ received = hand_pose

-----------------------------------------------------------------------------
(* HookPoseUpdated, on the threads of other drivers *)

CallUnchanged ==
    UNCHANGED <<hookState, hand_pose, fresh, received, frameAt, u, side>>

Goes(d, pc) == call' = [call EXCEPT ![d].pc = pc]
Returns(d)  == call' = [call EXCEPT ![d] = IdleCall]

PoseUpdated(d) ==
    /\ call[d].pc = "idle"
    /\ IF vtable = "hook"
       THEN Goes(d, "enabled") /\ UNCHANGED given
       ELSE given' = [given EXCEPT ![d] = OwnPose] /\ UNCHANGED call
    /\ UNCHANGED mutex
    /\ CallUnchanged

HookEnabled(d) ==
    /\ call[d].pc = "enabled"
    /\ Goes(d, IF enabled THEN "match" ELSE "forward")
    /\ UNCHANGED <<mutex, given>>
    /\ CallUnchanged

\* The loop over g.hands.
HookIndex(d) ==
    /\ call[d].pc = "match"
    /\ IF device_index[Hand[call[d].n]] = d
       THEN Goes(d, "lock")
       ELSE IF call[d].n = Len(Hand)
            THEN Goes(d, "forward")
            ELSE call' = [call EXCEPT ![d].n = @ + 1]
    /\ UNCHANGED <<mutex, given>>
    /\ CallUnchanged

\* Mutant: the fields are read without the lock.
AcquireNothing(h) == UNCHANGED mutex

Acquire(h) == mutex[h] = "free" /\ mutex' = [mutex EXCEPT ![h] = "hook"]

\* Mutant: a pose of any age replaces the controller's.
RecentAlways(h) == TRUE

Recent(h) == h \in fresh

\* lock_guard and the age of the pose; an old one leaves the loop and the lock.
HookLock(d) ==
    LET h == Hand[call[d].n] IN
    /\ call[d].pc = "lock"
    /\ \/ Recent(h) /\ Acquire(h) /\ Goes(d, "replace")
       \/ /\ ~Recent(h) /\ mutex[h] = "free" /\ UNCHANGED mutex
          /\ Goes(d, "forward")
    /\ UNCHANGED given
    /\ CallUnchanged

\* The call of the original with the replaced pose, still under the lock.
HookReplace(d) ==
    LET h == Hand[call[d].n] IN
    /\ call[d].pc = "replace"
    /\ given' = [given EXCEPT ![d] = <<h, hand_pose[h]>>]
    /\ mutex' = [mutex EXCEPT ![h] = "free"]
    /\ Returns(d)
    /\ CallUnchanged

HookPass(d) ==
    /\ call[d].pc = "forward"
    /\ given' = [given EXCEPT ![d] = OwnPose]
    /\ Returns(d)
    /\ UNCHANGED mutex
    /\ CallUnchanged

-----------------------------------------------------------------------------
(* The frame thread *)

HandFrameUnchanged == UNCHANGED <<u, call, side, given>>

Or(v, old) == IF v = Own THEN old ELSE v

\* The pose after m: what m lacks stays as it was.
After(m, p) == [position |-> Or(m.pos, p.position),
                rotation |-> Or(m.rot, p.rotation),
                world    |-> Or(u, p.world)]

\* OnHandPose: the lock and the position, then the rest field by field.
OnHandPose(m) ==
    /\ at = "idle"
    /\ mutex[m.hand] = "free"
    /\ mutex' = [mutex EXCEPT ![m.hand] = "frame"]
    /\ hand_pose' = [hand_pose EXCEPT ![m.hand].position = Or(m.pos, @)]
    /\ at' = "rotation" /\ arg' = m
    /\ UNCHANGED <<hookState, fresh, received>>
    /\ HandFrameUnchanged

OnHandRotation ==
    /\ at = "rotation"
    /\ hand_pose' = [hand_pose EXCEPT ![arg.hand].rotation = Or(arg.rot, @)]
    /\ at' = "world"
    /\ UNCHANGED <<hookState, fresh, mutex, received, arg>>
    /\ HandFrameUnchanged

OnHandWorld ==
    /\ at = "world"
    /\ hand_pose' = [hand_pose EXCEPT ![arg.hand].world = Or(u, @)]
    /\ fresh' = fresh \cup {arg.hand}
    /\ mutex' = [mutex EXCEPT ![arg.hand] = "free"]
    /\ received' = [received EXCEPT ![arg.hand] = After(arg, @)]
    /\ at' = "idle" /\ arg' = Own
    /\ UNCHANGED hookState
    /\ HandFrameUnchanged

Holders(h) == {d \in Devices : side[d] = h}
First(S)   == CHOOSE d \in S : \A e \in S : d <= e

\* The first device that has the role of hand h.
Found(h) == IF Holders(h) # {} THEN First(Holders(h)) ELSE NoDevice

\* FindHandControllers, every second where the hook is installed: the search,
\* and a store for each hand.
FindHandControllers ==
    /\ at = "idle" /\ installed_
    /\ at' = "left" /\ arg' = [h \in Sides |-> Found(h)]
    /\ UNCHANGED <<hookState, poseState>>
    /\ HandFrameUnchanged

StoreFound ==
    /\ at \in Sides
    /\ device_index' = [device_index EXCEPT ![at] = arg[at]]
    /\ IF at = "left" THEN at' = "right" /\ UNCHANGED arg
                      ELSE at' = "idle" /\ arg' = Own
    /\ UNCHANGED <<vtable, installed_, enabled, poseState>>
    /\ HandFrameUnchanged

\* replace_hand_pose of a wip_setting.
SwitchReplacement(on) ==
    /\ at = "idle" /\ installed_
    /\ enabled' = on
    /\ UNCHANGED <<vtable, installed_, device_index, poseState, frameAt>>
    /\ HandFrameUnchanged

\* Remove(): enabled is cleared, then the slot restored, unless mprotect() fails.
\* RunFrame is not called any more.
RemoveHook ==
    /\ at = "idle" /\ installed_
    /\ enabled' = FALSE
    /\ at' = "unpatch"
    /\ UNCHANGED <<vtable, installed_, device_index, poseState, arg>>
    /\ HandFrameUnchanged

Unpatch ==
    /\ at = "unpatch"
    /\ vtable' \in {"original", vtable}
    /\ installed_' = FALSE
    /\ at' = "removed"
    /\ UNCHANGED <<enabled, device_index, poseState, arg>>
    /\ HandFrameUnchanged

-----------------------------------------------------------------------------
(* SteamVR and time *)

Outside == UNCHANGED <<hookState, hand_pose, mutex, received, frameAt, call, given>>

\* 500 ms have passed since the last pose of hand h.
Expires(h) ==
    /\ h \in fresh
    /\ fresh' = fresh \ {h}
    /\ UNCHANGED <<u, side>>
    /\ Outside

SetSide(d, s) ==
    /\ side[d] # s
    /\ side' = [side EXCEPT ![d] = s]
    /\ UNCHANGED <<u, fresh>>
    /\ Outside

\* Provider finds a play space, or another one.
NewSpace(s) ==
    /\ at = "idle"
    /\ u # Own => u < s
    /\ u' = s
    /\ UNCHANGED <<fresh, side>>
    /\ Outside

-----------------------------------------------------------------------------

HookCall(d) ==
    HookEnabled(d) \/ HookIndex(d) \/ HookLock(d) \/ HookReplace(d) \/ HookPass(d)

HandStep == OnHandRotation \/ OnHandWorld \/ StoreFound \/ Unpatch

HandsNext ==
    \/ \E d \in Devices : PoseUpdated(d) \/ HookCall(d)
    \/ \E m \in HandMsgs : OnHandPose(m)
    \/ HandStep
    \/ FindHandControllers \/ RemoveHook
    \/ \E on \in BOOLEAN : SwitchReplacement(on)
    \/ \E h \in Sides : Expires(h)
    \/ \E d \in Devices, s \in Sides \cup {"other"} : SetSide(d, s)
    \/ \E s \in 1 .. LastSpace : NewSpace(s)

\* Calls that have begun end, a mutex goes to a waiter that finds it free again
\* and again, controllers report their poses all the time, and the frame thread
\* looks for controllers again and again, until the driver is removed.
HandsFairness ==
    /\ WF_handVars(HandStep)
    /\ SF_handVars(FindHandControllers)
    /\ \A d \in Devices : /\ WF_handVars(HookCall(d))
                          /\ SF_handVars(HookLock(d))
                          /\ WF_handVars(PoseUpdated(d))

HandsSpec == HandsInit /\ [][HandsNext]_handVars

-----------------------------------------------------------------------------
(* Properties *)

Poses == [position : {m.pos : m \in HandMsgs} \cup {Own},
          rotation : {m.rot : m \in HandMsgs} \cup {Own},
          world : (1 .. LastSpace) \cup {Own}]

\* Every variable keeps its type.
HandsTypeOK ==
    /\ vtable \in {"hook", "original"}
    /\ {installed_, enabled} \subseteq BOOLEAN
    /\ device_index \in [Sides -> Devices \cup {NoDevice}]
    /\ hand_pose \in [Sides -> Poses] /\ received \in [Sides -> Poses]
    /\ fresh \subseteq Sides
    /\ mutex \in [Sides -> {"free", "frame", "hook"}]
    /\ at \in Sides \cup {"idle", "rotation", "world", "unpatch", "removed"}
    /\ u \in (1 .. LastSpace) \cup {Own}
    /\ call \in [Devices -> [pc : {"idle", "enabled", "match", "lock", "replace",
                                   "forward"}, n : 1 .. 2]]
    /\ side \in [Devices -> Sides \cup {"other"}]
    /\ \A d \in Devices : given[d] = OwnPose \/ given[d] \in Sides \X Poses

\* A replaced pose is never torn: it is the pose that the messages received so
\* far make, position, rotation and play space, and not one of which the frame
\* thread has written a part.
WholePoses ==
    [][\A d \in Devices, h \in Sides :
          given'[d] # given[d] /\ given'[d] # OwnPose /\ given'[d][1] = h
              => given'[d][2] = received[h]]_handVars

\* "While they arrive, they replace the position and rotation of the matching
\* real hand controller.  About 0.5 s after they stop, the controller's pose is
\* used again." (protocol.md)  The same when the app switches it off, when the
\* controller is no hand any more, and when the driver is removed.
ReplacedWhileDue ==
    \A d \in Devices :
        /\ \/ <>[]~enabled
           \/ <>[](fresh = {})
           \/ <>[](side[d] = "other")
           => <>[](given[d] = OwnPose)
        /\ \A h \in Sides :
              <>[](installed_ /\ enabled /\ h \in fresh /\ Found(h) = d)
                  => <>[](given[d] # OwnPose /\ given[d][1] = h)

=============================================================================
