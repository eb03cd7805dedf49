------------------------------- MODULE MCWalk -------------------------------
(***************************************************************************)
(* WalkInPlace in two scenes: one hand's stick and the treadmill, on one   *)
(* connection; or the sticks of both hands, on two, where the second       *)
(* begins with no wip_info left over from the first.                       *)
(***************************************************************************)
EXTENDS MCWalkInPlace

VARIABLE scene

Outputs == [ways |-> {Off, LeftStick, OnTreadmill}, hands |-> {"left"}, gens |-> 1]
Sticks  == [ways |-> {Off, LeftStick, RightStick}, hands |-> {"left", "right"}, gens |-> 2]

Within == /\ \A n \in 1 .. Len(queue) : queue[n].msg \in scene.ways \cup Infos
          /\ wip_hand_ \in scene.hands /\ captured \subseteq scene.hands
          /\ gen <= scene.gens /\ NothingLeftOver

SceneInit == scene \in {Outputs, Sticks} /\ Init /\ Within

SceneNext == Next /\ UNCHANGED scene /\ Within'

SceneSpec == SceneInit /\ [][SceneNext]_<<vars, scene>> /\ Fairness
=============================================================================
