------------------------------ MODULE MCFrame ------------------------------
(***************************************************************************)
(* Provider in two scenes, for the properties of liveness: the headset     *)
(* comes and goes, with its universe id, while messages arrive; or it      *)
(* changes from one universe to another, of which one is always known and  *)
(* the other comes and goes in the chaperone data.  Each has two           *)
(* connections.  (frame_safety has changes of the headset and of the       *)
(* universe together.)                                                     *)
(***************************************************************************)
EXTENDS Provider

CONSTANTS u1, u2, near, far

VARIABLE scene

Headset   == [uids |-> {u1, NoId}, knowns |-> {{u1}}, hmds |-> Statuses, queue |-> 1]
Universes == [uids |-> {u1, u2}, knowns |-> {{u1}, {u1, u2}}, hmds |-> {"OK"}, queue |-> 0]

Within == /\ uid \in scene.uids /\ known \in scene.knowns /\ hmd \in scene.hmds
          /\ Len(queue) <= scene.queue

SceneInit == /\ scene \in {Headset, Universes}
             /\ Init /\ Within
             /\ space = [i \in Ids |-> IF i = u1 THEN near ELSE far]

SceneNext == Next /\ UNCHANGED scene /\ Within'

SceneSpec == SceneInit /\ [][SceneNext]_<<vars, scene>> /\ Fairness
=============================================================================
