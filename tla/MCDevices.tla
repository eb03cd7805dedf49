----------------------------- MODULE MCDevices -----------------------------
(***************************************************************************)
(* Trackers and HandPoses in one run of TLC: a behaviour is one of either, *)
(* and the other stays as it began.                                        *)
(***************************************************************************)
EXTENDS Trackers, HandPoses

VARIABLE part

allHands == <<handVars, received>>

Init == /\ part \in {"trackers", "hands"}
        /\ TrackersInit /\ HandsInit
        /\ part = "trackers" => installed_

Next == \/ part = "trackers" /\ TrackersNext /\ UNCHANGED <<part, allHands>>
        \/ part = "hands" /\ HandsNext /\ UNCHANGED <<part, trackerVars>>

Spec == /\ Init /\ [][Next]_<<part, trackerVars, allHands>>
        /\ \/ part = "trackers" /\ TrackersFairness
           \/ part = "hands" /\ HandsFairness

MCHandMsgs == {[hand |-> "left", pos |-> "p", rot |-> "r"],
               [hand |-> "left", pos |-> "p", rot |-> Own]}

\* The tracker's variables and those of the hand poses keep to their types.
DevicesTypeOK == TrackersTypeOK /\ HandsTypeOK

=============================================================================
