--------------------------- MODULE MCWalkInPlace ---------------------------
(***************************************************************************)
(* Bounds for WalkInPlace.                                                 *)
(***************************************************************************)
EXTENDS WalkInPlace

setting(open, joystick, treadmill, hand) ==
    [kind |-> "wip_setting", open |-> open, joystick |-> joystick,
     treadmill |-> treadmill, hand |-> hand]

info(x, status) == [kind |-> "wip_info", x |-> x, status |-> status]

Off == setting(FALSE, FALSE, FALSE, "left")

\* On by a stick with "Stick Move", by the other one without, by the treadmill.
LeftStick  == setting(TRUE, TRUE, FALSE, "left")
RightStick == setting(TRUE, FALSE, FALSE, "right")
OnTreadmill == setting(TRUE, FALSE, TRUE, "left")

AllWays == {Off, LeftStick, RightStick, OnTreadmill}
OnOff   == {Off, OnTreadmill, setting(TRUE, FALSE, FALSE, "left")}

Walks  == {info(2, "WALKING"), info(0, "STOPPED")}
States == {info(3, "WALKING"), info(2, "STOP_WALKING")}
=============================================================================
