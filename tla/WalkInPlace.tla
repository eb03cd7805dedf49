---------------------------- MODULE WalkInPlace ----------------------------
(***************************************************************************)
(* Walk-in-place in the Provider (driver/src/driver.cpp): OnWipSetting,    *)
(* OnWipInfo, UpdateWalkInPlace and the Treadmill controller.              *)
(*                                                                         *)
(* Messages come through Link, whose queue fills while the frame thread is *)
(* elsewhere and is drained only by a frame that finds a connection.  The  *)
(* connection can be lost or remade between any two steps of a frame.      *)
(*                                                                         *)
(* The hand controllers' sticks are seen through what Drive() leaves       *)
(* behind (InputHooks): at most one stick driven at some speed, and only   *)
(* one that is captured.  Its direction is not modelled.  Time is counted  *)
(* in ticks; at least one output is computed in each.                      *)
(***************************************************************************)
EXTENDS Integers, Sequences

CONSTANTS
    Settings,     \* wip_setting messages: open_wip, joystick_control,
                  \* output_as_treadmill, use_left_hand (as hand)
    Infos,        \* wip_info messages: x, wip_status (as status)
    Full, Slow,   \* the speeds 1 and 0.03
    Hands,
    None,
    HooksInstalled,
    Stale,        \* ticks in a second
    MaxGen,       \* bound: connections
    MaxQueue      \* bound: messages waiting

Speeds == 0 .. Full

\* The controllers the treadmill can be.
Controllers ==
    [state : {"added", "active", "gone"}, connected : BOOLEAN, last_y_ : Speeds]

ASSUME WalkAssumption ==
    /\ \A s \in Settings : /\ s.kind = "wip_setting"
                           /\ {s.open, s.joystick, s.treadmill} \subseteq BOOLEAN
                           /\ s.hand \in Hands
    /\ \A i \in Infos : /\ i.kind = "wip_info" /\ i.x \in Int
                        /\ i.status \in {"START_WALKING", "WALKING",
                                         "STOP_WALKING", "STOPPED", "EXIST"}
    /\ None \notin Hands \cup Controllers
    /\ HooksInstalled \in BOOLEAN
    /\ {Full, Slow, Stale, MaxGen, MaxQueue} \subseteq Nat /\ Slow < Full

InMsgs == Settings \cup Infos
Kinds  == {}     \* what the driver sends is Provider's
Values == {}

VARIABLES
    phase, gen, out, torn, queue,        \* client_, as Link describes it
    fpc, inbox_,                         \* RunFrame
    wip_open_, wip_as_treadmill_, wip_joystick_control_, wip_hand_,
    wip_walking_, wip_speed_,
    info_age,                            \* now - last_wip_info_
    treadmill_,                          \* None, or the controller
    captured, drive,                     \* InputHooks: complete sticks, what
                                         \* is driven: None or <<hand, speed>>
    updated,                             \* an output was computed in this tick
    arrived                              \* history: age of the last wip_info

linkVars == <<phase, gen, out, torn, queue>>
settings == <<wip_open_, wip_as_treadmill_, wip_joystick_control_, wip_hand_>>
walking  == <<wip_walking_, wip_speed_, info_age>>
outputs  == <<treadmill_, captured, drive>>
vars == <<linkVars, fpc, inbox_, settings, walking, outputs, updated, arrived>>

L == INSTANCE Link

Init ==
    /\ L!LinkInit
    /\ fpc = "idle" /\ inbox_ = << >>
    /\ wip_open_ = FALSE /\ wip_as_treadmill_ = FALSE
    /\ wip_joystick_control_ = FALSE
    /\ wip_hand_ \in Hands
    /\ wip_walking_ = FALSE /\ wip_speed_ = 0 /\ info_age = Stale + 2
    /\ treadmill_ = None
    /\ captured = {} /\ drive = None
    /\ updated = FALSE
    /\ arrived = Stale + 2

WipUsesTreadmill(as_treadmill) == as_treadmill \/ ~HooksInstalled

\* Drive(hand, speed) as InputHooks has it.
Drive(h, speed, complete) ==
    IF speed = 0 \/ h \notin complete THEN None ELSE <<h, speed>>

-----------------------------------------------------------------------------
(* Treadmill.  state is that of its device: "added", "active" or "gone". *)

Activated(t) == t # None /\ t.state = "active"

\* SetStick(0, y)
SetStick(t, y) == IF Activated(t) THEN [t EXCEPT !.last_y_ = y] ELSE t

SetConnected(t, connected) ==
    LET u == [t EXCEPT !.connected = connected]
    IN  IF connected THEN u ELSE SetStick(u, 0)

NewTreadmill == [state |-> "added", connected |-> FALSE, last_y_ |-> 0]

TreadmillUnchanged ==
    UNCHANGED <<linkVars, fpc, inbox_, settings, walking, captured, drive,
                updated, arrived>>

\* SteamVR may call Activate long after TrackedDeviceAdded.
Activate ==
    /\ fpc = "idle"
    /\ treadmill_ # None /\ treadmill_.state = "added"
    /\ treadmill_' = [treadmill_ EXCEPT !.state = "active"]
    /\ TreadmillUnchanged

Deactivate ==
    /\ fpc = "idle"
    /\ Activated(treadmill_)
    /\ treadmill_' = [treadmill_ EXCEPT !.state = "gone"]
    /\ TreadmillUnchanged

-----------------------------------------------------------------------------
(* RunFrame *)

FrameUnchanged == UNCHANGED <<settings, walking, outputs, updated, arrived>>

\* Mutant: nothing is done without a connection.
UnconnectedReturns == "idle"

Unconnected == "update"

\* if (!client_.connected()) only UpdateWalkInPlace() is called.
BeginFrame ==
    /\ fpc = "idle"
    /\ fpc' = IF phase = "up" THEN "drain" ELSE Unconnected
    /\ UNCHANGED <<linkVars, inbox_>>
    /\ FrameUnchanged

DrainInbox ==
    /\ fpc = "drain"
    /\ fpc' = "inbox"
    /\ inbox_' = [n \in 1 .. Len(queue) |-> queue[n].msg]
    /\ L!Drain
    /\ FrameUnchanged

Handle(m) ==
    /\ fpc = "inbox"
    /\ inbox_ # << >> /\ m = Head(inbox_)
    /\ inbox_' = Tail(inbox_)
    /\ UNCHANGED <<linkVars, fpc, updated, arrived>>

\* Mutant: a repeated setting changes nothing.
SameSettingIgnored(m) ==
    /\ Handle(m)
    /\ m \in Settings
    /\ m.open = wip_open_ /\ m.treadmill = wip_as_treadmill_
    /\ UNCHANGED <<settings, walking, outputs>>

\* OnWipSetting: a repeated setting changes the hand and the stick control only.
SameSetting(m) ==
    /\ Handle(m)
    /\ m \in Settings
    /\ m.open = wip_open_ /\ m.treadmill = wip_as_treadmill_
    /\ wip_joystick_control_' = m.joystick
    /\ wip_hand_' = m.hand
    /\ UNCHANGED <<wip_open_, wip_as_treadmill_, walking, outputs>>

\* The controller after a change; SteamVR may reject a new one.
Switched(on) ==
    IF treadmill_ # None
    THEN {SetConnected(treadmill_, on)}
    ELSE IF on THEN {None, SetConnected(NewTreadmill, TRUE)} ELSE {None}

\* Mutant: the stick is not released.
ReleasedNot == drive

\* Drive(-1, 0)
Released == None

NewSetting(m) ==
    /\ Handle(m)
    /\ m \in Settings
    /\ m.open # wip_open_ \/ m.treadmill # wip_as_treadmill_
    /\ wip_joystick_control_' = m.joystick /\ wip_hand_' = m.hand
    /\ wip_open_' = m.open /\ wip_as_treadmill_' = m.treadmill
    /\ wip_speed_' = 0 /\ wip_walking_' = FALSE
    /\ drive' = Released
    /\ treadmill_' \in Switched(m.open /\ WipUsesTreadmill(m.treadmill))
    /\ UNCHANGED <<info_age, captured>>

\* Mutant: a speed over 1 is let through.
ClampBelow(x) == IF x < 0 THEN 0 ELSE x

\* fmin(fmax(x, 0), 1)
Clamp(x) == IF x < 0 THEN 0 ELSE IF x > Full THEN Full ELSE x

Walking(status) == CASE status = "WALKING" -> TRUE
                     [] status \in {"STOP_WALKING", "STOPPED"} -> FALSE
                     [] OTHER -> wip_walking_

OnWipInfo(m) ==
    /\ Handle(m)
    /\ m \in Infos
    /\ info_age' = 0
    /\ wip_speed_' = IF m.status = "STOPPED" THEN 0 ELSE Clamp(m.x)
    /\ wip_walking_' = Walking(m.status)
    /\ UNCHANGED <<settings, outputs>>

InboxDone ==
    /\ fpc = "inbox" /\ inbox_ = << >>
    /\ fpc' = "update"
    /\ UNCHANGED <<linkVars, inbox_>>
    /\ FrameUnchanged

\* Mutant: the silence of the app goes unnoticed.
CurrentSpeedTrusts == wip_speed_

\* The speed, zero once the last wip_info is more than a second old.
CurrentSpeed == IF info_age > Stale THEN 0 ELSE wip_speed_

\* UpdateWalkInPlace, when 10 ms have gone by since its last output.  newly is
\* what ResolvePending() completes on the way.
UpdateWalkInPlace(newly) ==
    LET output == /\ wip_open_ /\ phase = "up"
                  /\ ~wip_joystick_control_ \/ wip_walking_
        speed  == IF output /\ CurrentSpeed > Slow THEN CurrentSpeed ELSE 0
    IN
    /\ fpc = "update"
    /\ fpc' = "idle"
    /\ newly # {} => HooksInstalled
    /\ captured' = captured \cup newly
    /\ wip_speed_' = CurrentSpeed
    /\ \/ /\ WipUsesTreadmill(wip_as_treadmill_)
          /\ treadmill_' = SetStick(treadmill_, speed)
          /\ UNCHANGED drive
       \/ /\ ~WipUsesTreadmill(wip_as_treadmill_)
          /\ drive' = Drive(wip_hand_, speed, captured')
          /\ UNCHANGED treadmill_
    /\ updated' = TRUE
    /\ UNCHANGED <<linkVars, inbox_, settings, wip_walking_, info_age, arrived>>

\* The early return within 10 ms of the last output.
UpdateTooSoon ==
    /\ fpc = "update" /\ updated
    /\ fpc' = "idle"
    /\ UNCHANGED <<linkVars, inbox_>>
    /\ FrameUnchanged

-----------------------------------------------------------------------------
(* The app, the network thread and time *)

EnvUnchanged ==
    UNCHANGED <<fpc, inbox_, settings, wip_walking_, wip_speed_, outputs>>

Receive(m) ==
    /\ Len(queue) < MaxQueue
    /\ L!Receive(m)
    /\ arrived' = IF m \in Infos THEN 0 ELSE arrived
    /\ UNCHANGED <<info_age, updated>>
    /\ EnvUnchanged

Reconnect ==
    /\ \/ gen < MaxGen /\ L!Announce
       \/ L!Publish
       \/ L!Hangup
    /\ UNCHANGED <<arrived, info_age, updated>>
    /\ EnvUnchanged

Older(age) == IF age < Stale + 2 THEN age + 1 ELSE age

\* A frame is short, and takes the time once, when it begins.
Tick ==
    /\ fpc = "idle"
    /\ updated
    /\ updated' = FALSE
    /\ info_age' = Older(info_age)
    /\ arrived' = Older(arrived)
    /\ UNCHANGED linkVars
    /\ EnvUnchanged

-----------------------------------------------------------------------------

Frame ==
    \/ BeginFrame \/ DrainInbox \/ InboxDone
    \/ \E m \in InMsgs : SameSetting(m) \/ NewSetting(m) \/ OnWipInfo(m)
    \/ \E newly \in SUBSET (Hands \ captured) : UpdateWalkInPlace(newly)
    \/ UpdateTooSoon

Next ==
    \/ Frame
    \/ Activate \/ Deactivate
    \/ \E m \in InMsgs : Receive(m)
    \/ Reconnect
    \/ Tick

Spec == Init /\ [][Next]_vars

Output == \E newly \in SUBSET (Hands \ captured) : UpdateWalkInPlace(newly)

\* SteamVR keeps calling RunFrame and time passes: again and again 10 ms have
\* gone by when a frame comes to its output, and a tick has.
Fairness == WF_vars(Frame) /\ SF_vars(Output) /\ SF_vars(Tick)

FairSpec == Spec /\ Fairness

-----------------------------------------------------------------------------
(* Properties *)

FlagsTypeOK ==
    /\ wip_open_ \in BOOLEAN /\ wip_as_treadmill_ \in BOOLEAN
    /\ wip_joystick_control_ \in BOOLEAN /\ wip_walking_ \in BOOLEAN
    /\ updated \in BOOLEAN

StateTypeOK ==
    /\ fpc \in {"idle", "drain", "inbox", "update"} /\ inbox_ \in Seq(InMsgs)
    /\ wip_hand_ \in Hands /\ wip_speed_ \in Speeds
    /\ info_age \in 0 .. Stale + 2 /\ arrived \in 0 .. Stale + 2
    /\ treadmill_ \in Controllers \cup {None}
    /\ captured \subseteq Hands
    /\ drive \in (Hands \X (Speeds \ {0})) \cup {None}

\* Every variable keeps its type, and speeds stay those the app sent.
TypeOK == L!LinkTypeOK /\ FlagsTypeOK /\ StateTypeOK

TreadmillSpeed == IF Activated(treadmill_) THEN treadmill_.last_y_ ELSE 0
StickSpeed     == IF drive = None THEN 0 ELSE drive[2]

\* The player is never moved by a stick and the treadmill together, nor by the
\* one the setting has switched away from, and not at all once walk-in-place
\* is off: whatever the order of settings, activation and frames.
OneOutput ==
    /\ StickSpeed # 0 => wip_open_ /\ ~WipUsesTreadmill(wip_as_treadmill_)
    /\ TreadmillSpeed # 0 => /\ wip_open_ /\ WipUsesTreadmill(wip_as_treadmill_)
                             /\ treadmill_.connected

AnInfoWaits == \E n \in 1 .. Len(queue) : queue[n].msg \in Infos

\* Hypothesis of StopsWithoutInfo: no wip_info of an earlier connection is left in
\* the queue when a new one begins.
NothingLeftOver == phase = "announced" => ~AnInfoWaits

\* "If wip_info doesn't arrive for about 1 s, the speed is set to zero."
\* (protocol.md:125).  A message that arrives after this tick's frame is read
\* a tick later, hence the + 1.
StopsWithoutInfo ==
    updated /\ arrived > Stale + 1 => StickSpeed = 0 /\ TreadmillSpeed = 0

\* Without a connection, and after an app that fell silent, walking ends.
WalkingEnds ==
    /\ phase = "down" ~> (StickSpeed = 0 /\ TreadmillSpeed = 0) \/ phase # "down"
    /\ arrived > Stale ~> (StickSpeed = 0 /\ TreadmillSpeed = 0) \/ arrived <= Stale

\* The speed a setting and a walking state ask for, where that does not depend
\* on what was said before.
Asks(s, i, speed) ==
    \/ /\ ~s.open \/ i.status = "STOPPED" \/ (s.joystick /\ i.status = "STOP_WALKING")
       /\ speed = 0
    \/ /\ s.open /\ i.status # "STOPPED" /\ (~s.joystick \/ i.status = "WALKING")
       /\ speed = IF Clamp(i.x) > Slow THEN Clamp(i.x) ELSE 0

\* SteamVR has the output the setting selects.
Ready(s) == IF WipUsesTreadmill(s.treadmill)
            THEN Activated(treadmill_)
            ELSE s.hand \in captured

Shows(s, speed) ==
    IF WipUsesTreadmill(s.treadmill)
    THEN TreadmillSpeed = speed /\ StickSpeed = 0
    ELSE drive = Drive(s.hand, speed, captured) /\ TreadmillSpeed = 0

\* From some time on s and i arrive again and again, and nothing else, and i at
\* least once a second.
Repeats(s, i) ==
    /\ <>[](phase = "up" /\ info_age <= Stale)
    /\ []<><<Receive(s)>>_vars /\ []<><<Receive(i)>>_vars
    /\ <>[][\A m \in InMsgs \ {s, i} : ~Receive(m)]_vars

\* Once the app keeps saying the same, the speed it asks for is given on the
\* output it selected, the hand included, whatever it said before and whichever
\* connection was lost.
OutputFollowsApp ==
    \A s \in Settings, i \in Infos, speed \in Speeds :
        Asks(s, i, speed) =>
            (Repeats(s, i) /\ <>[]Ready(s) => <>[]Shows(s, speed))

=============================================================================
