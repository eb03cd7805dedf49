-------------------------- MODULE WalkInPlaceProofs --------------------------
(***************************************************************************)
(* Proofs about WalkInPlace: its types, that one output moves the player   *)
(* at most, that the player stops when the app falls silent, and that it   *)
(* uses the connection as Link allows.                                     *)
(***************************************************************************)
EXTENDS WalkInPlace, TLAPS

AnInfo(s) == \E n \in 1 .. Len(s) : s[n] \in Infos

\* A controller that SteamVR has not activated has no deflection, and the
\* setting that uses one has it connected.
TreadmillInv ==
    treadmill_ # None =>
        /\ treadmill_.state = "added" => treadmill_.last_y_ = 0
        /\ wip_open_ /\ WipUsesTreadmill(wip_as_treadmill_) => treadmill_.connected

\* An output computed in this tick went by the age of the last wip_info.
OutputInv ==
    updated /\ info_age > Stale => StickSpeed = 0 /\ TreadmillSpeed = 0

IInv == TypeOK /\ TreadmillInv /\ OneOutput /\ OutputInv

\* A wip_info is read in the tick it arrives in or in the next, before the output.
AgeInv ==
    /\ arrived <= info_age + 1
    /\ AnInfo(inbox_) => arrived <= 1
    /\ fpc = "inbox" \/ inbox_ = << >>
    /\ AnInfoWaits /\ (phase = "up" \/ fpc = "drain") =>
          \/ arrived = 0
          \/ arrived = 1 /\ ~updated /\ fpc \in {"idle", "drain"}

(***************************************************************************)
(* Lemmas about the operators.                                             *)
(***************************************************************************)

\* Speeds are clamped to what a stick can show.
LEMMA SpeedRange ==
  /\ 0 \in Speeds
  /\ \A x \in Int : Clamp(x) \in Speeds
  /\ wip_speed_ \in Speeds => CurrentSpeed \in Speeds
  BY WalkAssumption DEF Clamp, CurrentSpeed, Speeds

\* Settings, messages and infos are what they are said to be.
LEMMA MessageTypes ==
  /\ \A m \in Settings : /\ m.open \in BOOLEAN /\ m.joystick \in BOOLEAN
                         /\ m.treadmill \in BOOLEAN /\ m.hand \in Hands
  /\ \A m \in Infos : m.x \in Int
  /\ Stale \in Nat /\ None \notin Controllers
  BY WalkAssumption

\* SetStick moves the stick of an active controller and nothing else.
LEMMA StickSet ==
  ASSUME NEW t \in Controllers, NEW y \in Speeds
  PROVE  /\ SetStick(t, y) \in Controllers
         /\ SetStick(t, y).state = t.state /\ SetStick(t, y).connected = t.connected
         /\ SetStick(t, y).last_y_ = IF t.state = "active" THEN y ELSE t.last_y_
  <1>1. [t EXCEPT !.last_y_ = y] \in Controllers
    BY DEF Controllers
  <1> QED
    BY <1>1, MessageTypes DEF SetStick, Activated, Controllers

\* A controller that is disconnected is put to rest.
LEMMA ConnectedSet ==
  ASSUME NEW t \in Controllers, NEW on \in BOOLEAN
  PROVE  /\ SetConnected(t, on) \in Controllers
         /\ SetConnected(t, on).state = t.state /\ SetConnected(t, on).connected = on
         /\ \/ SetConnected(t, on).last_y_ = t.last_y_
            \/ SetConnected(t, on).last_y_ = 0
         /\ ~on /\ t.state = "active" => SetConnected(t, on).last_y_ = 0
  <1> DEFINE u == [t EXCEPT !.connected = on]
  <1>1. u \in Controllers /\ u.state = t.state /\ u.connected = on
        /\ u.last_y_ = t.last_y_
    BY DEF Controllers
  <1> HIDE DEF u
  <1>2. 0 \in Speeds
    BY SpeedRange
  <1>3. SetConnected(t, on) = IF on THEN u ELSE SetStick(u, 0)
    BY DEF SetConnected, u
  <1>4. CASE on
    BY <1>1, <1>3, <1>4
  <1>5. CASE ~on
    BY <1>1, <1>2, <1>3, <1>5, StickSet
  <1> QED
    BY <1>4, <1>5

(***************************************************************************)
(* Types, the one output, and its end.                                     *)
(***************************************************************************)

USE DEF L!linkVars, linkVars

\* No kind of message is sent.
LEMMA NothingType == L!Nothing \in [Kinds -> Values \cup {None}]
  BY DEF L!Nothing

\* The invariant holds at the start.
LEMMA IInvInit == Init => IInv
  <1> SUFFICES ASSUME Init PROVE IInv
    OBVIOUS
  <1>1. TypeOK
    <2>1. L!LinkTypeOK
      <3>1. /\ phase = "down" /\ gen = 0 /\ out = L!Nothing /\ torn = FALSE
            /\ queue = << >>
        BY DEF Init, L!LinkInit
      <3>2. torn \in BOOLEAN
        BY <3>1
      <3>3. queue \in Seq(L!Entries)
        BY <3>1
      <3> QED
        BY <3>1, <3>2, <3>3, NothingType DEF L!LinkTypeOK
    <2>2. FlagsTypeOK
      BY DEF Init, FlagsTypeOK
    <2>3. StateTypeOK
      BY SpeedRange, MessageTypes DEF Init, StateTypeOK
    <2> QED
      BY <2>1, <2>2, <2>3 DEF TypeOK
  <1>2. TreadmillInv /\ OneOutput /\ OutputInv
    BY DEF Init, TreadmillInv, OneOutput, OutputInv, StickSpeed, TreadmillSpeed,
           Activated
  <1> QED
    BY <1>1, <1>2 DEF IInv

\* What the outputs depend on.
outputVars == <<settings, treadmill_, drive, updated, info_age>>

\* A step that changes none of it.
LEMMA OutputSame ==
  ASSUME TreadmillInv, OneOutput, OutputInv, UNCHANGED outputVars
  PROVE  TreadmillInv' /\ OneOutput' /\ OutputInv'
  BY DEF outputVars, settings, TreadmillInv, OneOutput, OutputInv, StickSpeed,
         TreadmillSpeed, Activated, WipUsesTreadmill

\* A connection made or lost, or a message received.
LEMMA LinkTypes ==
  ASSUME L!LinkTypeOK, [L!LinkNext]_linkVars
  PROVE  L!LinkTypeOK'
  <1>1. ASSUME NEW m \in InMsgs, L!Receive(m) PROVE L!LinkTypeOK'
    <2>1. [gen |-> gen, msg |-> m] \in L!Entries
      BY DEF L!LinkTypeOK, L!Entries
    <2> QED
      BY <1>1, <2>1 DEF L!Receive, L!LinkTypeOK
  <1>2. ASSUME NEW k \in Kinds, NEW v \in Values, L!Deliver(k, v) PROVE L!LinkTypeOK'
    BY DEF Kinds
  <1>3. CASE L!Announce
    <2>1. torn' \in BOOLEAN
      BY <1>3 DEF L!Announce
    <2>2. out' \in [Kinds -> Values \cup {None}]
      BY <1>3, NothingType DEF L!Announce
    <2> QED
      BY <1>3, <2>1, <2>2 DEF L!Announce, L!LinkTypeOK
  <1>4. CASE L!Drain
    BY <1>4 DEF L!Drain, L!LinkTypeOK
  <1>5. CASE L!Tear
    <2>1. torn' \in BOOLEAN
      BY <1>5 DEF L!Tear
    <2> QED
      BY <1>5, <2>1 DEF L!Tear, L!LinkTypeOK
  <1>6. CASE L!Publish \/ L!Hangup \/ UNCHANGED linkVars
    BY <1>6 DEF L!Publish, L!Hangup, L!LinkTypeOK
  <1> QED
    BY <1>1, <1>2, <1>3, <1>4, <1>5, <1>6 DEF L!LinkNext

\* Every step takes the connection a step of Link further, or leaves it alone.
LEMMA LinkStep == [Next]_vars => [L!LinkNext]_linkVars
  <1> USE DEF FrameUnchanged, EnvUnchanged, TreadmillUnchanged
  <1>1. CASE Frame
    BY <1>1 DEF Frame, BeginFrame, DrainInbox, InboxDone, SameSetting, NewSetting,
       OnWipInfo, Handle, UpdateWalkInPlace, UpdateTooSoon, L!LinkNext
  <1>2. CASE Activate \/ Deactivate \/ Tick \/ UNCHANGED vars
    BY <1>2 DEF Activate, Deactivate, Tick, vars
  <1>3. ASSUME NEW m \in InMsgs, Receive(m) PROVE [L!LinkNext]_linkVars
    BY <1>3 DEF Receive, L!LinkNext
  <1>4. CASE Reconnect
    BY <1>4 DEF Reconnect, L!LinkNext
  <1> QED
    BY <1>1, <1>2, <1>3, <1>4 DEF Next

\* The flags are what settings and messages say.
LEMMA FlagTypes == TypeOK /\ [Next]_vars => FlagsTypeOK'
  <1> SUFFICES ASSUME TypeOK, [Next]_vars PROVE FlagsTypeOK'
    OBVIOUS
  <1> USE DEF FrameUnchanged, EnvUnchanged, TreadmillUnchanged, settings, walking, outputs
  <1>0. FlagsTypeOK
    BY DEF TypeOK
  <1>1. ASSUME NEW m \in InMsgs, SameSetting(m) \/ NewSetting(m) PROVE FlagsTypeOK'
    <2>1. /\ m.open \in BOOLEAN /\ m.joystick \in BOOLEAN /\ m.treadmill \in BOOLEAN
      BY <1>1, MessageTypes DEF SameSetting, NewSetting
    <2>2. wip_open_' \in BOOLEAN
      BY <1>0, <1>1, <2>1 DEF SameSetting, NewSetting, FlagsTypeOK
    <2>3. wip_as_treadmill_' \in BOOLEAN
      BY <1>0, <1>1, <2>1 DEF SameSetting, NewSetting, FlagsTypeOK
    <2>4. wip_joystick_control_' \in BOOLEAN
      BY <1>0, <1>1, <2>1 DEF SameSetting, NewSetting, FlagsTypeOK
    <2>5. wip_walking_' \in BOOLEAN
      BY <1>0, <1>1 DEF SameSetting, NewSetting, FlagsTypeOK
    <2>6. updated' \in BOOLEAN
      BY <1>0, <1>1 DEF SameSetting, NewSetting, Handle, FlagsTypeOK
    <2> QED
      BY <2>2, <2>3, <2>4, <2>5, <2>6 DEF FlagsTypeOK
  <1>2. ASSUME NEW m \in InMsgs, OnWipInfo(m) PROVE FlagsTypeOK'
    <2>1. wip_walking_' \in BOOLEAN
      BY <1>0, <1>2 DEF OnWipInfo, Walking, FlagsTypeOK
    <2>2. UNCHANGED <<wip_open_, wip_as_treadmill_, wip_joystick_control_, updated>>
      BY <1>2 DEF OnWipInfo, Handle
    <2> QED
      BY <1>0, <2>1, <2>2 DEF FlagsTypeOK
  <1>3. ASSUME NEW newly \in SUBSET (Hands \ captured), UpdateWalkInPlace(newly)
        PROVE  FlagsTypeOK'
    BY <1>0, <1>3 DEF UpdateWalkInPlace, FlagsTypeOK
  <1>4. CASE Tick
    BY <1>0, <1>4 DEF Tick, FlagsTypeOK
  <1>5. CASE BeginFrame \/ DrainInbox \/ InboxDone \/ UpdateTooSoon
    BY <1>0, <1>5 DEF BeginFrame, DrainInbox, InboxDone, UpdateTooSoon, FlagsTypeOK
  <1>6. CASE Activate \/ Deactivate \/ Reconnect \/ UNCHANGED vars
    BY <1>0, <1>6 DEF Activate, Deactivate, Reconnect, vars, FlagsTypeOK
  <1>7. ASSUME NEW m \in InMsgs, Receive(m) PROVE FlagsTypeOK'
    BY <1>0, <1>7 DEF Receive, FlagsTypeOK
  <1> QED
    BY <1>1, <1>2, <1>3, <1>4, <1>5, <1>6, <1>7 DEF Next, Frame

\* Everything else of the frame thread.
LEMMA StateTypes == TypeOK /\ [Next]_vars => StateTypeOK'
  <1> SUFFICES ASSUME TypeOK, [Next]_vars PROVE StateTypeOK'
    OBVIOUS
  <1> USE DEF FrameUnchanged, EnvUnchanged, TreadmillUnchanged, settings, walking, outputs
  <1>0. StateTypeOK /\ L!LinkTypeOK /\ None \notin Controllers
    BY MessageTypes DEF TypeOK
  <1>1. ASSUME NEW m, Handle(m) PROVE inbox_' \in Seq(InMsgs) /\ fpc' = fpc
    BY <1>0, <1>1 DEF Handle, StateTypeOK
  <1>2. ASSUME NEW m \in InMsgs, SameSetting(m) PROVE StateTypeOK'
    BY <1>0, <1>1, <1>2, MessageTypes DEF SameSetting, Handle, StateTypeOK
  <1>3. ASSUME NEW m \in InMsgs, NewSetting(m) PROVE StateTypeOK'
    <2>1. /\ NewTreadmill \in Controllers
          /\ \A t \in Controllers, on \in BOOLEAN : SetConnected(t, on) \in Controllers
      BY SpeedRange, ConnectedSet DEF NewTreadmill, Controllers
    <2>2. \A on \in BOOLEAN : Switched(on) \subseteq Controllers \cup {None}
      BY <1>0, <2>1 DEF Switched, StateTypeOK
    <2>3. treadmill_' \in Controllers \cup {None}
      BY <1>3, <2>2 DEF NewSetting
    <2>4. m.hand \in Hands /\ 0 \in Speeds /\ drive' = None
      BY <1>3, MessageTypes, SpeedRange DEF NewSetting, Released
    <2> QED
      BY <1>0, <1>1, <1>3, <2>3, <2>4 DEF NewSetting, Handle, StateTypeOK
  <1>4. ASSUME NEW m \in InMsgs, OnWipInfo(m) PROVE StateTypeOK'
    <2>1. wip_speed_' \in Speeds
      BY <1>4, MessageTypes, SpeedRange DEF OnWipInfo
    <2> QED
      BY <1>0, <1>1, <1>4, <2>1, MessageTypes DEF OnWipInfo, Handle, StateTypeOK
  <1>5. ASSUME NEW newly \in SUBSET (Hands \ captured), UpdateWalkInPlace(newly)
        PROVE  StateTypeOK'
    <2> DEFINE output == /\ wip_open_ /\ phase = "up"
                         /\ ~wip_joystick_control_ \/ wip_walking_
               speed == IF output /\ CurrentSpeed > Slow THEN CurrentSpeed ELSE 0
    <2>1. CurrentSpeed \in Speeds /\ speed \in Speeds
      BY <1>0, SpeedRange DEF StateTypeOK
    <2>2. SetStick(treadmill_, speed) \in Controllers \cup {None}
      BY <1>0, <2>1, StickSet DEF StateTypeOK, SetStick, Activated
    <2>3. Drive(wip_hand_, speed, captured') \in (Hands \X (Speeds \ {0})) \cup {None}
      BY <1>0, <2>1 DEF StateTypeOK, Drive
    <2> HIDE DEF speed
    <2>4. /\ treadmill_' \in Controllers \cup {None}
          /\ drive' \in (Hands \X (Speeds \ {0})) \cup {None}
          /\ captured' \subseteq Hands /\ wip_speed_' \in Speeds
      BY <1>0, <1>5, <2>1, <2>2, <2>3 DEF UpdateWalkInPlace, StateTypeOK, speed
    <2> QED
      BY <1>0, <1>5, <2>4 DEF UpdateWalkInPlace, StateTypeOK
  <1>6. CASE Tick
    BY <1>0, <1>6, MessageTypes DEF Tick, Older, StateTypeOK
  <1>7. CASE DrainInbox
    <2>1. \A n \in 1 .. Len(queue) : queue[n].msg \in InMsgs
      <3>1. \A n \in 1 .. Len(queue) : queue[n] \in L!Entries
        BY <1>0 DEF L!LinkTypeOK
      <3> QED
        BY <3>1 DEF L!Entries
    <2>2. Len(queue) \in Nat
      BY <1>0 DEF L!LinkTypeOK
    <2>3. inbox_' \in Seq(InMsgs)
      BY <1>7, <2>1, <2>2 DEF DrainInbox
    <2> QED
      BY <1>0, <1>7, <2>3 DEF DrainInbox, StateTypeOK
  <1>8. CASE BeginFrame \/ InboxDone \/ UpdateTooSoon
    BY <1>0, <1>8 DEF BeginFrame, InboxDone, UpdateTooSoon, Unconnected, StateTypeOK
  <1>9. CASE Activate \/ Deactivate
    <2>1. treadmill_' \in Controllers
      BY <1>0, <1>9 DEF Activate, Deactivate, Activated, StateTypeOK, Controllers
    <2> QED
      BY <1>0, <1>9, <2>1 DEF Activate, Deactivate, StateTypeOK
  <1>10. CASE Reconnect \/ UNCHANGED vars
    BY <1>0, <1>10 DEF Reconnect, vars, StateTypeOK
  <1>11. ASSUME NEW m \in InMsgs, Receive(m) PROVE StateTypeOK'
    BY <1>0, <1>11, MessageTypes DEF Receive, StateTypeOK
  <1> QED
    BY <1>2, <1>3, <1>4, <1>5, <1>6, <1>7, <1>8, <1>9, <1>10, <1>11 DEF Next, Frame

\* Who moves the player, through every step.
LEMMA OutputStep ==
  IInv /\ [Next]_vars => TreadmillInv' /\ OneOutput' /\ OutputInv'
  <1> SUFFICES ASSUME IInv, [Next]_vars PROVE TreadmillInv' /\ OneOutput' /\ OutputInv'
    OBVIOUS
  <1> USE DEF FrameUnchanged, EnvUnchanged, TreadmillUnchanged, outputs
  <1>0. /\ StateTypeOK /\ TreadmillInv /\ OneOutput /\ OutputInv
        /\ None \notin Controllers /\ Stale \in Nat
    BY MessageTypes DEF IInv, TypeOK
  <1>1. ASSUME NEW m \in InMsgs, SameSetting(m)
        PROVE  TreadmillInv' /\ OneOutput' /\ OutputInv'
    BY <1>0, <1>1 DEF SameSetting, Handle, walking, TreadmillInv, OneOutput, OutputInv,
       StickSpeed, TreadmillSpeed, Activated, WipUsesTreadmill
  <1>2. ASSUME NEW m \in InMsgs, NewSetting(m)
        PROVE  TreadmillInv' /\ OneOutput' /\ OutputInv'
    <2> DEFINE on == m.open /\ WipUsesTreadmill(m.treadmill)
    <2>1. on \in BOOLEAN /\ (on <=> wip_open_' /\ WipUsesTreadmill(wip_as_treadmill_'))
      BY <1>2 DEF NewSetting
    <2> HIDE DEF on
    <2>2. drive' = None /\ UNCHANGED <<updated, info_age>>
      BY <1>2 DEF NewSetting, Handle, Released
    <2>3. treadmill_' \in Switched(on)
      BY <1>2 DEF NewSetting, on
    <2>4. \/ treadmill_' = None
          \/ /\ treadmill_' \in Controllers
             /\ treadmill_ # None \/ treadmill_'.last_y_ = 0
             /\ treadmill_'.connected = on
             /\ treadmill_ # None =>
                   /\ treadmill_'.state = treadmill_.state
                   /\ treadmill_'.last_y_ \in {treadmill_.last_y_, 0}
             /\ ~on /\ treadmill_'.state = "active" => treadmill_'.last_y_ = 0
      <3>1. CASE treadmill_ # None
        BY <1>0, <2>1, <2>3, <3>1, ConnectedSet DEF Switched, StateTypeOK
      <3>2. CASE treadmill_ = None /\ treadmill_' # None
        <4>1. on /\ treadmill_' = SetConnected(NewTreadmill, TRUE)
          BY <2>1, <2>3, <3>2 DEF Switched
        <4>2. NewTreadmill \in Controllers /\ NewTreadmill.last_y_ = 0
          BY SpeedRange DEF NewTreadmill, Controllers
        <4> QED
          BY <3>2, <4>1, <4>2, ConnectedSet
      <3> QED
        BY <3>1, <3>2
    <2>5. TreadmillInv'
      BY <1>0, <2>1, <2>4 DEF TreadmillInv
    <2>6. TreadmillSpeed' # 0 => on /\ treadmill_'.connected /\ TreadmillSpeed # 0
      BY <1>0, <2>4 DEF TreadmillSpeed, Activated, TreadmillInv
    <2>7. OneOutput'
      BY <2>1, <2>2, <2>6 DEF OneOutput, StickSpeed
    <2>8. OutputInv'
      BY <1>0, <2>2, <2>6 DEF OutputInv, StickSpeed
    <2> QED
      BY <2>5, <2>7, <2>8
  <1>3. ASSUME NEW m \in InMsgs, OnWipInfo(m)
        PROVE  TreadmillInv' /\ OneOutput' /\ OutputInv'
    BY <1>0, <1>3 DEF OnWipInfo, Handle, settings, TreadmillInv, OneOutput, OutputInv,
       StickSpeed, TreadmillSpeed, Activated, WipUsesTreadmill
  <1>4. ASSUME NEW newly \in SUBSET (Hands \ captured), UpdateWalkInPlace(newly)
        PROVE  TreadmillInv' /\ OneOutput' /\ OutputInv'
    <2> DEFINE output == /\ wip_open_ /\ phase = "up"
                         /\ ~wip_joystick_control_ \/ wip_walking_
               speed == IF output /\ CurrentSpeed > Slow THEN CurrentSpeed ELSE 0
    <2>1. CurrentSpeed \in Speeds /\ speed \in Speeds
      BY <1>0, SpeedRange DEF StateTypeOK
    <2>2. (speed # 0 => wip_open_) /\ (info_age > Stale => speed = 0)
      BY DEF CurrentSpeed
    <2>3. UNCHANGED <<settings, info_age>>
      BY <1>4 DEF UpdateWalkInPlace
    <2> HIDE DEF speed
    <2>4. CASE WipUsesTreadmill(wip_as_treadmill_)
      <3>1. treadmill_' = SetStick(treadmill_, speed) /\ drive' = drive
        BY <1>4, <2>4 DEF UpdateWalkInPlace, speed
      <3>2. drive = None
        BY <1>0, <2>4 DEF OneOutput, StickSpeed, StateTypeOK
      <3>3. treadmill_ = None => treadmill_' = None
        BY <3>1 DEF SetStick, Activated
      <3>4. treadmill_ # None =>
              /\ treadmill_' # None /\ treadmill_'.state = treadmill_.state
              /\ treadmill_'.connected = treadmill_.connected
              /\ treadmill_'.last_y_ = IF treadmill_.state = "active" THEN speed
                                                                     ELSE treadmill_.last_y_
        BY <1>0, <2>1, <3>1, StickSet DEF StateTypeOK
      <3>5. TreadmillInv'
        BY <1>0, <2>3, <3>3, <3>4 DEF TreadmillInv, settings, WipUsesTreadmill
      <3>6. TreadmillSpeed' # 0 => treadmill_ # None /\ TreadmillSpeed' = speed
        BY <3>3, <3>4 DEF TreadmillSpeed, Activated
      <3>7. OneOutput'
        BY <1>0, <2>2, <2>3, <2>4, <3>1, <3>2, <3>4, <3>6
           DEF OneOutput, StickSpeed, TreadmillInv, settings, WipUsesTreadmill
      <3>8. OutputInv'
        BY <2>2, <2>3, <3>1, <3>2, <3>6 DEF OutputInv, StickSpeed
      <3> QED
        BY <3>5, <3>7, <3>8
    <2>5. CASE ~WipUsesTreadmill(wip_as_treadmill_)
      <3>1. treadmill_' = treadmill_ /\ drive' = Drive(wip_hand_, speed, captured')
        BY <1>4, <2>5 DEF UpdateWalkInPlace, speed
      <3>2. TreadmillSpeed' = 0
        BY <1>0, <2>5, <3>1 DEF OneOutput, TreadmillSpeed, Activated
      <3>3. drive' # None => speed # 0
        BY <3>1 DEF Drive
      <3>4. TreadmillInv'
        BY <1>0, <2>3, <3>1 DEF TreadmillInv, settings, WipUsesTreadmill
      <3>5. OneOutput' /\ OutputInv'
        BY <2>2, <2>3, <2>5, <3>2, <3>3
           DEF OneOutput, OutputInv, StickSpeed, settings, WipUsesTreadmill
      <3> QED
        BY <3>4, <3>5
    <2> QED
      BY <2>4, <2>5
  <1>5. CASE Tick
    BY <1>0, <1>5 DEF Tick, settings, TreadmillInv, OneOutput, OutputInv, StickSpeed,
       TreadmillSpeed, Activated, WipUsesTreadmill
  <1>6. CASE Activate \/ Deactivate
    <2>1. /\ treadmill_ \in Controllers /\ treadmill_' \in Controllers
          /\ treadmill_'.connected = treadmill_.connected
          /\ treadmill_'.last_y_ = treadmill_.last_y_
          /\ treadmill_'.state \in {"active", "gone"}
      BY <1>0, <1>6 DEF Activate, Deactivate, Activated, StateTypeOK, Controllers
    <2>2. TreadmillSpeed' \in {TreadmillSpeed, 0}
      BY <1>0, <1>6, <2>1 DEF Activate, Deactivate, TreadmillSpeed, Activated, TreadmillInv
    <2>3. UNCHANGED <<settings, drive, updated, info_age>> /\ treadmill_ # None
      BY <1>0, <1>6, <2>1 DEF Activate, Deactivate, walking
    <2> QED
      BY <1>0, <2>1, <2>2, <2>3 DEF TreadmillInv, OneOutput, OutputInv, StickSpeed,
         settings, WipUsesTreadmill
  <1>7. CASE BeginFrame \/ DrainInbox \/ InboxDone \/ UpdateTooSoon
    BY <1>0, <1>7, OutputSame
       DEF BeginFrame, DrainInbox, InboxDone, UpdateTooSoon, walking, outputVars
  <1>8. CASE Reconnect \/ UNCHANGED vars
    BY <1>0, <1>8, OutputSame DEF Reconnect, vars, walking, outputVars
  <1>9. ASSUME NEW m \in InMsgs, Receive(m)
        PROVE  TreadmillInv' /\ OneOutput' /\ OutputInv'
    BY <1>0, <1>9, OutputSame DEF Receive, outputVars
  <1> QED
    BY <1>1, <1>2, <1>3, <1>4, <1>5, <1>6, <1>7, <1>8, <1>9 DEF Next, Frame

\* Every step keeps the invariant.
LEMMA IInvNext == IInv /\ [Next]_vars => IInv'
  <1> SUFFICES ASSUME IInv, [Next]_vars PROVE IInv'
    OBVIOUS
  <1>1. TypeOK /\ L!LinkTypeOK
    BY DEF IInv, TypeOK
  <1>2. L!LinkTypeOK'
    BY <1>1, LinkStep, LinkTypes
  <1>3. TypeOK'
    BY <1>1, <1>2, FlagTypes, StateTypes DEF TypeOK
  <1> QED
    BY <1>3, OutputStep DEF IInv

\* The invariant holds in every state.
THEOREM Invariance == Spec => []IInv
  BY IInvInit, IInvNext, PTL DEF Spec

\* Every variable keeps its type, and OnWipInfo's clamp keeps every speed within
\* what a stick can show.
THEOREM TypeCorrect == Spec => []TypeOK
  <1>1. IInv => TypeOK
    BY DEF IInv
  <1> QED
    BY <1>1, Invariance, PTL

\* OnWipSetting, UpdateWalkInPlace and the Treadmill never move the player by the
\* stick and the treadmill together, by one the setting does not select, or at
\* all once walk-in-place is off.
THEOREM OneMoves == Spec => []OneOutput
  <1>1. IInv => OneOutput
    BY DEF IInv
  <1> QED
    BY <1>1, Invariance, PTL

\* Walk-in-place uses the connection as the abstract Link allows: what
\* BridgeClient's refinement of Link shows of the real client, it may rely on.
THEOREM UsesLink == Spec => L!LinkSpec
  <1>1. Init => L!LinkInit
    BY DEF Init
  <1> QED
    BY <1>1, LinkStep, PTL DEF Spec, L!LinkSpec

(***************************************************************************)
(* The end of walking.                                                     *)
(***************************************************************************)

\* An info that is read was sent in this tick or in the one before.
LEMMA AgeStep ==
  TypeOK /\ AgeInv /\ NothingLeftOver /\ [Next]_vars => AgeInv'
  <1> SUFFICES ASSUME TypeOK, AgeInv, NothingLeftOver, [Next]_vars PROVE AgeInv'
    OBVIOUS
  <1> USE DEF FrameUnchanged, EnvUnchanged, TreadmillUnchanged, walking
  <1>0. /\ AgeInv /\ Stale \in Nat
        /\ StateTypeOK /\ gen \in Nat /\ queue \in Seq(L!Entries)
    BY MessageTypes DEF TypeOK, L!LinkTypeOK
  <1>1. ASSUME NEW m, Handle(m) PROVE AnInfo(inbox_') => AnInfo(inbox_)
    <2>1. /\ Len(inbox_) \in Nat \ {0} /\ Len(inbox_') = Len(inbox_) - 1
          /\ \A n \in 1 .. Len(inbox_') : inbox_'[n] = inbox_[n + 1]
      BY <1>0, <1>1 DEF Handle, StateTypeOK
    <2> QED
      BY <2>1 DEF AnInfo
  <1>2. ASSUME NEW m \in InMsgs, SameSetting(m) \/ NewSetting(m) PROVE AgeInv'
    <2>1. /\ UNCHANGED <<phase, gen, queue, fpc, updated, info_age, arrived>> /\ Handle(m)
          /\ fpc = "inbox"
      BY <1>2 DEF SameSetting, NewSetting, Handle
    <2> QED
      BY <1>0, <1>1, <2>1 DEF AgeInv, AnInfoWaits
  <1>3. ASSUME NEW m \in InMsgs, OnWipInfo(m) PROVE AgeInv'
    <2>1. /\ UNCHANGED <<phase, gen, queue, fpc, updated, arrived>> /\ info_age' = 0
          /\ Handle(m) /\ fpc = "inbox"
      BY <1>3 DEF OnWipInfo, Handle
    <2>2. AnInfo(inbox_)
      <3>1. inbox_[1] \in Infos /\ 1 \in 1 .. Len(inbox_)
        BY <1>0, <1>3 DEF OnWipInfo, Handle, StateTypeOK
      <3> QED
        BY <3>1 DEF AnInfo
    <2>3. arrived <= 1
      BY <1>0, <2>2 DEF AgeInv
    <2> QED
      BY <1>0, <1>1, <2>1, <2>3 DEF AgeInv, AnInfoWaits
  <1>4. CASE DrainInbox
    <2>1. /\ UNCHANGED <<updated, info_age, arrived>> /\ queue' = << >> /\ fpc = "drain"
          /\ fpc' = "inbox"
          /\ inbox_' = [n \in 1 .. Len(queue) |-> queue[n].msg]
      BY <1>4 DEF DrainInbox, L!Drain
    <2>2. AnInfo(inbox_') => AnInfoWaits
      BY <1>0, <2>1 DEF AnInfo, AnInfoWaits
    <2>3. ~AnInfoWaits'
      BY <2>1 DEF AnInfoWaits
    <2>4. AnInfoWaits => arrived <= 1
      BY <1>0, <2>1 DEF AgeInv
    <2> QED
      BY <1>0, <2>1, <2>2, <2>3, <2>4 DEF AgeInv
  <1>5. CASE BeginFrame
    <2>1. /\ UNCHANGED <<phase, queue, inbox_, updated, info_age, arrived>>
          /\ fpc = "idle" /\ fpc' = IF phase = "up" THEN "drain" ELSE "update"
      BY <1>5 DEF BeginFrame, Unconnected
    <2> QED
      BY <1>0, <2>1 DEF AgeInv, AnInfo, AnInfoWaits
  <1>6. CASE InboxDone \/ UpdateTooSoon
    <2>1. /\ UNCHANGED <<phase, queue, inbox_, updated, info_age, arrived>>
          /\ fpc \in {"inbox", "update"}
      BY <1>6 DEF InboxDone, UpdateTooSoon
    <2>2. fpc' # "drain" /\ inbox_ = << >>
      BY <1>0, <1>6 DEF InboxDone, UpdateTooSoon, AgeInv
    <2> QED
      BY <1>0, <2>1, <2>2 DEF AgeInv, AnInfo, AnInfoWaits
  <1>7. ASSUME NEW newly \in SUBSET (Hands \ captured), UpdateWalkInPlace(newly)
        PROVE  AgeInv'
    <2>1. /\ UNCHANGED <<phase, queue, inbox_, info_age, arrived>>
          /\ fpc = "update" /\ fpc' = "idle"
      BY <1>7 DEF UpdateWalkInPlace
    <2> QED
      BY <1>0, <2>1 DEF AgeInv, AnInfo, AnInfoWaits
  <1>8. CASE Tick
    <2>1. /\ UNCHANGED <<phase, queue, inbox_, fpc>> /\ fpc = "idle"
          /\ updated /\ ~updated'
          /\ info_age' = Older(info_age) /\ arrived' = Older(arrived)
      BY <1>8 DEF Tick
    <2>2. arrived' <= info_age' + 1
      BY <1>0, <2>1 DEF AgeInv, Older, StateTypeOK
    <2>3. inbox_' = << >> /\ ~AnInfo(inbox_')
      BY <1>0, <2>1 DEF AgeInv, AnInfo
    <2>4. AnInfoWaits' /\ phase' = "up" => arrived' = 1
      BY <1>0, <2>1 DEF AgeInv, AnInfoWaits, Older
    <2> QED
      BY <2>1, <2>2, <2>3, <2>4 DEF AgeInv
  <1>9. ASSUME NEW m \in InMsgs, Receive(m) PROVE AgeInv'
    <2>1. /\ UNCHANGED <<phase, fpc, inbox_, updated, info_age>>
          /\ queue' = Append(queue, [gen |-> gen, msg |-> m])
          /\ arrived' = IF m \in Infos THEN 0 ELSE arrived
      BY <1>9 DEF Receive, L!Receive
    <2>2. info_age \in Nat /\ arrived \in Nat
      BY <1>0 DEF StateTypeOK
    <2>3. m \notin Infos => (AnInfoWaits' => AnInfoWaits)
      BY <1>0, <2>1 DEF AnInfoWaits
    <2> QED
      BY <1>0, <2>1, <2>2, <2>3 DEF AgeInv, AnInfo
  <1>10. CASE Reconnect
    <2>1. UNCHANGED <<queue, fpc, inbox_, updated, info_age, arrived>>
      BY <1>10 DEF Reconnect, L!Announce, L!Publish, L!Hangup
    <2>2. phase' = "up" => ~AnInfoWaits
      BY <1>10 DEF Reconnect, L!Announce, L!Publish, L!Hangup, NothingLeftOver
    <2> QED
      BY <1>0, <2>1, <2>2 DEF AgeInv, AnInfo, AnInfoWaits
  <1>11. CASE Activate \/ Deactivate \/ UNCHANGED vars
    <2>1. UNCHANGED <<phase, queue, fpc, inbox_, updated, info_age, arrived>>
      BY <1>11 DEF Activate, Deactivate, vars
    <2> QED
      BY <1>0, <2>1 DEF AgeInv, AnInfo, AnInfoWaits
  <1> QED
    BY <1>2, <1>3, <1>4, <1>5, <1>6, <1>7, <1>8, <1>9, <1>10, <1>11 DEF Next, Frame

\* "If wip_info doesn't arrive for about 1 s, the speed is set to zero": so it is,
\* by CurrentSpeed in UpdateWalkInPlace, over any number of connections, as long
\* as none of them finds a wip_info left over from the one before.  It need not be
\* when one does: what is left in the queue of BridgeClient is read as if it were
\* new (the run walk_reconnected).
THEOREM Stops == Spec /\ []NothingLeftOver => []StopsWithoutInfo
  <1>1. Init => AgeInv
    <2> SUFFICES ASSUME Init PROVE AgeInv
      OBVIOUS
    <2>1. phase = "down" /\ queue = << >> /\ inbox_ = << >>
          /\ arrived = info_age /\ info_age = Stale + 2
      BY DEF Init, L!LinkInit
    <2> QED
      BY <2>1, MessageTypes DEF AgeInv, AnInfo, AnInfoWaits
  <1>2. IInv /\ AgeInv /\ NothingLeftOver /\ [Next]_vars => AgeInv'
    BY AgeStep DEF IInv
  <1>3. IInv /\ AgeInv => StopsWithoutInfo
    <2> SUFFICES ASSUME IInv, AgeInv, updated, arrived > Stale + 1
                 PROVE  StickSpeed = 0 /\ TreadmillSpeed = 0
      BY DEF StopsWithoutInfo
    <2>1. info_age > Stale
      BY MessageTypes DEF IInv, TypeOK, StateTypeOK, AgeInv
    <2> QED
      BY <2>1 DEF IInv, OutputInv
  <1> QED
    BY <1>1, <1>2, <1>3, Invariance, PTL DEF Spec

\* No wip_info is left over while the app connects once only, as in the run walk.
THEOREM FirstConnection == Spec /\ [](gen <= 1) => []NothingLeftOver
  <1> DEFINE Before == /\ gen = 0 => phase = "down"
                       /\ gen = 0 \/ phase = "announced" => queue = << >>
             Once   == gen <= 1
  <1>1. Init => Before
    BY DEF Init, L!LinkInit
  <1>2. TypeOK /\ Before /\ Once' /\ [Next]_vars => Before'
    <2> SUFFICES ASSUME TypeOK, Before, Once', [Next]_vars PROVE Before'
      OBVIOUS
    <2>0. gen \in Nat /\ queue \in Seq(L!Entries) /\ [L!LinkNext]_linkVars
      BY LinkStep DEF TypeOK, L!LinkTypeOK
    <2>1. CASE L!Announce
      <3>1. gen = 0
        BY <2>0, <2>1 DEF L!Announce
      <3> QED
        BY <2>0, <2>1, <3>1 DEF L!Announce
    <2>2. CASE L!Publish \/ L!Hangup \/ L!Drain \/ L!Tear \/ UNCHANGED linkVars
      BY <2>2 DEF L!Publish, L!Hangup, L!Drain, L!Tear
    <2>3. ASSUME NEW m \in InMsgs, L!Receive(m) PROVE Before'
      BY <2>0, <2>3 DEF L!Receive
    <2> QED
      BY <2>0, <2>1, <2>2, <2>3 DEF L!LinkNext, Kinds
  <1>3. Before => NothingLeftOver
    BY DEF NothingLeftOver, AnInfoWaits
  <1> HIDE DEF Before
  <1>4. [](gen <= 1) => []Once
    BY PTL
  <1> HIDE DEF Once
  <1>5. IInv => TypeOK
    BY DEF IInv
  <1> QED
    BY <1>1, <1>2, <1>3, <1>4, <1>5, Invariance, PTL DEF Spec

=============================================================================
