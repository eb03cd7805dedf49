------------------------------ MODULE Trackers ------------------------------
(***************************************************************************)
(* A tracker of the app as a SteamVR device (Tracker and AddTracker in     *)
(* driver/src/driver.cpp): what RunFrame does with tracker_added, position *)
(* and tracker_status, the 3 s time-out, and the play space poses are      *)
(* converted with.  Trackers share nothing, so one is modelled.            *)
(*                                                                         *)
(* A pose is represented by the play space the app expressed it in, and    *)
(* the conversion to raw space by the play space it undoes: what SteamVR   *)
(* shows is right when the two are equal.  The play space is Provider's,   *)
(* whose HandshakeCurrent lets "uch was sent" stand for out["uch"] here.   *)
(***************************************************************************)
EXTENDS Naturals, Sequences

CONSTANTS
    Reports,      \* statuses the app reports
    MaxSpace,     \* bound: play spaces, numbered as they come into use
    None,
    Timeout,      \* ticks in 3 s; at least one check of time-outs in each tick
    MaxGen,       \* bound: connections
    MaxQueue      \* bound: messages waiting

Spaces  == 1 .. MaxSpace
NoSpace == 0

\* What SteamVR can be shown.
Shown == [status : Reports, pose : Spaces \cup {NoSpace}, world : Spaces \cup {NoSpace}]

ASSUME TrackersAssumption ==
    /\ {"OK", "DISCONNECTED"} \subseteq Reports
    /\ None \notin Nat \cup Shown
    /\ MaxSpace \in Nat
    /\ Timeout \in Nat \ {0} /\ MaxGen \in Nat /\ MaxQueue \in Nat

Added        == [kind |-> "tracker_added"]
Position(s)  == [kind |-> "position", space |-> s]
Status(s)    == [kind |-> "tracker_status", status |-> s]

\* A position whose arrays have the wrong sizes changes no pose: NoSpace.
InMsgs == {Added} \cup {Position(s) : s \in Spaces \cup {NoSpace}}
                  \cup {Status(s) : s \in Reports}
Kinds  == {"uch"}
Values == Spaces

VARIABLES
    phase, gen, out, torn, queue,   \* client_, as Link describes it
    fpc, inbox_,                    \* RunFrame
    universe_,                      \* NoSpace: have_universe_ is false
    tracker,                        \* None, or the entry in trackers_
    shown,                          \* what SteamVR was given last
    checked,                        \* time-outs were checked in this tick
    heard,                          \* the play space the app uses
    silence                         \* history: ticks since the last message for
                                    \* the tracker arrived, or its activation

linkVars    == <<phase, gen, out, torn, queue>>
trackerVars == <<linkVars, fpc, inbox_, universe_, tracker, shown, checked,
                 heard, silence>>

L == INSTANCE Link

TrackersInit ==
    /\ L!LinkInit
    /\ fpc = "idle" /\ inbox_ = << >>
    /\ universe_ = NoSpace
    /\ tracker = None /\ shown = None
    /\ checked = FALSE
    /\ heard = NoSpace /\ silence = 0

-----------------------------------------------------------------------------
(* Tracker.  age is the time since last_message_. *)

\* Mutant: status_ has no initial value.
NewTrackerUnset == [state |-> "added", status |-> None, timed_out |-> FALSE,
                    age |-> 0, pose |-> NoSpace, world |-> NoSpace]

NewTracker == [state |-> "added", status |-> "OK", timed_out |-> FALSE,
               age |-> 0, pose |-> NoSpace, world |-> NoSpace]

Activated == tracker # None /\ tracker.state = "active"

Pose(t) == [status |-> t.status, pose |-> t.pose, world |-> t.world]

\* ApplyStatus() and Submit(), or nothing for a tracker that is not activated.
Submit(t) == IF Activated
             THEN tracker' = [t EXCEPT !.age = 0] /\ shown' = Pose(t)
             ELSE UNCHANGED <<tracker, shown>>

DeviceUnchanged ==
    UNCHANGED <<linkVars, fpc, inbox_, universe_, shown, checked, heard>>

Activate ==
    /\ fpc = "idle"
    /\ tracker # None /\ tracker.state = "added"
    /\ tracker' = [tracker EXCEPT !.state = "active", !.age = 0]
    /\ silence' = 0
    /\ DeviceUnchanged

Deactivate ==
    /\ fpc = "idle"
    /\ Activated
    /\ tracker' = [tracker EXCEPT !.state = "gone"]
    /\ UNCHANGED silence
    /\ DeviceUnchanged

-----------------------------------------------------------------------------
(* RunFrame *)

FrameUnchanged == UNCHANGED <<universe_, heard, silence>>

\* Without a connection a frame checks time-outs and nothing else.
BeginFrame ==
    /\ fpc = "idle"
    /\ \/ /\ phase = "up"
          /\ fpc' = "inbox"
          /\ inbox_' = [n \in 1 .. Len(queue) |-> queue[n].msg]
          /\ L!Drain
       \/ /\ phase # "up"
          /\ fpc' = "alone"
          /\ UNCHANGED <<linkVars, inbox_>>
    /\ UNCHANGED <<tracker, shown, checked>>
    /\ FrameUnchanged

Handle(m) ==
    /\ fpc = "inbox"
    /\ inbox_ # << >> /\ m = Head(inbox_)
    /\ inbox_' = Tail(inbox_)
    /\ UNCHANGED <<linkVars, fpc, checked>>
    /\ FrameUnchanged

\* tracker_added: the app repeats it, SteamVR may reject the device.
AddTracker ==
    /\ Handle(Added)
    /\ tracker' \in IF tracker = None THEN {None, NewTracker} ELSE {tracker}
    /\ UNCHANGED shown

\* Mutant: every position makes the tracker valid.
RevivedAlways(t) == [t EXCEPT !.timed_out = FALSE, !.status = "OK"]

\* A position ends a time-out, and the status is not known to be bad.
Revived(t) == IF t.timed_out
              THEN [t EXCEPT !.timed_out = FALSE, !.status = "OK"]
              ELSE t

\* Mutant: the conversion is set once.
ConvertedOnce(t) == IF t.world # NoSpace THEN t ELSE [t EXCEPT !.world = universe_]

Converted(t) == IF universe_ = NoSpace THEN t ELSE [t EXCEPT !.world = universe_]

Moved(t, s) == IF s = NoSpace THEN t ELSE [t EXCEPT !.pose = s]

OnPosition(s) == Handle(Position(s)) /\ Submit(Converted(Revived(Moved(tracker, s))))

OnStatus(s) ==
    /\ Handle(Status(s))
    /\ Submit([tracker EXCEPT !.status = s, !.timed_out = FALSE])

\* The check of time-outs, after the messages of a frame if it has a connection.
ChecksNext == fpc = "alone" \/ (fpc = "inbox" /\ inbox_ = << >>)

AfterTimeouts == fpc' = IF fpc = "alone" THEN "idle" ELSE "universe"

\* Mutant: nothing is checked without a connection.
SilentConnected == Activated /\ tracker.age >= Timeout /\ fpc = "inbox"

Silent == Activated /\ tracker.age >= Timeout

CheckTimeout ==
    /\ ChecksNext
    /\ AfterTimeouts
    /\ IF Silent
       THEN Submit([tracker EXCEPT !.status = "DISCONNECTED", !.timed_out = TRUE])
       ELSE UNCHANGED <<tracker, shown>>
    /\ checked' = TRUE
    /\ UNCHANGED <<linkVars, inbox_>>
    /\ FrameUnchanged

\* Less than 200 ms since the last check.
CheckTooSoon ==
    /\ ChecksNext /\ checked
    /\ AfterTimeouts
    /\ UNCHANGED <<linkVars, inbox_, tracker, shown, checked>>
    /\ FrameUnchanged

\* UpdateUniverse() finds s, the one in use or a new one, since a recentre makes
\* a new universe (protocol.md); uch is repeated until it has gone out.
UpdateUniverse(s, ok) ==
    /\ fpc = "universe"
    /\ universe_ <= s
    /\ fpc' = "idle"
    /\ universe_' = s
    /\ IF out["uch"] = s THEN UNCHANGED linkVars ELSE L!Send("uch", s, ok)
    /\ UNCHANGED <<inbox_, tracker, shown, checked, heard, silence>>

\* No play space is known yet.
NoUniverse ==
    /\ fpc = "universe"
    /\ universe_ = NoSpace
    /\ fpc' = "idle"
    /\ UNCHANGED <<linkVars, inbox_, tracker, shown, checked>>
    /\ FrameUnchanged

-----------------------------------------------------------------------------
(* The app, the network thread and time *)

EnvUnchanged == UNCHANGED <<fpc, inbox_, universe_, shown>>

\* The app expresses positions in the play space it has.
Receive(m) ==
    /\ Len(queue) < MaxQueue
    /\ m.kind = "position" => m.space \in {heard, NoSpace}
    /\ L!Receive(m)
    /\ silence' = IF m = Added THEN silence ELSE 0
    /\ UNCHANGED <<tracker, checked, heard>>
    /\ EnvUnchanged

\* uch reaches the app.
AppHears ==
    /\ out["uch"] \notin {None, heard}
    /\ heard' = out["uch"]
    /\ UNCHANGED <<linkVars, tracker, checked, silence>>
    /\ EnvUnchanged

Reconnect ==
    /\ \/ gen < MaxGen /\ L!Announce
       \/ L!Publish
       \/ L!Hangup
    /\ UNCHANGED <<tracker, checked, heard, silence>>
    /\ EnvUnchanged

\* Ages are compared with Timeout only.
Older(age) == IF age <= Timeout THEN age + 1 ELSE age

\* A frame is short, and takes the time once, when it begins.
Tick ==
    /\ fpc = "idle" /\ checked
    /\ checked' = FALSE
    /\ tracker' = IF tracker = None THEN None ELSE [tracker EXCEPT !.age = Older(@)]
    /\ silence' = Older(silence)
    /\ UNCHANGED <<linkVars, heard>>
    /\ EnvUnchanged

-----------------------------------------------------------------------------

Frame ==
    \/ BeginFrame \/ AddTracker
    \/ \E s \in Spaces \cup {NoSpace} : OnPosition(s)
    \/ \E s \in Reports : OnStatus(s)
    \/ CheckTimeout \/ CheckTooSoon
    \/ \E s \in Spaces, ok \in BOOLEAN : UpdateUniverse(s, ok)
    \/ NoUniverse

TrackersNext ==
    \/ Frame
    \/ Activate \/ Deactivate
    \/ \E m \in InMsgs : Receive(m)
    \/ AppHears \/ Reconnect \/ Tick

\* SteamVR keeps calling RunFrame, time passes, and the app takes over the play
\* space it is told.  A send tried again and again goes through at last.
TrackersFairness ==
    /\ WF_trackerVars(Frame)
    /\ SF_trackerVars(Tick)
    /\ WF_trackerVars(AppHears)
    /\ \A s \in Spaces :
          SF_trackerVars(out["uch"] # s /\ universe_ = s /\ UpdateUniverse(s, TRUE))

TrackersSpec == TrackersInit /\ [][TrackersNext]_trackerVars

-----------------------------------------------------------------------------
(* Properties *)

\* Every variable keeps its type.
TrackersTypeOK ==
    /\ L!LinkTypeOK
    /\ fpc \in {"idle", "alone", "inbox", "universe"}
    /\ inbox_ \in Seq(InMsgs)
    /\ {universe_, heard} \subseteq Spaces \cup {NoSpace}
    /\ \/ tracker = None
       \/ tracker \in [state : {"added", "active", "gone"}, status : Reports,
                       timed_out : BOOLEAN, age : 0 .. Timeout + 1,
                       pose : Spaces \cup {NoSpace}, world : Spaces \cup {NoSpace}]
    /\ shown \in Shown \cup {None}
    /\ checked \in BOOLEAN
    /\ silence \in 0 .. Timeout + 1

\* "If a tracker doesn't get a position or status for about 3 s, it is reported
\* as disconnected" (protocol.md), also when the connection is what was lost,
\* and when nothing was ever received.  A message left over in the queue of a lost
\* connection is an exception: the next connection reads it as if it were new.
SilentDisconnects ==
    checked /\ Activated /\ silence > Timeout =>
        shown # None /\ shown.status = "DISCONNECTED"

\* From some time on the app reports the status s again and again, and none
\* else, and often enough.
Repeats(s) ==
    /\ <>[](phase = "up" /\ Activated /\ ~tracker.timed_out)
    /\ SF_trackerVars(Receive(Status(s)))
    /\ <>[][\A r \in Reports \ {s} : ~Receive(Status(r))]_trackerVars

\* A tracker shows the status the app gives it, whatever positions come in
\* between, and whatever time-outs, revivals and rejections came before.
StatusFollowsApp ==
    \A s \in Reports : Repeats(s) => <>[](shown # None /\ shown.status = s)

\* Once the play space stays the same and the app goes on sending positions, the
\* tracker is shown where the app means it: the position and the conversion
\* are of the same play space, although both change at different times.
ConvertedAsSent ==
    \A s \in Spaces :
        /\ <>[](phase = "up" /\ ~torn /\ Activated /\ universe_ = s)
        /\ SF_trackerVars(Receive(Position(s)))
        => <>[](shown # None /\ shown.pose = s /\ shown.world = s)

=============================================================================
