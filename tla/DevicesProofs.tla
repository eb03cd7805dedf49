--------------------------- MODULE DevicesProofs ---------------------------
(***************************************************************************)
(* Proofs about Trackers: its types, that it uses the connection as Link   *)
(* allows, and that a tracker the app says nothing about is shown as       *)
(* disconnected.  Proofs about HandPoses: its types, and that SteamVR is   *)
(* never given a torn hand pose, whatever the threads of the other drivers *)
(* do while the frame thread writes it.                                    *)
(***************************************************************************)
EXTENDS MCDevices, TLAPS, NaturalsInduction, WellFoundedInduction

(***************************************************************************)
(* Trackers.                                                               *)
(***************************************************************************)

\* A message that keeps the tracker alive, if it is activated when it is read.
AMessage(s) == \E n \in 1 .. Len(s) : s[n] # Added

AMessageWaits == \E n \in 1 .. Len(queue) : queue[n].msg # Added

Disconnected == shown # None /\ shown.status = "DISCONNECTED"

\* A message is read in the tick it arrives in or in the next, and before the
\* check of time-outs of that one.
ReadInv ==
    /\ AMessage(inbox_) => silence <= 1
    /\ fpc = "inbox" \/ inbox_ = << >>
    /\ AMessageWaits /\ phase = "up" =>
          \/ silence = 0
          \/ silence = 1 /\ ~checked /\ fpc = "idle"

\* An active tracker was submitted as late as its last message arrived, or in
\* the next tick, unless it is disconnected already.
AgeInv == Activated => Disconnected \/ silence <= tracker.age + 1

SilenceInv == ReadInv /\ AgeInv /\ SilentDisconnects

\* No message of an earlier connection is left in the queue when a new one begins.
NothingLeftOver == phase = "announced" => ~AMessageWaits

(***************************************************************************)
(* The types.                                                              *)
(***************************************************************************)

TrackerStates ==
    [state : {"added", "active", "gone"}, status : Reports, timed_out : BOOLEAN,
     age : 0 .. Timeout + 1, pose : Spaces \cup {NoSpace},
     world : Spaces \cup {NoSpace}]

DeviceTypeOK ==
    /\ tracker = None \/ tracker \in TrackerStates
    /\ shown \in Shown \cup {None}

RestTypeOK ==
    /\ fpc \in {"idle", "alone", "inbox", "universe"}
    /\ inbox_ \in Seq(InMsgs)
    /\ universe_ \in Spaces \cup {NoSpace} /\ heard \in Spaces \cup {NoSpace}
    /\ checked \in BOOLEAN
    /\ silence \in 0 .. Timeout + 1

\* The types are those of the connection, the tracker and the rest.
LEMMA TypeParts == TrackersTypeOK <=> L!LinkTypeOK /\ DeviceTypeOK /\ RestTypeOK
  BY DEF TrackersTypeOK, DeviceTypeOK, RestTypeOK, TrackerStates

\* What is used of the constants.
LEMMA ConstantTypes ==
  /\ Timeout \in Nat \ {0} /\ None \notin Shown
  /\ "OK" \in Reports /\ "DISCONNECTED" \in Reports
  /\ NewTracker = [NewTracker EXCEPT !.age = 0]
  /\ NewTracker \in TrackerStates
  BY TrackersAssumption DEF NewTracker, TrackerStates, NoSpace

USE DEF L!linkVars, linkVars

\* Nothing was sent.
LEMMA NothingType == L!Nothing \in [Kinds -> Values \cup {None}]
  BY DEF L!Nothing

\* A step of the connection keeps its types.
LEMMA LinkTypes ==
  ASSUME L!LinkTypeOK, [L!LinkNext]_linkVars
  PROVE  L!LinkTypeOK'
  <1>1. ASSUME NEW m \in InMsgs, L!Receive(m) PROVE L!LinkTypeOK'
    <2>1. [gen |-> gen, msg |-> m] \in L!Entries
      BY DEF L!LinkTypeOK, L!Entries
    <2> QED
      BY <1>1, <2>1 DEF L!Receive, L!LinkTypeOK
  <1>2. ASSUME NEW k \in Kinds, NEW v \in Values, L!Deliver(k, v) PROVE L!LinkTypeOK'
    BY <1>2 DEF L!Deliver, L!LinkTypeOK
  <1>3. CASE L!Announce
    <2>1. torn' \in BOOLEAN
      BY <1>3 DEF L!Announce
    <2>2. out' \in [Kinds -> Values \cup {None}]
      BY <1>3, NothingType DEF L!Announce
    <2> QED
      BY <1>3, <2>1, <2>2 DEF L!Announce, L!LinkTypeOK
  <1>4. CASE L!Drain
    BY <1>4 DEF L!Drain, L!LinkTypeOK
  <1>5. CASE L!Tear
    <2>1. torn' \in BOOLEAN
      BY <1>5 DEF L!Tear
    <2> QED
      BY <1>5, <2>1 DEF L!Tear, L!LinkTypeOK
  <1>6. CASE L!Publish \/ L!Hangup \/ UNCHANGED linkVars
    BY <1>6 DEF L!Publish, L!Hangup, L!LinkTypeOK
  <1> QED
    BY <1>1, <1>2, <1>3, <1>4, <1>5, <1>6 DEF L!LinkNext

\* Every step takes the connection a step of Link further, or leaves it alone.
LEMMA LinkStep == [TrackersNext]_trackerVars => [L!LinkNext]_linkVars
  <1> USE DEF FrameUnchanged, EnvUnchanged, DeviceUnchanged
  <1>1. ASSUME NEW s \in Spaces, NEW ok \in BOOLEAN, UpdateUniverse(s, ok)
        PROVE  [L!LinkNext]_linkVars
    <2>1. L!Send("uch", s, ok) => [L!LinkNext]_linkVars
      BY DEF L!Send, L!Drop, L!LinkNext, Kinds, Values
    <2> QED
      BY <1>1, <2>1 DEF UpdateUniverse
  <1>2. CASE BeginFrame
    BY <1>2 DEF BeginFrame, L!LinkNext
  <1>3. ASSUME NEW s, OnPosition(s) \/ OnStatus(s) \/ AddTracker
        PROVE  UNCHANGED linkVars
    BY <1>3 DEF OnPosition, OnStatus, AddTracker, Handle
  <1>4. CASE CheckTimeout \/ CheckTooSoon \/ NoUniverse
    BY <1>4 DEF CheckTimeout, CheckTooSoon, NoUniverse
  <1>5. CASE Activate \/ Deactivate \/ AppHears \/ Tick \/ UNCHANGED trackerVars
    BY <1>5 DEF Activate, Deactivate, AppHears, Tick, trackerVars
  <1>6. ASSUME NEW m \in InMsgs, Receive(m) PROVE [L!LinkNext]_linkVars
    BY <1>6 DEF Receive, L!LinkNext
  <1>7. CASE Reconnect
    BY <1>7 DEF Reconnect, L!LinkNext
  <1> QED
    BY <1>1, <1>2, <1>3, <1>4, <1>5, <1>6, <1>7 DEF TrackersNext, Frame

\* Submit() keeps the types, whichever tracker it is given.
LEMMA SubmitTypes ==
  ASSUME DeviceTypeOK, NEW t, Activated => t \in TrackerStates, Submit(t)
  PROVE  DeviceTypeOK'
  <1>1. CASE Activated
    <2>1. t \in TrackerStates /\ tracker' = [t EXCEPT !.age = 0] /\ shown' = Pose(t)
      BY <1>1 DEF Submit
    <2>2. 0 \in 0 .. Timeout + 1
      BY ConstantTypes
    <2>3. tracker' \in TrackerStates
      BY <2>1, <2>2 DEF TrackerStates
    <2>4. shown' \in Shown
      BY <2>1 DEF Pose, Shown, TrackerStates
    <2> QED
      BY <2>3, <2>4 DEF DeviceTypeOK
  <1> QED
    BY <1>1 DEF Submit, DeviceTypeOK

\* The tracker and what is shown of it keep their types.
LEMMA DeviceTypes == TrackersTypeOK /\ [TrackersNext]_trackerVars => DeviceTypeOK'
  <1> SUFFICES ASSUME TrackersTypeOK, [TrackersNext]_trackerVars PROVE DeviceTypeOK'
    OBVIOUS
  <1>0. /\ DeviceTypeOK /\ universe_ \in Spaces \cup {NoSpace}
        /\ Activated => tracker \in TrackerStates
    BY TypeParts DEF RestTypeOK, DeviceTypeOK, Activated
  <1>1. CASE Activate
    <2>1. tracker \in TrackerStates /\ shown' = shown /\ 0 \in 0 .. Timeout + 1
          /\ tracker' = [tracker EXCEPT !.state = "active", !.age = 0]
      BY <1>0, <1>1, ConstantTypes DEF Activate, DeviceUnchanged, DeviceTypeOK
    <2>2. tracker' \in TrackerStates
      BY <2>1 DEF TrackerStates
    <2> QED
      BY <1>0, <2>1, <2>2 DEF DeviceTypeOK
  <1>2. CASE Deactivate
    <2>1. tracker \in TrackerStates /\ shown' = shown
          /\ tracker' = [tracker EXCEPT !.state = "gone"]
      BY <1>0, <1>2 DEF Deactivate, DeviceUnchanged
    <2>2. tracker' \in TrackerStates
      BY <2>1 DEF TrackerStates
    <2> QED
      BY <1>0, <2>1, <2>2 DEF DeviceTypeOK
  <1>3. CASE AddTracker
    BY <1>0, <1>3, ConstantTypes DEF AddTracker, DeviceTypeOK
  <1>4. ASSUME NEW s \in Spaces \cup {NoSpace}, OnPosition(s) PROVE DeviceTypeOK'
    <2>1. ASSUME Activated PROVE Moved(tracker, s) \in TrackerStates
      BY <1>0, <2>1 DEF Moved, TrackerStates
    <2>2. ASSUME NEW t \in TrackerStates PROVE Revived(t) \in TrackerStates
      BY ConstantTypes DEF Revived, TrackerStates
    <2>3. ASSUME NEW t \in TrackerStates PROVE Converted(t) \in TrackerStates
      BY <1>0 DEF Converted, TrackerStates
    <2> QED
      BY <1>0, <1>4, <2>1, <2>2, <2>3, SubmitTypes DEF OnPosition
  <1>5. ASSUME NEW s \in Reports, OnStatus(s) PROVE DeviceTypeOK'
    <2>1. ASSUME Activated
          PROVE  [tracker EXCEPT !.status = s, !.timed_out = FALSE] \in TrackerStates
      BY <1>0, <2>1 DEF TrackerStates
    <2> QED
      BY <1>0, <1>5, <2>1, SubmitTypes DEF OnStatus
  <1>6. CASE CheckTimeout
    <2> DEFINE t == [tracker EXCEPT !.status = "DISCONNECTED", !.timed_out = TRUE]
    <2>1. ASSUME Activated PROVE t \in TrackerStates
      BY <1>0, <2>1, ConstantTypes DEF TrackerStates
    <2>2. Submit(t) \/ UNCHANGED <<tracker, shown>>
      BY <1>6 DEF CheckTimeout
    <2> HIDE DEF t
    <2>3. CASE Submit(t)
      BY <1>0, <2>1, <2>3, SubmitTypes
    <2> QED
      BY <1>0, <2>2, <2>3 DEF DeviceTypeOK
  <1>7. CASE Tick
    <2>1. /\ shown' = shown
          /\ tracker' = IF tracker = None THEN None
                        ELSE [tracker EXCEPT !.age = Older(@)]
      BY <1>7 DEF Tick, EnvUnchanged
    <2>2. ASSUME NEW age \in 0 .. Timeout + 1 PROVE Older(age) \in 0 .. Timeout + 1
      BY ConstantTypes DEF Older
    <2>3. ASSUME tracker # None PROVE tracker' \in TrackerStates
      BY <1>0, <2>1, <2>2, <2>3 DEF DeviceTypeOK, TrackerStates
    <2> QED
      BY <1>0, <2>1, <2>3 DEF DeviceTypeOK
  <1>8. CASE UNCHANGED <<tracker, shown>>
    BY <1>0, <1>8 DEF DeviceTypeOK
  <1>9. CASE BeginFrame \/ CheckTooSoon \/ NoUniverse
    BY <1>8, <1>9 DEF BeginFrame, CheckTooSoon, NoUniverse
  <1>10. ASSUME NEW s, NEW ok, UpdateUniverse(s, ok) PROVE DeviceTypeOK'
    BY <1>8, <1>10 DEF UpdateUniverse
  <1>11. ASSUME NEW m, Receive(m) PROVE DeviceTypeOK'
    BY <1>8, <1>11 DEF Receive, EnvUnchanged
  <1>12. CASE AppHears \/ Reconnect \/ UNCHANGED trackerVars
    BY <1>8, <1>12 DEF AppHears, Reconnect, EnvUnchanged, trackerVars
  <1> QED
    BY <1>1, <1>2, <1>3, <1>4, <1>5, <1>6, <1>7, <1>9, <1>10, <1>11, <1>12
       DEF TrackersNext, Frame

\* The frame, the play space and time keep their types.
LEMMA RestTypes == TrackersTypeOK /\ [TrackersNext]_trackerVars => RestTypeOK'
  <1> SUFFICES ASSUME TrackersTypeOK, [TrackersNext]_trackerVars PROVE RestTypeOK'
    OBVIOUS
  <1> USE DEF FrameUnchanged, EnvUnchanged, DeviceUnchanged
  <1>0. RestTypeOK /\ L!LinkTypeOK /\ Timeout \in Nat
    BY TypeParts, ConstantTypes
  <1>1. CASE BeginFrame
    <2>1. fpc' \in {"inbox", "alone"}
          /\ UNCHANGED <<universe_, heard, checked, silence>>
      BY <1>1 DEF BeginFrame
    <2>2. [n \in 1 .. Len(queue) |-> queue[n].msg] \in Seq(InMsgs)
      <3>1. queue \in Seq(L!Entries) /\ Len(queue) \in Nat
        BY <1>0 DEF L!LinkTypeOK
      <3>2. \A n \in 1 .. Len(queue) : queue[n] \in L!Entries
        BY <3>1
      <3>3. \A e \in L!Entries : e.msg \in InMsgs
        BY DEF L!Entries
      <3> QED
        BY <3>1, <3>2, <3>3
    <2>3. inbox_' \in Seq(InMsgs)
      BY <1>0, <1>1, <2>2 DEF BeginFrame, RestTypeOK
    <2> QED
      BY <1>0, <2>1, <2>3 DEF RestTypeOK
  <1>2. ASSUME NEW m, Handle(m) PROVE RestTypeOK'
    BY <1>0, <1>2 DEF Handle, RestTypeOK
  <1>3. CASE AddTracker
    BY <1>2, <1>3 DEF AddTracker
  <1>4. ASSUME NEW s, OnPosition(s) \/ OnStatus(s) PROVE RestTypeOK'
    BY <1>2, <1>4 DEF OnPosition, OnStatus
  <1>5. CASE CheckTimeout \/ CheckTooSoon \/ NoUniverse
    BY <1>0, <1>5 DEF CheckTimeout, CheckTooSoon, NoUniverse, AfterTimeouts, RestTypeOK
  <1>6. ASSUME NEW s \in Spaces, NEW ok, UpdateUniverse(s, ok) PROVE RestTypeOK'
    BY <1>0, <1>6 DEF UpdateUniverse, RestTypeOK
  <1>7. CASE Activate \/ Deactivate
    BY <1>0, <1>7 DEF Activate, Deactivate, RestTypeOK
  <1>8. ASSUME NEW m, Receive(m) PROVE RestTypeOK'
    BY <1>0, <1>8 DEF Receive, RestTypeOK
  <1>9. CASE AppHears
    <2>1. "uch" \in Kinds /\ out \in [Kinds -> Values \cup {None}]
      BY <1>0 DEF Kinds, L!LinkTypeOK
    <2>2. out["uch"] \in Spaces
      BY <1>9, <2>1 DEF AppHears, Values
    <2> QED
      BY <1>0, <1>9, <2>2 DEF AppHears, RestTypeOK
  <1>10. CASE Tick
    <2>1. silence' \in 0 .. Timeout + 1
      BY <1>0, <1>10 DEF Tick, Older, RestTypeOK
    <2> QED
      BY <1>0, <1>10, <2>1 DEF Tick, RestTypeOK
  <1>11. CASE Reconnect \/ UNCHANGED trackerVars
    BY <1>0, <1>11 DEF Reconnect, trackerVars, RestTypeOK
  <1> QED
    BY <1>1, <1>3, <1>4, <1>5, <1>6, <1>7, <1>8, <1>9, <1>10, <1>11
       DEF TrackersNext, Frame

\* The types hold initially.
LEMMA TrackersStart == TrackersInit => TrackersTypeOK
  <1> SUFFICES ASSUME TrackersInit PROVE TrackersTypeOK
    OBVIOUS
  <1>1. /\ phase = "down" /\ gen = 0 /\ out = L!Nothing /\ torn = FALSE
        /\ queue = << >>
    BY DEF TrackersInit, L!LinkInit
  <1>2. torn \in BOOLEAN
    BY <1>1
  <1>3. queue \in Seq(L!Entries)
    BY <1>1
  <1>4. L!LinkTypeOK
    BY <1>1, <1>2, <1>3, NothingType DEF L!LinkTypeOK
  <1>5. DeviceTypeOK
    BY DEF TrackersInit, DeviceTypeOK
  <1>6. RestTypeOK
    <2>1. << >> \in Seq(InMsgs) /\ 0 \in 0 .. Timeout + 1
      BY ConstantTypes
    <2>2. checked \in BOOLEAN
      BY DEF TrackersInit
    <2> QED
      BY <2>1, <2>2 DEF TrackersInit, RestTypeOK
  <1> QED
    BY <1>4, <1>5, <1>6, TypeParts

\* Every step keeps them.
LEMMA TrackersKeep == TrackersTypeOK /\ [TrackersNext]_trackerVars => TrackersTypeOK'
  <1> SUFFICES ASSUME TrackersTypeOK, [TrackersNext]_trackerVars PROVE TrackersTypeOK'
    OBVIOUS
  <1>1. L!LinkTypeOK /\ [L!LinkNext]_linkVars
    BY TypeParts, LinkStep
  <1>2. L!LinkTypeOK' /\ DeviceTypeOK' /\ RestTypeOK'
    BY <1>1, LinkTypes, DeviceTypes, RestTypes
  <1> QED
    BY <1>2 DEF TrackersTypeOK, DeviceTypeOK, RestTypeOK, TrackerStates

\* Every variable keeps its type, for any statuses, play spaces and connections.
THEOREM TrackersTypes == TrackersSpec => []TrackersTypeOK
  BY TrackersStart, TrackersKeep, PTL DEF TrackersSpec

\* RunFrame uses the connection as Link allows, whatever the app and
\* SteamVR do.
THEOREM UsesLink == TrackersSpec => L!LinkSpec
  <1>1. TrackersInit => L!LinkInit
    BY DEF TrackersInit
  <1> QED
    BY <1>1, LinkStep, PTL DEF TrackersSpec, L!LinkSpec

(***************************************************************************)
(* Silence.                                                                *)
(***************************************************************************)

\* A message that a frame takes from its inbox.
LEMMA HandleStep ==
  ASSUME TrackersTypeOK, ReadInv, NEW m, Handle(m)
  PROVE  /\ fpc = "inbox"
         /\ UNCHANGED <<phase, gen, queue, fpc, checked, silence>>
         /\ AMessage(inbox_') => AMessage(inbox_)
         /\ m # Added => silence <= 1
         /\ ReadInv'
  <1>1. /\ inbox_ \in Seq(InMsgs) /\ inbox_ # << >> /\ m = Head(inbox_)
        /\ inbox_' = Tail(inbox_) /\ fpc = "inbox"
        /\ UNCHANGED <<phase, gen, queue, fpc, checked, silence>>
    BY TypeParts DEF Handle, FrameUnchanged, RestTypeOK
  <1>2. /\ Len(inbox_) \in Nat \ {0} /\ Len(inbox_') = Len(inbox_) - 1
        /\ \A n \in 1 .. Len(inbox_') : inbox_'[n] = inbox_[n + 1]
        /\ m = inbox_[1]
    BY <1>1
  <1>3. AMessage(inbox_') => AMessage(inbox_)
    BY <1>2 DEF AMessage
  <1>4. m # Added => AMessage(inbox_)
    BY <1>2 DEF AMessage
  <1>5. AMessageWaits' => AMessageWaits
    BY <1>1 DEF AMessageWaits
  <1> QED
    BY <1>1, <1>3, <1>4, <1>5 DEF ReadInv

\* When a message is read, in the tick it arrives in or in the next.
LEMMA ReadStep ==
  TrackersTypeOK /\ NothingLeftOver /\ ReadInv /\ [TrackersNext]_trackerVars => ReadInv'
  <1> SUFFICES ASSUME TrackersTypeOK, NothingLeftOver, ReadInv,
                      [TrackersNext]_trackerVars
               PROVE  ReadInv'
    OBVIOUS
  <1> USE DEF FrameUnchanged, EnvUnchanged, DeviceUnchanged
  <1>0. /\ RestTypeOK /\ Timeout \in Nat /\ gen \in Nat /\ queue \in Seq(L!Entries)
        /\ silence \in Nat
    <2>1. RestTypeOK /\ L!LinkTypeOK /\ Timeout \in Nat
      BY TypeParts, ConstantTypes
    <2> QED
      BY <2>1 DEF RestTypeOK, L!LinkTypeOK
  <1>1. CASE BeginFrame
    <2>1. CASE phase = "up"
      <3>1. /\ UNCHANGED <<checked, silence>> /\ queue' = << >> /\ fpc' = "inbox"
            /\ inbox_' = [n \in 1 .. Len(queue) |-> queue[n].msg]
        BY <1>1, <2>1 DEF BeginFrame, L!Drain
      <3>2. AMessage(inbox_') => AMessageWaits
        BY <1>0, <3>1 DEF AMessage, AMessageWaits
      <3>3. ~AMessageWaits'
        BY <3>1 DEF AMessageWaits
      <3> QED
        BY <1>0, <2>1, <3>1, <3>2, <3>3 DEF ReadInv
    <2>2. CASE phase # "up"
      <3>1. UNCHANGED <<phase, queue, inbox_, checked, silence>> /\ fpc = "idle"
        BY <1>1, <2>2 DEF BeginFrame
      <3> QED
        BY <2>2, <3>1 DEF ReadInv, AMessage
    <2> QED
      BY <2>1, <2>2
  <1>2. ASSUME NEW s, AddTracker \/ OnPosition(s) \/ OnStatus(s) PROVE ReadInv'
    BY <1>2, HandleStep DEF AddTracker, OnPosition, OnStatus
  <1>3. CASE CheckTimeout \/ CheckTooSoon
    <2>1. /\ UNCHANGED <<phase, queue, inbox_, silence>> /\ inbox_ = << >>
          /\ fpc \in {"alone", "inbox"}
      BY <1>3 DEF CheckTimeout, CheckTooSoon, ChecksNext, ReadInv
    <2> QED
      BY <1>0, <2>1 DEF ReadInv, AMessage, AMessageWaits
  <1>4. ASSUME NEW s, NEW ok, UpdateUniverse(s, ok) \/ NoUniverse PROVE ReadInv'
    <2>1. /\ UNCHANGED <<phase, queue, inbox_, silence>> /\ fpc = "universe"
      BY <1>4 DEF UpdateUniverse, NoUniverse, L!Send, L!Deliver, L!Drop, L!Tear
    <2> QED
      BY <1>0, <2>1 DEF ReadInv, AMessage, AMessageWaits
  <1>5. CASE Activate \/ Deactivate
    <2>1. UNCHANGED <<phase, queue, inbox_, fpc, checked>> /\ silence' \in {0, silence}
      BY <1>5 DEF Activate, Deactivate
    <2> QED
      BY <1>0, <2>1 DEF ReadInv, AMessage, AMessageWaits
  <1>6. ASSUME NEW m \in InMsgs, Receive(m) PROVE ReadInv'
    <2>1. /\ UNCHANGED <<phase, fpc, inbox_, checked>>
          /\ queue' = Append(queue, [gen |-> gen, msg |-> m])
          /\ silence' = IF m = Added THEN silence ELSE 0
      BY <1>6 DEF Receive, L!Receive
    <2>2. m = Added => (AMessageWaits' => AMessageWaits)
      BY <1>0, <2>1 DEF AMessageWaits
    <2> QED
      BY <1>0, <2>1, <2>2 DEF ReadInv, AMessage
  <1>7. CASE Tick
    <2>1. /\ UNCHANGED <<phase, queue, inbox_, fpc>> /\ fpc = "idle"
          /\ checked /\ ~checked' /\ silence' = Older(silence)
      BY <1>7 DEF Tick
    <2>2. inbox_' = << >> /\ ~AMessage(inbox_')
      BY <1>0, <2>1 DEF ReadInv, AMessage
    <2>3. AMessageWaits' /\ phase' = "up" => silence' = 1
      BY <1>0, <2>1 DEF ReadInv, AMessageWaits, Older
    <2> QED
      BY <2>1, <2>2, <2>3 DEF ReadInv
  <1>8. CASE Reconnect
    <2>1. UNCHANGED <<queue, fpc, inbox_, checked, silence>>
      BY <1>8 DEF Reconnect, L!Announce, L!Publish, L!Hangup
    <2>2. phase' = "up" => ~AMessageWaits
      BY <1>8 DEF Reconnect, L!Announce, L!Publish, L!Hangup, NothingLeftOver
    <2> QED
      BY <1>0, <2>1, <2>2 DEF ReadInv, AMessage, AMessageWaits
  <1>9. CASE AppHears \/ UNCHANGED trackerVars
    BY <1>9 DEF AppHears, trackerVars, ReadInv, AMessage, AMessageWaits
  <1> QED
    BY <1>1, <1>2, <1>3, <1>4, <1>5, <1>6, <1>7, <1>8, <1>9 DEF TrackersNext, Frame

\* Submitting a tracker, for a message that has just been read.
LEMMA SubmitStep ==
  ASSUME TrackersTypeOK, AgeInv, SilentDisconnects, silence <= 1,
         UNCHANGED <<silence, checked>>, NEW t, Submit(t),
         Activated => t \in TrackerStates
  PROVE  AgeInv' /\ SilentDisconnects'
  <1>0. silence \in Nat /\ Timeout \in Nat \ {0}
    BY TypeParts, ConstantTypes DEF RestTypeOK
  <1>1. SilentDisconnects'
    BY <1>0 DEF SilentDisconnects
  <1>2. CASE Activated
    <2>1. tracker' = [t EXCEPT !.age = 0] /\ t \in TrackerStates
      BY <1>2 DEF Submit
    <2>2. tracker'.age = 0
      BY <2>1 DEF TrackerStates
    <2> QED
      BY <1>0, <1>1, <2>2 DEF AgeInv
  <1>3. CASE ~Activated
    BY <1>1, <1>3 DEF Submit, AgeInv, Activated
  <1> QED
    BY <1>2, <1>3

\* A check of time-outs disconnects a tracker that is silent.
LEMMA CheckStep ==
  ASSUME TrackersTypeOK, AgeInv, SilentDisconnects, CheckTimeout
  PROVE  AgeInv' /\ SilentDisconnects'
  <1>0. /\ silence \in 0 .. Timeout + 1 /\ Timeout \in Nat \ {0}
        /\ Activated => tracker \in TrackerStates
        /\ silence' = silence
    BY TypeParts, ConstantTypes
       DEF RestTypeOK, DeviceTypeOK, Activated, CheckTimeout, FrameUnchanged
  <1>1. CASE Silent
    <2>1. /\ tracker \in TrackerStates
          /\ shown' = Pose([tracker EXCEPT !.status = "DISCONNECTED", !.timed_out = TRUE])
      BY <1>0, <1>1 DEF CheckTimeout, Silent, Submit
    <2>2. shown'.status = "DISCONNECTED" /\ shown' \in Shown
      BY <2>1, ConstantTypes DEF Pose, Shown, TrackerStates
    <2>3. Disconnected'
      BY <2>2, ConstantTypes DEF Disconnected
    <2> QED
      BY <2>3 DEF AgeInv, SilentDisconnects, Disconnected
  <1>2. CASE ~Silent
    <2>1. UNCHANGED <<tracker, shown>>
      BY <1>2 DEF CheckTimeout
    <2>2. AgeInv'
      BY <1>0, <2>1 DEF AgeInv, Activated, Disconnected
    <2>3. ASSUME Activated, silence > Timeout PROVE Disconnected
      <3>1. tracker.age \in 0 .. Timeout + 1 /\ ~(tracker.age >= Timeout)
        BY <1>0, <1>2, <2>3 DEF Silent, TrackerStates
      <3> QED
        BY <1>0, <2>3, <3>1 DEF AgeInv
    <2> QED
      BY <1>0, <2>1, <2>2, <2>3 DEF SilentDisconnects, Activated, Disconnected
  <1> QED
    BY <1>1, <1>2

\* An active tracker is as old as its last message, or disconnected.
LEMMA AgeStep ==
  TrackersTypeOK /\ ReadInv /\ AgeInv /\ SilentDisconnects
      /\ [TrackersNext]_trackerVars => AgeInv' /\ SilentDisconnects'
  <1> SUFFICES ASSUME TrackersTypeOK, ReadInv, AgeInv, SilentDisconnects,
                      [TrackersNext]_trackerVars
               PROVE  AgeInv' /\ SilentDisconnects'
    OBVIOUS
  <1>0. /\ silence \in 0 .. Timeout + 1 /\ Timeout \in Nat \ {0}
        /\ Activated => tracker \in TrackerStates
    BY TypeParts, ConstantTypes DEF RestTypeOK, DeviceTypeOK, Activated
  <1>1. CASE UNCHANGED <<tracker, shown, checked, silence>>
    BY <1>1 DEF AgeInv, SilentDisconnects, Activated, Disconnected
  <1>2. ASSUME NEW s \in Spaces \cup {NoSpace}, OnPosition(s)
        PROVE  AgeInv' /\ SilentDisconnects'
    <2> DEFINE t == Converted(Revived(Moved(tracker, s)))
    <2>1. ASSUME Activated PROVE t \in TrackerStates
      <3>1. Moved(tracker, s) \in TrackerStates
        BY <1>0, <2>1 DEF Moved, TrackerStates
      <3>2. Revived(Moved(tracker, s)) \in TrackerStates
        BY <3>1, ConstantTypes DEF Revived, TrackerStates
      <3>3. universe_ \in Spaces \cup {NoSpace}
        BY TypeParts DEF RestTypeOK
      <3> QED
        BY <3>2, <3>3 DEF Converted, TrackerStates
    <2>2. Position(s).kind = "position" /\ Added.kind = "tracker_added"
      BY DEF Position, Added
    <2>3. Handle(Position(s)) /\ Submit(t) /\ Position(s) # Added
      BY <1>2, <2>2 DEF OnPosition
    <2> HIDE DEF t
    <2> QED
      BY <2>1, <2>3, HandleStep, SubmitStep
  <1>3. ASSUME NEW s \in Reports, OnStatus(s) PROVE AgeInv' /\ SilentDisconnects'
    <2> DEFINE t == [tracker EXCEPT !.status = s, !.timed_out = FALSE]
    <2>1. ASSUME Activated PROVE t \in TrackerStates
      BY <1>0, <2>1 DEF TrackerStates
    <2>2. Status(s).kind = "tracker_status" /\ Added.kind = "tracker_added"
      BY DEF Status, Added
    <2>3. Handle(Status(s)) /\ Submit(t) /\ Status(s) # Added
      BY <1>3, <2>2 DEF OnStatus
    <2> HIDE DEF t
    <2> QED
      BY <2>1, <2>3, HandleStep, SubmitStep
  <1>4. CASE AddTracker
    <2>1. /\ UNCHANGED <<shown, checked, silence>>
          /\ tracker' \in IF tracker = None THEN {None, NewTracker} ELSE {tracker}
      BY <1>4, HandleStep DEF AddTracker
    <2>2. NewTracker.state # "active"
      BY DEF NewTracker
    <2>3. Activated' => tracker' = tracker
      BY <2>1, <2>2 DEF Activated
    <2> QED
      BY <2>1, <2>3 DEF AgeInv, SilentDisconnects, Activated, Disconnected
  <1>5. CASE Activate
    <2>1. /\ silence' = 0
      BY <1>5 DEF Activate
    <2>2. tracker'.age = 0
      <3>1. tracker \in TrackerStates
        BY <1>5, TypeParts DEF Activate, DeviceTypeOK
      <3> QED
        BY <1>5, <3>1 DEF Activate, TrackerStates
    <2> QED
      BY <1>0, <2>1, <2>2 DEF AgeInv, SilentDisconnects
  <1>6. CASE Deactivate
    <2>1. ~Activated'
      <3>1. tracker \in TrackerStates
        BY <1>0, <1>6 DEF Deactivate
      <3> QED
        BY <1>6, <3>1 DEF Deactivate, Activated, TrackerStates
    <2> QED
      BY <2>1 DEF AgeInv, SilentDisconnects
  <1>7. ASSUME NEW m, Receive(m) PROVE AgeInv' /\ SilentDisconnects'
    <2>1. UNCHANGED <<tracker, shown, checked>> /\ silence' \in {0, silence}
      BY <1>7 DEF Receive, EnvUnchanged
    <2>2. Activated => tracker.age \in Nat
      BY <1>0 DEF TrackerStates
    <2> QED
      BY <1>0, <2>1, <2>2 DEF AgeInv, SilentDisconnects, Activated, Disconnected
  <1>8. CASE Tick
    <2>1. /\ ~checked' /\ shown' = shown /\ silence' = Older(silence)
          /\ tracker' = IF tracker = None THEN None
                        ELSE [tracker EXCEPT !.age = Older(@)]
      BY <1>8 DEF Tick, EnvUnchanged
    <2>2. ASSUME Activated' PROVE /\ Activated
                                  /\ tracker'.age = Older(tracker.age)
                                  /\ tracker.age \in 0 .. Timeout + 1
      <3>1. tracker \in TrackerStates
        BY <2>1, <2>2, TypeParts DEF Activated, DeviceTypeOK
      <3>2. tracker # None
        BY <2>1, <2>2 DEF Activated
      <3> QED
        BY <2>1, <2>2, <3>1, <3>2 DEF Activated, TrackerStates
    <2>3. ASSUME NEW age \in 0 .. Timeout + 1, silence <= age + 1
          PROVE  Older(silence) <= Older(age) + 1
      BY <1>0, <2>3 DEF Older
    <2>4. Disconnected => Disconnected'
      BY <2>1 DEF Disconnected
    <2> QED
      BY <2>1, <2>2, <2>3, <2>4 DEF AgeInv, SilentDisconnects
  <1>9. ASSUME NEW s, NEW ok, BeginFrame \/ CheckTooSoon \/ NoUniverse
                              \/ UpdateUniverse(s, ok)
        PROVE  AgeInv' /\ SilentDisconnects'
    BY <1>1, <1>9 DEF BeginFrame, CheckTooSoon, NoUniverse, UpdateUniverse, FrameUnchanged
  <1>10. CASE AppHears \/ Reconnect \/ UNCHANGED trackerVars
    BY <1>1, <1>10 DEF AppHears, Reconnect, EnvUnchanged, trackerVars
  <1> QED
    BY <1>2, <1>3, <1>4, <1>5, <1>6, <1>7, <1>8, <1>9, <1>10, CheckStep
       DEF TrackersNext, Frame

\* "If a tracker doesn't get a position or status for about 3 s, it is reported
\* as disconnected" (protocol.md): so it is, by CheckTimeout, over any number of
\* connections, as long as none of them finds messages left over from the one
\* before.  It need not be when one does, since what is left in the queue of
\* BridgeClient is read as if it were new (as in the run walk_reconnected).
THEOREM Disconnects == TrackersSpec /\ []NothingLeftOver => []SilentDisconnects
  <1>1. TrackersInit => SilenceInv
    <2> SUFFICES ASSUME TrackersInit PROVE SilenceInv
      OBVIOUS
    <2>1. queue = << >> /\ inbox_ = << >> /\ tracker = None
      BY DEF TrackersInit, L!LinkInit
    <2> QED
      BY <2>1 DEF SilenceInv, ReadInv, AgeInv, SilentDisconnects, AMessage,
                  AMessageWaits, Activated
  <1>2. TrackersTypeOK /\ NothingLeftOver /\ SilenceInv /\ [TrackersNext]_trackerVars
            => SilenceInv'
    BY ReadStep, AgeStep DEF SilenceInv
  <1>3. SilenceInv => SilentDisconnects
    BY DEF SilenceInv
  <1> QED
    BY <1>1, <1>2, <1>3, TrackersTypes, PTL DEF TrackersSpec

\* No message is left over while the app connects once only, as in the run devices.
THEOREM FirstConnection == TrackersSpec /\ [](gen <= 1) => []NothingLeftOver
  <1> DEFINE Before == /\ gen = 0 => phase = "down"
                       /\ gen = 0 \/ phase = "announced" => queue = << >>
             Once   == gen <= 1
  <1>1. TrackersInit => Before
    BY DEF TrackersInit, L!LinkInit
  <1>2. TrackersTypeOK /\ Before /\ Once' /\ [TrackersNext]_trackerVars => Before'
    <2> SUFFICES ASSUME TrackersTypeOK, Before, Once', [TrackersNext]_trackerVars
                 PROVE  Before'
      OBVIOUS
    <2>0. gen \in Nat /\ queue \in Seq(L!Entries) /\ [L!LinkNext]_linkVars
      BY LinkStep, TypeParts DEF L!LinkTypeOK
    <2>1. CASE L!Announce
      <3>1. gen = 0
        BY <2>0, <2>1 DEF L!Announce
      <3> QED
        BY <2>0, <2>1, <3>1 DEF L!Announce
    <2>2. CASE L!Publish \/ L!Hangup \/ L!Drain \/ L!Tear \/ UNCHANGED linkVars
      BY <2>2 DEF L!Publish, L!Hangup, L!Drain, L!Tear
    <2>3. ASSUME NEW m \in InMsgs, L!Receive(m) PROVE Before'
      BY <2>0, <2>3 DEF L!Receive
    <2>4. ASSUME NEW k, NEW v, L!Deliver(k, v) PROVE Before'
      BY <2>4 DEF L!Deliver
    <2> QED
      BY <2>0, <2>1, <2>2, <2>3, <2>4 DEF L!LinkNext
  <1>3. Before => NothingLeftOver
    BY DEF NothingLeftOver, AMessageWaits
  <1> HIDE DEF Before
  <1>4. [](gen <= 1) => []Once
    BY PTL
  <1> HIDE DEF Once
  <1> QED
    BY <1>1, <1>2, <1>3, <1>4, TrackersTypes, PTL DEF TrackersSpec

(***************************************************************************)
(* Hand poses.                                                             *)
(***************************************************************************)

PCs == {"idle", "enabled", "match", "lock", "replace", "forward"}

Calls == [pc : PCs, n : 1 .. 2]

Writing == at \in {"rotation", "world"}

HookTypeOK ==
    /\ vtable \in {"hook", "original"}
    /\ installed_ \in BOOLEAN /\ enabled \in BOOLEAN
    /\ device_index \in [Sides -> Devices \cup {NoDevice}]
    /\ call \in [Devices -> Calls]
    /\ given \in [Devices -> {OwnPose} \cup (Sides \X Poses)]

PoseTypeOK ==
    /\ hand_pose \in [Sides -> Poses] /\ received \in [Sides -> Poses]
    /\ fresh \subseteq Sides
    /\ mutex \in [Sides -> {"free", "frame", "hook"}]
    /\ u \in (1 .. LastSpace) \cup {Own}
    /\ side \in [Devices -> Sides \cup {"other"}]

FrameTypeOK ==
    /\ at \in Sides \cup {"idle", "rotation", "world", "unpatch", "removed"}
    /\ Writing => arg \in HandMsgs
    /\ at \in Sides => arg \in [Sides -> Devices \cup {NoDevice}]

TypeInv == HookTypeOK /\ PoseTypeOK /\ FrameTypeOK

Replacing(d) == call[d].pc = "replace"
HandOf(d)    == Hand[call[d].n]

\* Who holds the mutex of a hand: the frame thread while it writes the pose of
\* that hand, or one hook that gives it to SteamVR.
LockInv ==
    /\ \A h \in Sides : mutex[h] = "frame" <=> Writing /\ arg.hand = h
    /\ \A d \in Devices : Replacing(d) => mutex[HandOf(d)] = "hook"
    /\ \A d, e \in Devices : Replacing(d) /\ Replacing(e) /\ HandOf(d) = HandOf(e) => d = e

\* How far the message in arg has been written into the pose p.
Written(p) == IF at = "rotation" THEN [p EXCEPT !.position = Or(arg.pos, @)]
              ELSE [p EXCEPT !.position = Or(arg.pos, @), !.rotation = Or(arg.rot, @)]

\* The pose of a hand is what the messages make it, but for the one being written.
PoseInv ==
    \A h \in Sides :
        hand_pose[h] = IF Writing /\ arg.hand = h THEN Written(received[h]) ELSE received[h]

IInv == TypeInv /\ LockInv /\ PoseInv

(***************************************************************************)
(* Lemmas about the operators.                                             *)
(***************************************************************************)

\* A set of numbers has a least one.
LEMMA Least ==
  ASSUME NEW T \in SUBSET Nat, T # {}
  PROVE  \E m \in T : \A n \in T : m <= n
  <1> DEFINE R == {ss \in Nat \X Nat : ss[1] < ss[2]}
  <1>1. IsWellFoundedOn(R, Nat)
    BY NatLessThanWellFounded DEF OpToRel
  <1>2. \A x, y \in Nat : x < y => <<x, y>> \in R
    OBVIOUS
  <1> HIDE DEF R
  <1>3. PICK x \in T : \A y \in T : ~(<<y, x>> \in R)
    BY <1>1, WFMin
  <1>4. ASSUME NEW n \in T PROVE x <= n
    <2>1. n \in Nat /\ x \in Nat /\ ~(n < x)
      BY <1>2, <1>3
    <2> QED
      BY <2>1
  <1> QED
    BY <1>4

\* The device found for a hand has the role of that hand.
LEMMA FoundHolds ==
  ASSUME NEW h
  PROVE  /\ Found(h) \in Devices \cup {NoDevice}
         /\ Found(h) # NoDevice => side[Found(h)] = h
  <1>1. CASE Holders(h) # {}
    <2>1. Holders(h) \in SUBSET Nat
      BY HandsAssumption DEF Holders
    <2>2. \E d \in Holders(h) : \A e \in Holders(h) : d <= e
      BY <1>1, <2>1, Least
    <2>3. First(Holders(h)) \in Holders(h)
      BY <2>2 DEF First
    <2> QED
      BY <1>1, <2>3 DEF Found, Holders
  <1> QED
    BY <1>1 DEF Found

\* The hand a call has got to.
LEMMA HandInSides == ASSUME NEW c \in Calls PROVE Hand[c.n] \in Sides
  <1>1. c.n = 1 \/ c.n = 2
    BY DEF Calls
  <1> QED
    BY <1>1 DEF Hand, Sides

\* A message replaces what it has and leaves the rest.
LEMMA PoseTypes ==
  ASSUME NEW m \in HandMsgs, NEW p \in Poses, u \in (1 .. LastSpace) \cup {Own}
  PROVE  /\ m.hand \in Sides
         /\ [p EXCEPT !.position = Or(m.pos, @)] \in Poses
         /\ [p EXCEPT !.rotation = Or(m.rot, @)] \in Poses
         /\ [p EXCEPT !.world = Or(u, @)] \in Poses
         /\ After(m, p) \in Poses
  <1>1. m.hand \in Sides
    BY HandsAssumption
  <1>2. Or(m.pos, p.position) \in {x.pos : x \in HandMsgs} \cup {Own}
    BY DEF Or, Poses
  <1>3. Or(m.rot, p.rotation) \in {x.rot : x \in HandMsgs} \cup {Own}
    BY DEF Or, Poses
  <1>4. Or(u, p.world) \in (1 .. LastSpace) \cup {Own}
    BY DEF Or, Poses
  <1>5. [p EXCEPT !.position = Or(m.pos, @)] \in Poses
    BY <1>2 DEF Poses
  <1>6. [p EXCEPT !.rotation = Or(m.rot, @)] \in Poses
    BY <1>3 DEF Poses
  <1>7. [p EXCEPT !.world = Or(u, @)] \in Poses
    BY <1>4 DEF Poses
  <1>8. After(m, p) \in Poses
    BY <1>2, <1>3, <1>4 DEF Poses, After
  <1> QED
    BY <1>1, <1>5, <1>6, <1>7, <1>8

(***************************************************************************)
(* The types.                                                              *)
(***************************************************************************)

\* What the hook's threads and the frame thread share with SteamVR.
LEMMA HookTypes == TypeInv /\ [HandsNext]_handVars => HookTypeOK'
  <1> SUFFICES ASSUME TypeInv, [HandsNext]_handVars PROVE HookTypeOK'
    OBVIOUS
  <1> USE DEF CallUnchanged, HandFrameUnchanged, Outside, hookState, poseState, frameAt
  <1>0. HookTypeOK /\ PoseTypeOK /\ FrameTypeOK
    BY DEF TypeInv
  <1>1. ASSUME NEW d \in Devices, NEW c \in Calls, call' = [call EXCEPT ![d] = c],
               UNCHANGED hookState,
               given' \in [Devices -> {OwnPose} \cup (Sides \X Poses)]
        PROVE  HookTypeOK'
    BY <1>0, <1>1 DEF HookTypeOK
  <1>2. IdleCall \in Calls
    BY DEF IdleCall, Calls, PCs
  <1>3. ASSUME NEW d \in Devices, NEW pc \in PCs, Goes(d, pc), UNCHANGED hookState,
               UNCHANGED given
        PROVE  HookTypeOK'
    <2>1. call[d] \in Calls /\ call' = [call EXCEPT ![d] = [call[d] EXCEPT !.pc = pc]]
      BY <1>0, <1>3 DEF HookTypeOK, Goes
    <2>2. [call[d] EXCEPT !.pc = pc] \in Calls
      BY <2>1 DEF Calls
    <2> QED
      BY <1>0, <1>1, <1>3, <2>1, <2>2 DEF HookTypeOK
  <1>4. ASSUME NEW d \in Devices, Returns(d), UNCHANGED hookState,
               given' = [given EXCEPT ![d] = OwnPose]
        PROVE  HookTypeOK'
    BY <1>0, <1>1, <1>2, <1>4 DEF Returns, HookTypeOK
  <1>5. ASSUME NEW d \in Devices, PoseUpdated(d) PROVE HookTypeOK'
    <2>1. CASE vtable = "hook"
      BY <1>3, <1>5, <2>1 DEF PoseUpdated, PCs
    <2>2. CASE vtable # "hook"
      BY <1>0, <1>5, <2>2 DEF PoseUpdated, HookTypeOK
    <2> QED
      BY <2>1, <2>2
  <1>6. ASSUME NEW d \in Devices, HookEnabled(d) PROVE HookTypeOK'
    BY <1>3, <1>6 DEF HookEnabled, PCs
  <1>7. ASSUME NEW d \in Devices, HookIndex(d) PROVE HookTypeOK'
    <2>1. CASE Goes(d, "lock") \/ Goes(d, "forward")
      BY <1>3, <1>7, <2>1 DEF HookIndex, PCs
    <2>2. CASE call' = [call EXCEPT ![d].n = @ + 1] /\ call[d].n # Len(Hand)
      <3>1. call[d] \in Calls
        BY <1>0 DEF HookTypeOK
      <3>2. call[d].n = 1
        BY <2>2, <3>1 DEF Calls, Hand
      <3>3. [call[d] EXCEPT !.n = 2] \in Calls
        BY <3>1 DEF Calls
      <3>4. call' = [call EXCEPT ![d] = [call[d] EXCEPT !.n = 2]]
        BY <2>2, <3>2
      <3> QED
        BY <1>0, <1>1, <1>7, <3>3, <3>4 DEF HookIndex, HookTypeOK
    <2> QED
      BY <1>7, <2>1, <2>2 DEF HookIndex
  <1>8. ASSUME NEW d \in Devices, HookLock(d) PROVE HookTypeOK'
    BY <1>3, <1>8 DEF HookLock, PCs
  <1>9. ASSUME NEW d \in Devices, HookReplace(d) PROVE HookTypeOK'
    <2>1. HandOf(d) \in Sides
      BY <1>0, HandInSides DEF HookTypeOK, HandOf
    <2>2. given' = [given EXCEPT ![d] = <<HandOf(d), hand_pose[HandOf(d)]>>]
      BY <1>9 DEF HookReplace, HandOf
    <2>3. given' \in [Devices -> {OwnPose} \cup (Sides \X Poses)]
      BY <1>0, <2>1, <2>2 DEF HookTypeOK, PoseTypeOK
    <2> QED
      BY <1>1, <1>2, <1>9, <2>3 DEF HookReplace, Returns
  <1>10. ASSUME NEW d \in Devices, HookPass(d) PROVE HookTypeOK'
    BY <1>4, <1>10 DEF HookPass
  <1>11. CASE StoreFound
    <2>1. arg[at] \in Devices \cup {NoDevice}
      BY <1>0, <1>11 DEF StoreFound, FrameTypeOK
    <2> QED
      BY <1>0, <1>11, <2>1 DEF StoreFound, HookTypeOK
  <1>12. CASE FindHandControllers \/ RemoveHook \/ Unpatch
    BY <1>0, <1>12 DEF FindHandControllers, RemoveHook, Unpatch, HookTypeOK
  <1>13. ASSUME NEW on \in BOOLEAN, SwitchReplacement(on) PROVE HookTypeOK'
    BY <1>0, <1>13 DEF SwitchReplacement, HookTypeOK
  <1>14. CASE UNCHANGED <<hookState, call, given>>
    BY <1>0, <1>14 DEF HookTypeOK
  <1>15. ASSUME NEW m, OnHandPose(m) \/ OnHandRotation \/ OnHandWorld PROVE HookTypeOK'
    BY <1>14, <1>15 DEF OnHandPose, OnHandRotation, OnHandWorld
  <1>16. ASSUME NEW d, NEW s, Expires(d) \/ SetSide(d, s) \/ NewSpace(s)
                              \/ UNCHANGED handVars
         PROVE  HookTypeOK'
    BY <1>14, <1>16 DEF Expires, SetSide, NewSpace, handVars
  <1> QED
    BY <1>5, <1>6, <1>7, <1>8, <1>9, <1>10, <1>11, <1>12, <1>13, <1>15, <1>16
       DEF HandsNext, HandStep, HookCall

\* The poses and who may use them.
LEMMA PosesTypes == TypeInv /\ [HandsNext]_handVars => PoseTypeOK'
  <1> SUFFICES ASSUME TypeInv, [HandsNext]_handVars PROVE PoseTypeOK'
    OBVIOUS
  <1> USE DEF CallUnchanged, HandFrameUnchanged, Outside, hookState, poseState, frameAt
  <1>0. HookTypeOK /\ PoseTypeOK /\ FrameTypeOK
    BY DEF TypeInv
  <1>1. ASSUME UNCHANGED <<hand_pose, fresh, received, u, side>>,
               mutex' \in [Sides -> {"free", "frame", "hook"}]
        PROVE  PoseTypeOK'
    BY <1>0, <1>1 DEF PoseTypeOK
  <1>2. mutex \in [Sides -> {"free", "frame", "hook"}]
    BY <1>0 DEF PoseTypeOK
  <1>3. ASSUME NEW d \in Devices,
               PoseUpdated(d) \/ HookEnabled(d) \/ HookIndex(d) \/ HookPass(d)
        PROVE  PoseTypeOK'
    BY <1>1, <1>2, <1>3 DEF PoseUpdated, HookEnabled, HookIndex, HookPass
  <1>4. ASSUME NEW d \in Devices, HookLock(d) PROVE PoseTypeOK'
    <2>1. mutex' = mutex \/ mutex' = [mutex EXCEPT ![Hand[call[d].n]] = "hook"]
      BY <1>4 DEF HookLock, Acquire
    <2> QED
      BY <1>1, <1>2, <1>4, <2>1 DEF HookLock
  <1>5. ASSUME NEW d \in Devices, HookReplace(d) PROVE PoseTypeOK'
    <2>1. mutex' = [mutex EXCEPT ![Hand[call[d].n]] = "free"]
      BY <1>5 DEF HookReplace
    <2> QED
      BY <1>1, <1>2, <1>5, <2>1 DEF HookReplace
  <1>6. ASSUME NEW m \in HandMsgs, OnHandPose(m) PROVE PoseTypeOK'
    <2>1. m.hand \in Sides /\ hand_pose[m.hand] \in Poses
      BY <1>0, HandsAssumption DEF PoseTypeOK
    <2>2. [hand_pose[m.hand] EXCEPT !.position = Or(m.pos, @)] \in Poses
      BY <1>0, <2>1, PoseTypes DEF PoseTypeOK
    <2>3. hand_pose' \in [Sides -> Poses]
          /\ mutex' \in [Sides -> {"free", "frame", "hook"}]
      BY <1>0, <1>6, <2>2 DEF OnHandPose, PoseTypeOK
    <2> QED
      BY <1>0, <1>6, <2>3 DEF OnHandPose, PoseTypeOK
  <1>7. CASE OnHandRotation
    <2>1. arg \in HandMsgs /\ hand_pose \in [Sides -> Poses]
      BY <1>0, <1>7 DEF OnHandRotation, FrameTypeOK, PoseTypeOK, Writing
    <2>2. arg.hand \in Sides /\ hand_pose[arg.hand] \in Poses
      BY <2>1, HandsAssumption
    <2>3. [hand_pose[arg.hand] EXCEPT !.rotation = Or(arg.rot, @)] \in Poses
      BY <1>0, <2>1, <2>2, PoseTypes DEF PoseTypeOK
    <2>4. hand_pose' \in [Sides -> Poses]
      BY <1>7, <2>1, <2>3 DEF OnHandRotation
    <2> QED
      BY <1>0, <1>7, <2>4 DEF OnHandRotation, PoseTypeOK
  <1>8. CASE OnHandWorld
    <2>1. arg \in HandMsgs /\ hand_pose \in [Sides -> Poses] /\ received \in [Sides -> Poses]
      BY <1>0, <1>8 DEF OnHandWorld, FrameTypeOK, PoseTypeOK, Writing
    <2>2. /\ arg.hand \in Sides
          /\ hand_pose[arg.hand] \in Poses /\ received[arg.hand] \in Poses
      BY <2>1, HandsAssumption
    <2>3. /\ [hand_pose[arg.hand] EXCEPT !.world = Or(u, @)] \in Poses
          /\ After(arg, received[arg.hand]) \in Poses
      BY <1>0, <2>1, <2>2, PoseTypes DEF PoseTypeOK
    <2>4. hand_pose' \in [Sides -> Poses]
      BY <1>8, <2>1, <2>3 DEF OnHandWorld
    <2>5. received' \in [Sides -> Poses]
      BY <1>8, <2>1, <2>3 DEF OnHandWorld
    <2>6. mutex' \in [Sides -> {"free", "frame", "hook"}] /\ fresh' \subseteq Sides
      BY <1>0, <1>8, <2>2 DEF OnHandWorld, PoseTypeOK
    <2> QED
      BY <1>0, <1>8, <2>4, <2>5, <2>6 DEF OnHandWorld, PoseTypeOK
  <1>9. ASSUME NEW on, StoreFound \/ Unpatch \/ FindHandControllers \/ RemoveHook
                       \/ SwitchReplacement(on) \/ UNCHANGED handVars
        PROVE  PoseTypeOK'
    BY <1>1, <1>2, <1>9 DEF StoreFound, Unpatch, FindHandControllers, RemoveHook,
       SwitchReplacement, handVars
  <1>10. ASSUME NEW h \in Sides, Expires(h) PROVE PoseTypeOK'
    BY <1>0, <1>10 DEF Expires, PoseTypeOK
  <1>11. ASSUME NEW d \in Devices, NEW s \in Sides \cup {"other"}, SetSide(d, s)
         PROVE  PoseTypeOK'
    BY <1>0, <1>11 DEF SetSide, PoseTypeOK
  <1>12. ASSUME NEW s \in 1 .. LastSpace, NewSpace(s) PROVE PoseTypeOK'
    BY <1>0, <1>12 DEF NewSpace, PoseTypeOK
  <1> QED
    BY <1>3, <1>4, <1>5, <1>6, <1>7, <1>8, <1>9, <1>10, <1>11, <1>12
       DEF HandsNext, HandStep, HookCall

\* Where the frame thread is, and with what.
LEMMA FrameTypes == TypeInv /\ [HandsNext]_handVars => FrameTypeOK'
  <1> SUFFICES ASSUME TypeInv, [HandsNext]_handVars PROVE FrameTypeOK'
    OBVIOUS
  <1> USE DEF CallUnchanged, HandFrameUnchanged, Outside, hookState, poseState, frameAt,
              Sides, Writing
  <1>0. HookTypeOK /\ PoseTypeOK /\ FrameTypeOK
    BY DEF TypeInv
  <1>1. CASE UNCHANGED frameAt
    BY <1>0, <1>1 DEF FrameTypeOK
  <1>2. ASSUME NEW d, PoseUpdated(d) \/ HookCall(d) PROVE FrameTypeOK'
    BY <1>1, <1>2 DEF PoseUpdated, HookCall, HookEnabled, HookIndex, HookLock,
       HookReplace, HookPass
  <1>3. ASSUME NEW h, NEW s, Expires(h) \/ SetSide(h, s) \/ NewSpace(s)
                             \/ SwitchReplacement(s) \/ UNCHANGED handVars
        PROVE  FrameTypeOK'
    BY <1>1, <1>3 DEF Expires, SetSide, NewSpace, SwitchReplacement, handVars
  <1>4. ASSUME NEW m \in HandMsgs, OnHandPose(m) PROVE FrameTypeOK'
    BY <1>4 DEF OnHandPose, FrameTypeOK
  <1>5. CASE OnHandRotation \/ OnHandWorld \/ RemoveHook \/ Unpatch
    BY <1>0, <1>5 DEF OnHandRotation, OnHandWorld, RemoveHook, Unpatch, FrameTypeOK
  <1>6. CASE StoreFound
    BY <1>0, <1>6 DEF StoreFound, FrameTypeOK
  <1>7. CASE FindHandControllers
    BY <1>7, FoundHolds DEF FindHandControllers, FrameTypeOK
  <1> QED
    BY <1>2, <1>3, <1>4, <1>5, <1>6, <1>7 DEF HandsNext, HandStep

(***************************************************************************)
(* The mutexes.                                                            *)
(***************************************************************************)

\* A mutex of a hand has one holder, through every step.
LEMMA LockStep == TypeInv /\ LockInv /\ [HandsNext]_handVars => LockInv'
  <1> SUFFICES ASSUME TypeInv, LockInv, [HandsNext]_handVars PROVE LockInv'
    OBVIOUS
  <1> USE DEF CallUnchanged, HandFrameUnchanged, Outside, hookState, poseState, frameAt
  <1>0. /\ call \in [Devices -> Calls] /\ mutex \in [Sides -> {"free", "frame", "hook"}]
        /\ \A d \in Devices : HandOf(d) \in Sides
        /\ \A m \in HandMsgs : m.hand \in Sides
        /\ Writing => arg \in HandMsgs
    BY HandInSides, HandsAssumption
       DEF TypeInv, HookTypeOK, PoseTypeOK, FrameTypeOK, HandOf
  <1>1. ASSUME UNCHANGED <<mutex, call>>, Writing' <=> Writing,
               Writing => arg' = arg
        PROVE  LockInv'
    BY <1>1 DEF LockInv, Replacing, HandOf
  <1>2. ASSUME NEW d \in Devices, NEW c \in Calls, c.pc # "replace",
               call[d].pc # "replace", call' = [call EXCEPT ![d] = c],
               UNCHANGED <<mutex, frameAt>>
        PROVE  LockInv'
    <2>1. \A e \in Devices : Replacing(e)' => Replacing(e) /\ HandOf(e)' = HandOf(e)
      BY <1>0, <1>2 DEF Replacing, HandOf
    <2>2. Writing' <=> Writing
      BY <1>2 DEF Writing
    <2> QED
      BY <1>2, <2>1, <2>2 DEF LockInv
  <1>3. ASSUME NEW d \in Devices, NEW pc \in PCs \ {"replace"}, call[d].pc # "replace",
               Goes(d, pc), UNCHANGED <<mutex, frameAt>>
        PROVE  LockInv'
    <2> DEFINE c == [call[d] EXCEPT !.pc = pc]
    <2>1. c \in Calls /\ c.pc # "replace" /\ call' = [call EXCEPT ![d] = c]
      BY <1>0, <1>3 DEF Goes, Calls, PCs
    <2> HIDE DEF c
    <2> QED
      BY <1>2, <1>3, <2>1
  <1>4. IdleCall \in Calls /\ IdleCall.pc # "replace"
    BY DEF IdleCall, Calls, PCs
  <1>5. ASSUME NEW d \in Devices, PoseUpdated(d) PROVE LockInv'
    <2>1. CASE vtable = "hook"
      BY <1>3, <1>5, <2>1 DEF PoseUpdated, PCs
    <2>2. CASE vtable # "hook"
      BY <1>1, <1>5, <2>2 DEF PoseUpdated, Writing
    <2> QED
      BY <2>1, <2>2
  <1>6. ASSUME NEW d \in Devices, HookEnabled(d) PROVE LockInv'
    BY <1>3, <1>6 DEF HookEnabled, PCs
  <1>7. ASSUME NEW d \in Devices, HookIndex(d) PROVE LockInv'
    <2>1. CASE Goes(d, "lock") \/ Goes(d, "forward")
      BY <1>3, <1>7, <2>1 DEF HookIndex, PCs
    <2>2. CASE call' = [call EXCEPT ![d].n = @ + 1] /\ call[d].n # Len(Hand)
      <3>1. call[d] \in Calls
        BY <1>0
      <3>2. call[d].n = 1
        BY <2>2, <3>1 DEF Calls, Hand
      <3>3. [call[d] EXCEPT !.n = 2] \in Calls
            /\ [call[d] EXCEPT !.n = 2].pc = call[d].pc
        BY <3>1 DEF Calls
      <3>4. call' = [call EXCEPT ![d] = [call[d] EXCEPT !.n = 2]]
        BY <2>2, <3>2
      <3> QED
        BY <1>2, <1>7, <3>3, <3>4 DEF HookIndex
    <2> QED
      BY <1>7, <2>1, <2>2 DEF HookIndex
  <1>8. ASSUME NEW d \in Devices, HookPass(d) PROVE LockInv'
    BY <1>2, <1>4, <1>8 DEF HookPass, Returns
  <1>9. ASSUME NEW d \in Devices, HookLock(d) PROVE LockInv'
    <2>1. CASE Goes(d, "forward") /\ UNCHANGED mutex
      BY <1>3, <1>9, <2>1 DEF HookLock, PCs
    <2>2. CASE Acquire(HandOf(d)) /\ Goes(d, "replace")
      <3>1. /\ mutex[HandOf(d)] = "free" /\ mutex' = [mutex EXCEPT ![HandOf(d)] = "hook"]
            /\ call' = [call EXCEPT ![d].pc = "replace"] /\ UNCHANGED frameAt
        BY <1>9, <2>2 DEF HookLock, Acquire, Goes
      <3>2. \A e \in Devices : /\ HandOf(e)' = HandOf(e)
                               /\ e # d => (Replacing(e)' <=> Replacing(e))
        BY <1>0, <3>1 DEF HandOf, Replacing, Calls
      <3>3. \A e \in Devices : Replacing(e) => HandOf(e) # HandOf(d)
        BY <3>1 DEF LockInv
      <3>4. \A h \in Sides : mutex'[h] = "frame" <=> mutex[h] = "frame"
        BY <1>0, <3>1
      <3>5. Writing' <=> Writing
        BY <3>1 DEF Writing
      <3>6. \A e \in Devices : Replacing(e)' => mutex'[HandOf(e)'] = "hook"
        BY <1>0, <3>1, <3>2, <3>3 DEF LockInv
      <3> QED
        BY <1>0, <3>1, <3>2, <3>3, <3>4, <3>5, <3>6 DEF LockInv
    <2> QED
      BY <1>9, <2>1, <2>2 DEF HookLock, HandOf
  <1>10. ASSUME NEW d \in Devices, HookReplace(d) PROVE LockInv'
    <2>1. /\ mutex' = [mutex EXCEPT ![HandOf(d)] = "free"] /\ Replacing(d)
          /\ call' = [call EXCEPT ![d] = IdleCall] /\ UNCHANGED frameAt
      BY <1>10 DEF HookReplace, Returns, Replacing, HandOf
    <2>2. \A e \in Devices : Replacing(e)' => e # d /\ Replacing(e) /\ HandOf(e)' = HandOf(e)
      BY <1>0, <1>4, <2>1 DEF Replacing, HandOf
    <2>3. \A e \in Devices : Replacing(e)' => HandOf(e) # HandOf(d)
      BY <2>1, <2>2 DEF LockInv
    <2>4. mutex[HandOf(d)] = "hook" /\ Writing' = Writing
      BY <2>1 DEF LockInv, Writing
    <2>5. \A h \in Sides : mutex'[h] = "frame" <=> mutex[h] = "frame"
      BY <1>0, <2>1, <2>4
    <2> QED
      BY <1>0, <2>1, <2>2, <2>3, <2>4, <2>5 DEF LockInv
  <1>11. ASSUME NEW m \in HandMsgs, OnHandPose(m) PROVE LockInv'
    <2>1. /\ ~Writing /\ Writing' /\ arg' = m /\ UNCHANGED call
          /\ mutex[m.hand] = "free" /\ mutex' = [mutex EXCEPT ![m.hand] = "frame"]
      BY <1>11 DEF OnHandPose, Writing
    <2>2. \A e \in Devices : /\ HandOf(e)' = HandOf(e) /\ (Replacing(e)' <=> Replacing(e))
                             /\ Replacing(e) => HandOf(e) # m.hand
      BY <2>1 DEF HandOf, Replacing, LockInv
    <2> QED
      BY <1>0, <2>1, <2>2 DEF LockInv
  <1>12. CASE OnHandRotation
    BY <1>1, <1>12 DEF OnHandRotation, Writing
  <1>13. CASE OnHandWorld
    <2>1. /\ Writing /\ ~Writing' /\ UNCHANGED call
          /\ mutex' = [mutex EXCEPT ![arg.hand] = "free"]
      BY <1>13 DEF OnHandWorld, Writing
    <2>2. \A e \in Devices : /\ HandOf(e)' = HandOf(e) /\ (Replacing(e)' <=> Replacing(e))
                             /\ Replacing(e) => HandOf(e) # arg.hand
      BY <1>0, <2>1 DEF HandOf, Replacing, LockInv
    <2> QED
      BY <1>0, <2>1, <2>2 DEF LockInv
  <1>14. ASSUME NEW on, StoreFound \/ Unpatch \/ FindHandControllers \/ RemoveHook
                        \/ SwitchReplacement(on) \/ UNCHANGED handVars
         PROVE  LockInv'
    <2>1. /\ UNCHANGED <<mutex, call>> /\ (Writing' <=> Writing) /\ (Writing => arg' = arg)
      BY <1>14 DEF StoreFound, Unpatch, FindHandControllers, RemoveHook,
         SwitchReplacement, handVars, Writing, Sides
    <2> QED
      BY <1>1, <2>1
  <1>15. ASSUME NEW d, NEW s, Expires(d) \/ SetSide(d, s) \/ NewSpace(s) PROVE LockInv'
    BY <1>1, <1>15 DEF Expires, SetSide, NewSpace, Writing
  <1> QED
    BY <1>5, <1>6, <1>7, <1>8, <1>9, <1>10, <1>11, <1>12, <1>13, <1>14, <1>15
       DEF HandsNext, HandStep, HookCall

(***************************************************************************)
(* The poses.                                                              *)
(***************************************************************************)

\* A pose is written field by field and is whole again when its mutex is free.
LEMMA PoseStep == TypeInv /\ PoseInv /\ [HandsNext]_handVars => PoseInv'
  <1> SUFFICES ASSUME TypeInv, PoseInv, [HandsNext]_handVars PROVE PoseInv'
    OBVIOUS
  <1> USE DEF CallUnchanged, HandFrameUnchanged, Outside, hookState, poseState, frameAt
  <1>0. /\ hand_pose \in [Sides -> Poses] /\ received \in [Sides -> Poses]
        /\ u \in (1 .. LastSpace) \cup {Own}
        /\ \A m \in HandMsgs : m.hand \in Sides
        /\ Writing => arg \in HandMsgs
    BY HandsAssumption DEF TypeInv, PoseTypeOK, FrameTypeOK
  <1>1. ASSUME UNCHANGED <<hand_pose, received>>, Writing' <=> Writing,
               Writing => UNCHANGED <<arg, at>>
        PROVE  PoseInv'
    BY <1>1 DEF PoseInv, Written
  <1>2. ASSUME NEW d, PoseUpdated(d) \/ HookCall(d) PROVE PoseInv'
    BY <1>1, <1>2 DEF PoseUpdated, HookCall, HookEnabled, HookIndex, HookLock,
       HookReplace, HookPass, Writing
  <1>3. ASSUME NEW d, NEW s, Expires(d) \/ SetSide(d, s) \/ NewSpace(s) PROVE PoseInv'
    BY <1>1, <1>3 DEF Expires, SetSide, NewSpace, Writing
  <1>4. ASSUME NEW on, StoreFound \/ Unpatch \/ FindHandControllers \/ RemoveHook
                       \/ SwitchReplacement(on) \/ UNCHANGED handVars
        PROVE  PoseInv'
    <2>1. /\ UNCHANGED <<hand_pose, received>> /\ (Writing' <=> Writing)
          /\ Writing => UNCHANGED <<arg, at>>
      BY <1>4 DEF StoreFound, Unpatch, FindHandControllers, RemoveHook,
         SwitchReplacement, handVars, Writing, Sides
    <2> QED
      BY <1>1, <2>1
  <1>5. ASSUME NEW m \in HandMsgs, OnHandPose(m) PROVE PoseInv'
    <2>1. /\ ~Writing /\ Writing' /\ at' = "rotation" /\ arg' = m /\ received' = received
          /\ hand_pose' = [hand_pose EXCEPT ![m.hand].position = Or(m.pos, @)]
      BY <1>5 DEF OnHandPose, Writing
    <2>2. \A h \in Sides : hand_pose[h] = received[h]
      BY <2>1 DEF PoseInv
    <2>3. ASSUME NEW h \in Sides, h # m.hand PROVE hand_pose'[h] = received'[h]
      BY <1>0, <2>1, <2>2, <2>3
    <2>4. hand_pose'[m.hand] = [received[m.hand] EXCEPT !.position = Or(m.pos, @)]
      BY <1>0, <2>1, <2>2
    <2> QED
      BY <2>1, <2>3, <2>4 DEF PoseInv, Written
  <1>6. CASE OnHandRotation
    <2>1. /\ Writing /\ Writing' /\ at = "rotation" /\ at' = "world"
          /\ UNCHANGED <<arg, received>> /\ arg.hand \in Sides
          /\ hand_pose' = [hand_pose EXCEPT ![arg.hand].rotation = Or(arg.rot, @)]
      BY <1>0, <1>6 DEF OnHandRotation, Writing
    <2> DEFINE p == received[arg.hand]
    <2>2. p \in Poses /\ hand_pose[arg.hand] = [p EXCEPT !.position = Or(arg.pos, @)]
      BY <1>0, <2>1 DEF PoseInv, Written
    <2>3. hand_pose'[arg.hand] = [hand_pose[arg.hand] EXCEPT !.rotation = Or(arg.rot, @)]
      BY <1>0, <2>1
    <2>4. hand_pose'[arg.hand]
             = [p EXCEPT !.position = Or(arg.pos, @), !.rotation = Or(arg.rot, @)]
      BY <2>2, <2>3 DEF Poses
    <2>5. ASSUME NEW h \in Sides, h # arg.hand PROVE hand_pose'[h] = received'[h]
      BY <1>0, <2>1, <2>5 DEF PoseInv
    <2> QED
      BY <2>1, <2>4, <2>5 DEF PoseInv, Written
  <1>7. CASE OnHandWorld
    <2>1. /\ Writing /\ ~Writing' /\ at = "world" /\ arg.hand \in Sides
          /\ hand_pose' = [hand_pose EXCEPT ![arg.hand].world = Or(u, @)]
          /\ received' = [received EXCEPT ![arg.hand] = After(arg, @)]
      BY <1>0, <1>7 DEF OnHandWorld, Writing
    <2> DEFINE p == received[arg.hand]
    <2>2. /\ p \in Poses
          /\ hand_pose[arg.hand]
                = [p EXCEPT !.position = Or(arg.pos, @), !.rotation = Or(arg.rot, @)]
      BY <1>0, <2>1 DEF PoseInv, Written
    <2>3. hand_pose'[arg.hand] = [hand_pose[arg.hand] EXCEPT !.world = Or(u, @)]
      BY <1>0, <2>1
    <2>4. hand_pose'[arg.hand] = After(arg, p)
      BY <2>2, <2>3 DEF Poses, After
    <2>5. ASSUME NEW h \in Sides, h # arg.hand PROVE hand_pose'[h] = received'[h]
      BY <1>0, <2>1, <2>5 DEF PoseInv
    <2> QED
      BY <1>0, <2>1, <2>4, <2>5 DEF PoseInv
  <1> QED
    BY <1>2, <1>3, <1>4, <1>5, <1>6, <1>7 DEF HandsNext, HandStep

\* The invariant of the hand poses holds initially.
LEMMA HandsStart == HandsInit => IInv
  <1> SUFFICES ASSUME HandsInit PROVE IInv
    OBVIOUS
  <1>1. NoPose \in Poses /\ IdleCall \in Calls /\ IdleCall.pc = "idle"
    BY DEF NoPose, Poses, IdleCall, Calls, PCs
  <1>2. HookTypeOK
    BY <1>1 DEF HandsInit, HookTypeOK
  <1>3. PoseTypeOK
    BY <1>1 DEF HandsInit, PoseTypeOK
  <1>4. FrameTypeOK
    BY DEF HandsInit, FrameTypeOK, Writing, Sides
  <1>5. ~Writing /\ (\A d \in Devices : ~Replacing(d)) /\ hand_pose = received
        /\ \A h \in Sides : mutex[h] = "free"
    BY <1>1 DEF HandsInit, Writing, Replacing
  <1> QED
    BY <1>2, <1>3, <1>4, <1>5 DEF IInv, TypeInv, LockInv, PoseInv

\* Every step keeps it.
LEMMA HandsKeep == IInv /\ [HandsNext]_handVars => IInv'
  BY HookTypes, PosesTypes, FrameTypes, LockStep, PoseStep DEF IInv, TypeInv

\* The invariant of the hook and the frame thread: who holds the mutex of a hand,
\* and how far the pose of that hand has been written.
THEOREM HandsInvariance == HandsSpec => []IInv
  BY HandsStart, HandsKeep, PTL DEF HandsSpec

\* The invariant has the types in it.
LEMMA HandsTyped == IInv => HandsTypeOK
  BY DEF IInv, TypeInv, HookTypeOK, PoseTypeOK, FrameTypeOK, HandsTypeOK, Calls, PCs

\* Every variable keeps its type, for any controllers, messages and play spaces.
THEOREM HandsTypes == HandsSpec => []HandsTypeOK
  BY HandsTyped, HandsInvariance, PTL

\* Only HookReplace gives SteamVR the pose of a hand, and no hook but one.
LEMMA Gives ==
  ASSUME TypeInv, [HandsNext]_handVars, NEW d \in Devices,
         given'[d] # given[d], given'[d] # OwnPose
  PROVE  HookReplace(d) /\ given'[d] = <<HandOf(d), hand_pose[HandOf(d)]>>
  <1> USE DEF CallUnchanged, HandFrameUnchanged, Outside, hookState, poseState, frameAt
  <1>0. given \in [Devices -> {OwnPose} \cup (Sides \X Poses)]
    BY DEF TypeInv, HookTypeOK
  <1>1. given' # given
    OBVIOUS
  <1>2. ASSUME NEW e \in Devices, PoseUpdated(e) \/ HookPass(e) PROVE FALSE
    <2>1. given' = [given EXCEPT ![e] = OwnPose]
      BY <1>1, <1>2 DEF PoseUpdated, HookPass
    <2> QED
      BY <1>0, <2>1
  <1>3. ASSUME NEW e \in Devices, HookReplace(e)
        PROVE  e = d /\ given'[d] = <<HandOf(d), hand_pose[HandOf(d)]>>
    <2>1. given' = [given EXCEPT ![e] = <<HandOf(e), hand_pose[HandOf(e)]>>]
      BY <1>3 DEF HookReplace, HandOf
    <2> QED
      BY <1>0, <2>1
  <1>4. ASSUME NEW e \in Devices, HookEnabled(e) \/ HookIndex(e) \/ HookLock(e) PROVE FALSE
    BY <1>1, <1>4 DEF HookEnabled, HookIndex, HookLock
  <1>5. ASSUME NEW m, OnHandPose(m) \/ HandStep \/ FindHandControllers \/ RemoveHook
                      \/ SwitchReplacement(m) \/ UNCHANGED handVars
        PROVE  FALSE
    BY <1>1, <1>5 DEF OnHandPose, HandStep, OnHandRotation, OnHandWorld, StoreFound,
       Unpatch, FindHandControllers, RemoveHook, SwitchReplacement, handVars
  <1>6. ASSUME NEW e, NEW s, Expires(e) \/ SetSide(e, s) \/ NewSpace(s) PROVE FALSE
    BY <1>1, <1>6 DEF Expires, SetSide, NewSpace
  <1> QED
    BY <1>2, <1>3, <1>4, <1>5, <1>6 DEF HandsNext, HookCall

\* A replaced pose is never torn: what HookPoseUpdated gives SteamVR is the pose
\* that the messages received so far make, for any number of controllers on
\* threads of their own, because the frame thread and the hooks hold the mutex of
\* the hand while they write and read it.
THEOREM NeverTorn == HandsSpec => WholePoses
  <1>1. ASSUME IInv, [HandsNext]_handVars, NEW d \in Devices, NEW h \in Sides,
               given'[d] # given[d], given'[d] # OwnPose, given'[d][1] = h
        PROVE  given'[d][2] = received[h]
    <2>1. HookReplace(d) /\ given'[d] = <<HandOf(d), hand_pose[HandOf(d)]>>
      BY <1>1, Gives DEF IInv
    <2>2. HandOf(d) = h /\ given'[d][2] = hand_pose[h]
      BY <1>1, <2>1
    <2>3. mutex[h] = "hook"
      BY <1>1, <2>1, <2>2 DEF IInv, LockInv, HookReplace, Replacing
    <2> QED
      BY <1>1, <2>2, <2>3 DEF IInv, LockInv, PoseInv
  <1>2. IInv /\ [HandsNext]_handVars =>
          [\A d \in Devices, h \in Sides :
              given'[d] # given[d] /\ given'[d] # OwnPose /\ given'[d][1] = h
                  => given'[d][2] = received[h]]_handVars
    BY <1>1
  <1> QED
    BY <1>2, HandsInvariance, PTL DEF HandsSpec, WholePoses

(***************************************************************************)
(* Both.                                                                   *)
(***************************************************************************)

\* The types of the tracker and of the hand poses, as the run devices checks
\* them: neither part touches what is the other's.
THEOREM TypeCorrect == Spec => []DevicesTypeOK
  <1> DEFINE Inv == TrackersTypeOK /\ IInv
  <1>1. Init => Inv
    BY TrackersStart, HandsStart DEF Init
  <1>2. Inv /\ [Next]_<<part, trackerVars, allHands>> => Inv'
    <2> SUFFICES ASSUME Inv, [Next]_<<part, trackerVars, allHands>> PROVE Inv'
      OBVIOUS
    <2>1. [TrackersNext]_trackerVars /\ [HandsNext]_handVars
      BY DEF Next, allHands
    <2> QED
      BY <2>1, TrackersKeep, HandsKeep
  <1>3. Inv => DevicesTypeOK
    BY HandsTyped DEF DevicesTypeOK
  <1> HIDE DEF Inv
  <1> QED
    BY <1>1, <1>2, <1>3, PTL DEF Spec

=============================================================================
