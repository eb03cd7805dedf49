--------------------------- MODULE ProviderProofs ---------------------------
(***************************************************************************)
(* Proofs about Provider: its types, and that what RunFrame remembers of   *)
(* its sends is true of the connection, for any number of connections,     *)
(* universes and searches.                                                 *)
(***************************************************************************)
EXTENDS Provider, TLAPS

\* The initial states satisfy the invariant.
LEMMA InitInv == Init => IInv
  <1> SUFFICES ASSUME Init PROVE IInv
    OBVIOUS
  <1>1. L!LinkTypeOK
    <2>1. phase = "down" /\ gen = 0 /\ out = L!Nothing /\ torn = FALSE
          /\ queue = << >>
      BY DEF Init, L!LinkInit
    <2>2. out \in [Kinds -> Values \cup {None}]
      BY <2>1 DEF L!Nothing
    <2>3. torn \in BOOLEAN
      BY <2>1
    <2>4. queue \in Seq(L!Entries)
      BY <2>1
    <2> QED
      BY <2>1, <2>2, <2>3, <2>4 DEF L!LinkTypeOK
  <1>2. FlagsTypeOK
    BY DEF Init, FlagsTypeOK
  <1>3. StateTypeOK
    <2>1. hmd \in Statuses /\ known \in SUBSET Ids
      BY DEF Init, Statuses
    <2>2. universe_failures_ \in 0..(FallbackAfter + ReportEvery)
      BY ProviderAssumption DEF Init
    <2> QED
      BY <2>1, <2>2 DEF Init, StateTypeOK, Statuses
  <1>4. generation_ <= gen /\ ~status_sent_ /\ ~hello_sent_
    BY DEF Init, L!LinkInit
  <1> QED
    BY <1>1, <1>2, <1>3, <1>4 DEF IInv, TypeOK

\* A call of send() keeps the types of the connection.
LEMMA SendType ==
  ASSUME L!LinkTypeOK, NEW k \in Kinds, NEW v \in Values, NEW ok \in BOOLEAN,
         L!Send(k, v, ok)
  PROVE  L!LinkTypeOK'
  <1>1. CASE L!Deliver(k, v)
    BY <1>1 DEF L!LinkTypeOK, L!Deliver
  <1>2. CASE L!Drop
    BY <1>2 DEF L!LinkTypeOK, L!Drop, L!linkVars
  <1>3. CASE L!Tear
    BY <1>3 DEF L!LinkTypeOK, L!Tear
  <1> QED
    BY <1>1, <1>2, <1>3 DEF L!Send

\* The connection, through every step.
LEMMA LinkType == TypeOK /\ [Next]_vars => L!LinkTypeOK'
  <1> SUFFICES ASSUME TypeOK, [Next]_vars PROVE L!LinkTypeOK'
    OBVIOUS
  <1>0. L!LinkTypeOK
    BY DEF TypeOK
  <1>1. CASE UNCHANGED linkVars
    BY <1>0, <1>1 DEF L!LinkTypeOK, linkVars
  <1>2. CASE DrainInbox
    BY <1>0, <1>2 DEF DrainInbox, L!Drain, L!LinkTypeOK
  <1>3. ASSUME NEW ok \in BOOLEAN,
               SendPathFailed(ok) \/ SendStatus(ok) \/ SendHello(ok) \/ SendHmdPose(ok)
        PROVE  L!LinkTypeOK'
    <2>1. universe_.space \in Values /\ PoseSpace \in Values /\ hmd_ok \in Values
          /\ "failed" \in Values
      BY DEF TypeOK, StateTypeOK, PoseSpace, Values
    <2>2. PICK k \in Kinds, v \in Values : L!Send(k, v, ok)
      BY <1>3, <2>1 DEF SendPathFailed, SendStatus, SendHello, SendHmdPose, Kinds
    <2> QED
      BY <1>0, <2>2, SendType
  <1>4. CASE NetworkThread
    <2>1. CASE L!Announce
      <3>1. out' \in [Kinds -> Values \cup {None}]
        BY <2>1 DEF L!Announce, L!Nothing
      <3>2. torn' \in BOOLEAN
        BY <2>1 DEF L!Announce
      <3>3. phase' = "announced" /\ gen' = gen + 1 /\ queue' = queue
        BY <2>1 DEF L!Announce
      <3> QED
        BY <1>0, <3>1, <3>2, <3>3 DEF L!LinkTypeOK
    <2>2. CASE L!Publish \/ L!Hangup
      BY <1>0, <2>2 DEF L!Publish, L!Hangup, L!LinkTypeOK
    <2>3. ASSUME NEW m \in InMsgs, L!Receive(m) PROVE L!LinkTypeOK'
      <3>1. [gen |-> gen, msg |-> m] \in L!Entries
        BY <1>0 DEF L!Entries, L!LinkTypeOK
      <3> QED
        BY <1>0, <2>3, <3>1 DEF L!Receive, L!LinkTypeOK
    <2> QED
      BY <1>4, <2>1, <2>2, <2>3 DEF NetworkThread
  <1>5. CASE SteamVR \/ UNCHANGED vars
    BY <1>1, <1>5 DEF SteamVR, vars
  <1>6. CASE Frame
    <2>1. \/ UNCHANGED linkVars
          \/ DrainInbox
          \/ \E ok \in BOOLEAN : SendPathFailed(ok) \/ SendStatus(ok)
                                  \/ SendHello(ok) \/ SendHmdPose(ok)
      BY <1>6 DEF Frame, BeginFrame, CheckGeneration, SampleHmd, NoSearch,
         SearchFinds, SearchFails, UseFallback, NoStatus, NoHello, NoHmdPose
    <2> QED
      BY <1>1, <1>2, <1>3, <2>1
  <1> QED
    BY <1>4, <1>5, <1>6 DEF Next

\* Boolean flags.
LEMMA FlagsType == TypeOK /\ [Next]_vars => FlagsTypeOK'
  <1> SUFFICES ASSUME TypeOK, [Next]_vars PROVE FlagsTypeOK'
    OBVIOUS
  <1>0. FlagsTypeOK
    BY DEF TypeOK
  <1>1. status_sent_' \in BOOLEAN
    BY <1>0 DEF FlagsTypeOK, Next, Frame, BeginFrame, CheckGeneration, DrainInbox, SampleHmd, NoSearch,
       SearchFinds, SearchFails, SendPathFailed, UseFallback, SendStatus,
       NoStatus, SendHello, NoHello, EndFrame, SendHmdPose, NoHmdPose, NetworkThread,
       SteamVR, FrameUnchanged, UniverseUnchanged, SendUnchanged,
       HelloUnchanged, sentVars, univVars, localVars, envVars, vars
  <1>2. hello_sent_' \in BOOLEAN
    BY <1>0 DEF FlagsTypeOK, Next, Frame, BeginFrame, CheckGeneration, DrainInbox, SampleHmd, NoSearch,
       SearchFinds, SearchFails, SendPathFailed, UseFallback, SendStatus,
       NoStatus, SendHello, NoHello, EndFrame, SendHmdPose, NoHmdPose, NetworkThread,
       SteamVR, FrameUnchanged, UniverseUnchanged, SendUnchanged,
       HelloUnchanged, sentVars, univVars, localVars, envVars, vars
  <1>3. have_universe_' \in BOOLEAN
    BY <1>0 DEF FlagsTypeOK, Next, Frame, BeginFrame, CheckGeneration, DrainInbox, SampleHmd, NoSearch,
       SearchFinds, SearchFails, SendPathFailed, UseFallback, SendStatus,
       NoStatus, SendHello, NoHello, EndFrame, SendHmdPose, NoHmdPose, NetworkThread,
       SteamVR, FrameUnchanged, UniverseUnchanged, SendUnchanged,
       HelloUnchanged, sentVars, univVars, localVars, envVars, vars
  <1>4. using_fallback_' \in BOOLEAN
    BY <1>0 DEF FlagsTypeOK, Next, Frame, BeginFrame, CheckGeneration, DrainInbox, SampleHmd, NoSearch,
       SearchFinds, SearchFails, SendPathFailed, UseFallback, SendStatus,
       NoStatus, SendHello, NoHello, EndFrame, SendHmdPose, NoHmdPose, NetworkThread,
       SteamVR, FrameUnchanged, UniverseUnchanged, SendUnchanged,
       HelloUnchanged, sentVars, univVars, localVars, envVars, vars
  <1>5. status_due' \in BOOLEAN
    BY <1>0 DEF FlagsTypeOK, Next, Frame, BeginFrame, CheckGeneration, DrainInbox, SampleHmd, NoSearch,
       SearchFinds, SearchFails, SendPathFailed, UseFallback, SendStatus,
       NoStatus, SendHello, NoHello, EndFrame, SendHmdPose, NoHmdPose, NetworkThread,
       SteamVR, FrameUnchanged, UniverseUnchanged, SendUnchanged,
       HelloUnchanged, sentVars, univVars, localVars, envVars, vars
  <1>6. ordered' \in BOOLEAN
    BY <1>0 DEF FlagsTypeOK, Next, Frame, BeginFrame, CheckGeneration, DrainInbox, SampleHmd, NoSearch,
       SearchFinds, SearchFails, SendPathFailed, UseFallback, SendStatus,
       NoStatus, SendHello, NoHello, EndFrame, SendHmdPose, NoHmdPose, NetworkThread,
       SteamVR, FrameUnchanged, UniverseUnchanged, SendUnchanged,
       HelloUnchanged, sentVars, univVars, localVars, envVars, vars
  <1>7. universe_fallback_' \in BOOLEAN
    BY <1>0 DEF FlagsTypeOK, Next, Frame, BeginFrame, CheckGeneration, DrainInbox, SampleHmd, NoSearch,
       SearchFinds, SearchFails, SendPathFailed, UseFallback, SendStatus,
       NoStatus, SendHello, NoHello, EndFrame, SendHmdPose, NoHmdPose, NetworkThread,
       SteamVR, FrameUnchanged, UniverseUnchanged, SendUnchanged,
       HelloUnchanged, sentVars, univVars, localVars, envVars, vars
  <1> QED
    BY <1>1, <1>2, <1>3, <1>4, <1>5, <1>6, <1>7 DEF FlagsTypeOK

\* Everything else, through every step.
LEMMA StateType == TypeOK /\ [Next]_vars => StateTypeOK'
  <1> SUFFICES ASSUME TypeOK, [Next]_vars PROVE StateTypeOK'
    OBVIOUS
  <1>0. StateTypeOK /\ gen \in Nat
    BY DEF TypeOK, L!LinkTypeOK
  <1> USE ProviderAssumption
  <1>1. CASE BeginFrame
    BY <1>0, <1>1 DEF StateTypeOK, BeginFrame, FrameUnchanged, sentVars, univVars,
       localVars, envVars
  <1>2. CASE CheckGeneration
    BY <1>0, <1>2 DEF StateTypeOK, CheckGeneration, FrameUnchanged, sentVars, univVars,
       localVars, envVars
  <1>3. CASE DrainInbox
    BY <1>0, <1>3 DEF StateTypeOK, DrainInbox, FrameUnchanged, sentVars, univVars,
       localVars, envVars
  <1>4. CASE SampleHmd
    BY <1>0, <1>4 DEF StateTypeOK, SampleHmd, FrameUnchanged, sentVars, univVars,
       localVars, envVars
  <1>5. CASE NoSearch
    BY <1>0, <1>5 DEF StateTypeOK, NoSearch, UniverseUnchanged, FrameUnchanged, sentVars, univVars,
       localVars, envVars
  <1>6. CASE SearchFinds
    BY <1>0, <1>6 DEF StateTypeOK, SearchFinds, SearchDue, UniverseUnchanged, FrameUnchanged, sentVars, univVars,
       localVars, envVars
  <1>7. CASE SearchFails
    BY <1>0, <1>7 DEF StateTypeOK, SearchFails, SearchDue, UniverseUnchanged, FrameUnchanged, Bump, sentVars, univVars,
       localVars, envVars
  <1>8. CASE UseFallback
    BY <1>0, <1>8 DEF StateTypeOK, UseFallback, UniverseUnchanged, FrameUnchanged, sentVars, univVars,
       localVars, envVars
  <1>9. CASE NoStatus
    BY <1>0, <1>9 DEF StateTypeOK, NoStatus, SendUnchanged, FrameUnchanged, sentVars, univVars,
       localVars, envVars
  <1>10. CASE NoHello
    BY <1>0, <1>10 DEF StateTypeOK, NoHello, HelloUnchanged, SendUnchanged, FrameUnchanged, sentVars, univVars,
       localVars, envVars
  <1>11. CASE NoHmdPose
    BY <1>0, <1>11 DEF StateTypeOK, Statuses, NoHmdPose, EndFrame,
       FrameUnchanged, sentVars, univVars,
       localVars, envVars
  <1>12. ASSUME NEW ok \in BOOLEAN, SendPathFailed(ok) PROVE StateTypeOK'
    BY <1>0, <1>12 DEF StateTypeOK, SendPathFailed, UniverseUnchanged, FrameUnchanged, sentVars, univVars,
       localVars, envVars
  <1>13. ASSUME NEW ok \in BOOLEAN, SendStatus(ok) PROVE StateTypeOK'
    BY <1>0, <1>13 DEF StateTypeOK, SendStatus, SendUnchanged, FrameUnchanged, sentVars, univVars,
       localVars, envVars
  <1>14. ASSUME NEW ok \in BOOLEAN, SendHello(ok) PROVE StateTypeOK'
    BY <1>0, <1>14 DEF StateTypeOK, SendHello, HelloUnchanged, SendUnchanged, FrameUnchanged, sentVars, univVars,
       localVars, envVars
  <1>15. ASSUME NEW ok \in BOOLEAN, SendHmdPose(ok) PROVE StateTypeOK'
    BY <1>0, <1>15 DEF StateTypeOK, Statuses, SendHmdPose, EndFrame,
       FrameUnchanged, sentVars, univVars,
       localVars, envVars
  <1>16. CASE NetworkThread
    BY <1>0, <1>16 DEF StateTypeOK, NetworkThread, sentVars, univVars, localVars, envVars
  <1>17. CASE SteamVR
    BY <1>0, <1>17 DEF StateTypeOK, SteamVR, sentVars, univVars, localVars
  <1>18. CASE UNCHANGED vars
    BY <1>0, <1>18 DEF StateTypeOK, vars, sentVars, univVars, localVars, envVars
  <1> QED
    BY <1>1, <1>2, <1>3, <1>4, <1>5, <1>6, <1>7, <1>8, <1>9,
       <1>10, <1>11, <1>12, <1>13, <1>14, <1>15, <1>16, <1>17, <1>18 DEF Next, Frame

\* The part of the invariant that is not a type.
MeaningInv ==
    /\ generation_ <= gen
    /\ Current /\ status_sent_ => out["tracker_status"] = last_hmd_ok_
    /\ Current /\ hello_sent_ =>
          \/ out["uch"] = universe_.space /\ ordered
          \/ fpc = "hello" /\ status_due
    /\ hello_sent_ => have_universe_

\* What one call of send() does to the history of the connection.
LEMMA SendOut ==
  ASSUME L!LinkTypeOK, NEW k \in Kinds, NEW v, NEW ok \in BOOLEAN,
         L!Send(k, v, ok)
  PROVE  /\ UNCHANGED gen
         /\ ok => out' = [out EXCEPT ![k] = v]
         /\ ~ok => UNCHANGED out
         /\ ok => out'[k] = v
         /\ \A j \in Kinds \ {k} : out'[j] = out[j]
  <1>1. CASE ok
    BY <1>1 DEF L!LinkTypeOK, L!Send, L!Deliver
  <1>2. CASE ~ok
    BY <1>2 DEF L!Send, L!Drop, L!Tear, L!linkVars
  <1> QED
    BY <1>1, <1>2

\* The steps of a frame keep the meaning of the flags.
LEMMA MeaningFrame == TypeOK /\ MeaningInv /\ Frame => MeaningInv'
  <1> SUFFICES ASSUME TypeOK, MeaningInv, Frame PROVE MeaningInv'
    OBVIOUS
  <1>0. /\ L!LinkTypeOK /\ FlagsTypeOK
        /\ gen \in Nat /\ generation_ \in Nat
        /\ {"tracker_status", "uch", "path_failed", "position"} = Kinds
    BY DEF TypeOK, L!LinkTypeOK, StateTypeOK, Kinds
  <1> USE DEF MeaningInv, Current
  <1>1. CASE BeginFrame \/ SampleHmd \/ NoHmdPose
    BY <1>1 DEF BeginFrame, SampleHmd, NoHmdPose, EndFrame, linkVars, sentVars,
       univVars
  <1>2. CASE DrainInbox
    BY <1>2 DEF DrainInbox, L!Drain, sentVars, univVars
  <1>3. CASE CheckGeneration
    BY <1>0, <1>3 DEF CheckGeneration, linkVars, univVars
  <1>4. CASE NoSearch
    BY <1>4 DEF NoSearch, UniverseUnchanged, linkVars, univVars
  <1>5. CASE SearchFinds
    BY <1>5 DEF SearchFinds, UniverseUnchanged, linkVars
  <1>6. CASE SearchFails
    BY <1>6 DEF SearchFails, SearchDue, UniverseUnchanged, linkVars
  <1>7. CASE UseFallback
    BY <1>7 DEF UseFallback, UniverseUnchanged, linkVars
  <1>8. ASSUME NEW ok \in BOOLEAN, SendPathFailed(ok) PROVE MeaningInv'
    <2>1. /\ UNCHANGED <<gen, out["tracker_status"], out["uch"]>>
      BY <1>0, <1>8, SendOut DEF SendPathFailed
    <2> QED
      BY <1>8, <2>1 DEF SendPathFailed, UniverseUnchanged, univVars
  <1>9. ASSUME NEW ok \in BOOLEAN, SendStatus(ok) PROVE MeaningInv'
    <2>1. /\ UNCHANGED <<gen, out["uch"]>>
          /\ ok => out'["tracker_status"] = hmd_ok
      BY <1>0, <1>9, SendOut DEF SendStatus
    <2>2. /\ status_sent_' = ok /\ last_hmd_ok_' = hmd_ok
          /\ fpc' = "hello" /\ status_due' = TRUE
          /\ UNCHANGED <<generation_, hello_sent_, have_universe_, universe_>>
      BY <1>9 DEF SendStatus, SendUnchanged, univVars
    <2> QED
      BY <1>0, <2>1, <2>2
  <1>10. CASE NoStatus
    BY <1>0, <1>10 DEF NoStatus, SendUnchanged, linkVars, univVars, FlagsTypeOK
  <1>11. ASSUME NEW ok \in BOOLEAN, SendHello(ok) PROVE MeaningInv'
    <2>1. /\ UNCHANGED <<gen, out["tracker_status"]>>
          /\ ok => out'["uch"] = universe_.space
      BY <1>0, <1>11, SendOut DEF SendHello
    <2>2. /\ hello_sent_' = ok /\ have_universe_
          /\ ordered' = IF ok THEN TRUE ELSE ordered
          /\ UNCHANGED <<generation_, status_sent_, last_hmd_ok_, have_universe_,
                         universe_>>
      BY <1>11 DEF SendHello, HelloDue, HelloUnchanged, SendUnchanged, univVars
    <2> QED
      BY <1>0, <2>1, <2>2
  <1>12. CASE NoHello
    BY <1>0, <1>12 DEF NoHello, HelloDue, HelloUnchanged, SendUnchanged, linkVars,
       univVars, FlagsTypeOK
  <1>13. ASSUME NEW ok \in BOOLEAN, SendHmdPose(ok) PROVE MeaningInv'
    <2>1. /\ UNCHANGED <<gen, out["tracker_status"], out["uch"]>>
      BY <1>0, <1>13, SendOut DEF SendHmdPose
    <2> QED
      BY <1>13, <2>1 DEF SendHmdPose, EndFrame, sentVars, univVars
  <1> QED
    BY <1>1, <1>2, <1>3, <1>4, <1>5, <1>6, <1>7, <1>8, <1>9, <1>10, <1>11,
       <1>12, <1>13 DEF Frame

\* A new connection makes the flags say nothing until the next frame reads its
\* number; nothing else outside a frame touches what they are about.
LEMMA MeaningOther ==
  TypeOK /\ MeaningInv /\ (NetworkThread \/ SteamVR \/ UNCHANGED vars) => MeaningInv'
  <1> SUFFICES ASSUME TypeOK, MeaningInv,
                      NetworkThread \/ SteamVR \/ UNCHANGED vars
               PROVE  MeaningInv'
    OBVIOUS
  <1>0. gen \in Nat /\ generation_ \in Nat
    BY DEF TypeOK, L!LinkTypeOK, StateTypeOK
  <1> USE DEF MeaningInv, Current
  <1>1. CASE NetworkThread
    <2>1. UNCHANGED <<fpc, generation_, status_sent_, hello_sent_, last_hmd_ok_,
                      have_universe_, universe_, status_due>>
      BY <1>1 DEF NetworkThread, sentVars, univVars, localVars
    <2>2. CASE L!Announce
      BY <1>0, <2>1, <2>2 DEF L!Announce
    <2>3. CASE UNCHANGED <<gen, out, ordered>>
      BY <2>1, <2>3
    <2>4. L!Announce \/ UNCHANGED <<gen, out, ordered>>
      BY <1>1 DEF NetworkThread, L!Publish, L!Hangup, L!Receive
    <2> QED
      BY <2>2, <2>3, <2>4
  <1>2. CASE SteamVR \/ UNCHANGED vars
    BY <1>2 DEF SteamVR, vars, linkVars, sentVars, univVars, localVars
  <1> QED
    BY <1>1, <1>2

\* The invariant is inductive.
LEMMA StepInv == IInv /\ [Next]_vars => IInv'
  <1> SUFFICES ASSUME IInv, [Next]_vars PROVE IInv'
    OBVIOUS
  <1>1. TypeOK /\ MeaningInv
    BY DEF IInv, MeaningInv
  <1>2. TypeOK'
    BY <1>1, LinkType, FlagsType, StateType DEF TypeOK
  <1>3. MeaningInv'
    BY <1>1, MeaningFrame, MeaningOther DEF Next
  <1> QED
    BY <1>2, <1>3 DEF IInv, MeaningInv

\* The invariant of RunFrame holds in every reachable state.
THEOREM Invariance == Spec => []IInv
  BY InitInv, StepInv, PTL DEF Spec

\* The variables keep their types.
THEOREM TypeCorrect == Spec => []TypeOK
  <1>1. IInv => TypeOK
    BY DEF IInv
  <1> QED
    BY <1>1, Invariance, PTL

\* Between frames status_sent_ and hello_sent_ are true of the connection they
\* were set on: the app has the headset's status and, after it, the play space
\* that poses are expressed in.
THEOREM HandshakeSafety == Spec => []HandshakeCurrent
  <1>1. IInv => HandshakeCurrent
    BY DEF IInv, HandshakeCurrent
  <1> QED
    BY <1>1, Invariance, PTL

\* Every step takes the connection a step of Link further, or leaves it alone.
LEMMA LinkStep == TypeOK /\ [Next]_vars => [L!LinkNext]_(L!linkVars)
  <1> SUFFICES ASSUME TypeOK, [Next]_vars PROVE [L!LinkNext]_(L!linkVars)
    OBVIOUS
  <1>1. CASE UNCHANGED linkVars
    BY <1>1 DEF linkVars, L!linkVars
  <1>2. ASSUME NEW ok \in BOOLEAN,
               SendPathFailed(ok) \/ SendStatus(ok) \/ SendHello(ok) \/ SendHmdPose(ok)
        PROVE  [L!LinkNext]_(L!linkVars)
    <2>1. universe_.space \in Values /\ PoseSpace \in Values /\ hmd_ok \in Values
          /\ "failed" \in Values
      BY DEF TypeOK, StateTypeOK, PoseSpace, Values
    <2>2. PICK k \in Kinds, v \in Values : L!Send(k, v, ok)
      BY <1>2, <2>1 DEF SendPathFailed, SendStatus, SendHello, SendHmdPose, Kinds
    <2> QED
      BY <2>2 DEF L!Send, L!Drop, L!LinkNext
  <1>3. CASE NetworkThread
    BY <1>3 DEF NetworkThread, L!LinkNext
  <1>4. CASE SteamVR \/ UNCHANGED vars
    BY <1>1, <1>4 DEF SteamVR, vars
  <1>5. CASE Frame
    <2>1. \/ UNCHANGED linkVars
          \/ DrainInbox
          \/ \E ok \in BOOLEAN : SendPathFailed(ok) \/ SendStatus(ok)
                                  \/ SendHello(ok) \/ SendHmdPose(ok)
      BY <1>5 DEF Frame, BeginFrame, CheckGeneration, SampleHmd, NoSearch,
         SearchFinds, SearchFails, UseFallback, NoStatus, NoHello, NoHmdPose
    <2>2. CASE DrainInbox
      BY <2>2 DEF DrainInbox, L!LinkNext
    <2> QED
      BY <1>1, <1>2, <2>1, <2>2
  <1> QED
    BY <1>3, <1>4, <1>5 DEF Next

\* The frame thread uses the connection as the abstract Link allows: what
\* BridgeClient's refinement of Link shows of the real client, RunFrame may rely on.
THEOREM UsesLink == Spec => L!LinkSpec
  <1>1. Init => L!LinkInit
    BY DEF Init
  <1> QED
    BY <1>1, LinkStep, TypeCorrect, PTL DEF Spec, L!LinkSpec

=============================================================================
