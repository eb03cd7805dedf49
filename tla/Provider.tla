------------------------------ MODULE Provider ------------------------------
(***************************************************************************)
(* Provider::RunFrame (driver/src/driver.cpp) and what it tells the app:   *)
(* the handshake of every connection (tracker_status, then uch), the play  *)
(* space behind it (UpdateUniverse) and the headset pose.                  *)
(*                                                                         *)
(* A frame is a sequence of steps of the frame thread.  The network thread *)
(* of BridgeClient, seen through Link, may lose and remake the connection  *)
(* between any two of them, and SteamVR may change what they read.         *)
(*                                                                         *)
(* A play space is a translation and a yaw; here it is an opaque value,    *)
(* and a pose is represented by the space it was expressed in.  What       *)
(* RunFrame does with received messages (trackers, walk-in-place, hand     *)
(* poses) touches none of this state and is not part of this module.       *)
(***************************************************************************)
EXTENDS Naturals, Sequences

CONSTANTS
    Ids,             \* universe ids
    NoId,            \* no headset: the property cannot be read
    Spaces,          \* play spaces
    Raw,             \* raw tracking space: Universe{} with a zero offset
    None,
    InMsgs,          \* messages of the app
    ReportEvery,     \* searches between two path_failed (30)
    FallbackAfter,   \* failed searches before the fallback (3)
    Changes,         \* what SteamVR may change: the headset's status, its
                     \* universe id, which universes the chaperone data has,
                     \* a play space that keeps its id; the headset is there
                     \* where its status does not change
    MaxGen,          \* bound: connections
    MaxQueue         \* bound: messages waiting

ASSUME ProviderAssumption ==
    /\ NoId \notin Ids
    /\ Raw \notin Spaces
    /\ None \notin Spaces \cup {Raw, "OK", "DISCONNECTED", "failed"}
    /\ ReportEvery \in Nat \ {0}
    /\ FallbackAfter \in Nat
    /\ Changes \subseteq {"hmd", "uid", "known", "space"}
    /\ MaxGen \in Nat
    /\ MaxQueue \in Nat

Statuses == {"OK", "DISCONNECTED"}
Kinds    == {"tracker_status", "uch", "path_failed", "position"}
Values   == Spaces \cup Statuses \cup {Raw, "failed"}

VARIABLES
    phase, gen, out, torn, queue,        \* client_, as Link describes it
    fpc,                                 \* where RunFrame is
    generation_, status_sent_, hello_sent_, last_hmd_ok_,
    have_universe_, using_fallback_, universe_, universe_failures_,
    hmd_ok, status_due,                  \* locals of RunFrame
    universe_fallback_,                  \* the setting, read once by Init
    hmd, uid, known, space,              \* SteamVR: headset, chaperone data
    ordered                              \* history: uch went out after status

linkVars  == <<phase, gen, out, torn, queue>>
sentVars  == <<generation_, status_sent_, hello_sent_, last_hmd_ok_>>
univVars  == <<have_universe_, using_fallback_, universe_, universe_failures_>>
localVars == <<hmd_ok, status_due>>
envVars   == <<universe_fallback_, hmd, uid, known, space>>
vars == <<linkVars, fpc, sentVars, univVars, localVars,
          envVars, ordered>>

L == INSTANCE Link

Init ==
    /\ L!LinkInit
    /\ fpc = "idle"
    /\ generation_ = 0
    /\ status_sent_ = FALSE /\ hello_sent_ = FALSE
    /\ last_hmd_ok_ = "DISCONNECTED"
    /\ have_universe_ = FALSE /\ using_fallback_ = FALSE
    /\ universe_ = [id |-> NoId, space |-> Raw]
    /\ universe_failures_ = 0
    /\ hmd_ok = "DISCONNECTED" /\ status_due = FALSE
    /\ hmd \in IF "hmd" \in Changes THEN Statuses ELSE {"OK"}
    /\ uid \in Ids \cup {NoId}
    /\ known \in SUBSET Ids
    /\ space \in [Ids -> Spaces]
    /\ universe_fallback_ \in BOOLEAN
    /\ ordered = FALSE

-----------------------------------------------------------------------------
(* RunFrame *)

FrameUnchanged == UNCHANGED envVars

\* if (!client_.connected()) return: no step of this module.
BeginFrame ==
    /\ fpc = "idle"
    /\ phase = "up"
    /\ fpc' = "generation"
    /\ UNCHANGED <<linkVars, sentVars, univVars, localVars, ordered>>
    /\ FrameUnchanged

CheckGeneration ==
    /\ fpc = "generation"
    /\ fpc' = "drain"
    /\ generation_' = gen
    /\ IF gen = generation_
       THEN UNCHANGED <<status_sent_, hello_sent_>>
       ELSE status_sent_' = FALSE /\ hello_sent_' = FALSE
    /\ UNCHANGED <<linkVars, last_hmd_ok_, univVars, localVars, ordered>>
    /\ FrameUnchanged

DrainInbox ==
    /\ fpc = "drain"
    /\ fpc' = "hmd"
    /\ L!Drain
    /\ UNCHANGED <<sentVars, univVars, localVars, ordered>>
    /\ FrameUnchanged

\* GetRawTrackedDevicePoses(): valid and connected, or not.
SampleHmd ==
    /\ fpc = "hmd"
    /\ fpc' = "universe"
    /\ hmd_ok' = hmd
    /\ UNCHANGED <<linkVars, sentVars, univVars, status_due, ordered>>
    /\ FrameUnchanged

-----------------------------------------------------------------------------
(* UpdateUniverse *)

UniverseUnchanged ==
    /\ UNCHANGED <<generation_, status_sent_, last_hmd_ok_, localVars>>
    /\ FrameUnchanged

\* Mutant: any universe in use will do.
UniverseKnownAnyId == have_universe_ /\ ~using_fallback_

\* The universe the headset reports is the one already in use.
UniverseKnown == have_universe_ /\ ~using_fallback_ /\ universe_.id = uid

\* No headset yet, nothing to look for, or the last search is less than 1 s ago.
NoSearch ==
    /\ fpc = "universe"
    /\ fpc' = "status"
    /\ UNCHANGED <<linkVars, hello_sent_, univVars, ordered>>
    /\ UniverseUnchanged

\* universe_failures_++.  Only its remainder and whether it has reached
\* FallbackAfter matter, so it is kept below FallbackAfter + ReportEvery.
Bump(n) == IF n + 1 < FallbackAfter + ReportEvery
           THEN n + 1
           ELSE n + 1 - ReportEvery

SearchDue == fpc = "universe" /\ uid # NoId /\ ~UniverseKnown

SearchFinds ==
    /\ SearchDue
    /\ uid \in known
    /\ fpc' = "status"
    /\ universe_' = [id |-> uid, space |-> space[uid]]
    /\ have_universe_' = TRUE
    /\ using_fallback_' = FALSE
    /\ universe_failures_' = 0
    /\ hello_sent_' = FALSE
    /\ UNCHANGED <<linkVars, ordered>>
    /\ UniverseUnchanged

\* Mutant: only the first failure is reported.
SearchFailsReportsOnce ==
    /\ SearchDue
    /\ uid \notin known
    /\ ~using_fallback_
    /\ fpc' = IF universe_failures_ = 0 THEN "path_failed" ELSE "fallback"
    /\ universe_failures_' = Bump(universe_failures_)
    /\ UNCHANGED <<linkVars, hello_sent_, have_universe_, using_fallback_,
                   universe_, ordered>>
    /\ UniverseUnchanged

SearchFails ==
    /\ SearchDue
    /\ uid \notin known
    /\ IF using_fallback_
       THEN fpc' = "status" /\ UNCHANGED universe_failures_
       ELSE /\ fpc' = IF universe_failures_ % ReportEvery = 0
                      THEN "path_failed"
                      ELSE "fallback"
            /\ universe_failures_' = Bump(universe_failures_)
    /\ UNCHANGED <<linkVars, hello_sent_, have_universe_, using_fallback_,
                   universe_, ordered>>
    /\ UniverseUnchanged

SendPathFailed(ok) ==
    /\ fpc = "path_failed"
    /\ fpc' = "fallback"
    /\ L!Send("path_failed", "failed", ok)
    /\ UNCHANGED <<hello_sent_, univVars, ordered>>
    /\ UniverseUnchanged

UseFallback ==
    /\ fpc = "fallback"
    /\ fpc' = "status"
    /\ IF universe_fallback_ /\ universe_failures_ >= FallbackAfter
       THEN /\ universe_' = [id |-> uid, space |-> Raw]
            /\ have_universe_' = TRUE
            /\ using_fallback_' = TRUE
            /\ hello_sent_' = FALSE
       ELSE UNCHANGED <<universe_, have_universe_, using_fallback_, hello_sent_>>
    /\ UNCHANGED <<linkVars, universe_failures_, ordered>>
    /\ UniverseUnchanged

-----------------------------------------------------------------------------
(* What the frame sends *)

SendUnchanged == UNCHANGED <<generation_, univVars, hmd_ok>> /\ FrameUnchanged

\* Mutant: a status is sent once a connection, whatever becomes of the headset.
StatusDueOnce == ~status_sent_

StatusDue == ~status_sent_ \/ hmd_ok # last_hmd_ok_

SendStatus(ok) ==
    /\ fpc = "status" /\ StatusDue
    /\ fpc' = "hello"
    /\ status_due' = TRUE
    /\ L!Send("tracker_status", hmd_ok, ok)
    /\ ordered' = IF ok THEN FALSE ELSE ordered
    /\ status_sent_' = ok
    /\ last_hmd_ok_' = hmd_ok
    /\ UNCHANGED hello_sent_
    /\ SendUnchanged

NoStatus ==
    /\ fpc = "status" /\ ~StatusDue
    /\ fpc' = "hello"
    /\ status_due' = FALSE
    /\ UNCHANGED <<linkVars, status_sent_, hello_sent_, last_hmd_ok_, ordered>>
    /\ SendUnchanged

HelloUnchanged ==
    UNCHANGED <<status_sent_, last_hmd_ok_, status_due>> /\ SendUnchanged

\* Mutant: the universe is sent once and does not follow a later status.
HelloDueOnce == have_universe_ /\ ~hello_sent_

HelloDue == have_universe_ /\ (status_due \/ ~hello_sent_)

SendHello(ok) ==
    /\ fpc = "hello" /\ HelloDue
    /\ fpc' = "position"
    /\ L!Send("uch", universe_.space, ok)
    /\ ordered' = IF ok THEN TRUE ELSE ordered
    /\ hello_sent_' = ok
    /\ HelloUnchanged

NoHello ==
    /\ fpc = "hello" /\ ~HelloDue
    /\ fpc' = "position"
    /\ UNCHANGED <<linkVars, hello_sent_, ordered>>
    /\ HelloUnchanged

\* Mutant: the wrong field of the universe.
PoseSpaceOfId == IF have_universe_ THEN universe_.id ELSE Raw

\* The space SendHmdPose() expresses the pose in.
PoseSpace == IF have_universe_ THEN universe_.space ELSE Raw

\* The end of the frame; its locals are gone.
EndFrame ==
    /\ fpc = "position"
    /\ fpc' = "idle"
    /\ hmd_ok' = "DISCONNECTED" /\ status_due' = FALSE
    /\ UNCHANGED <<sentVars, univVars, ordered>>
    /\ FrameUnchanged

SendHmdPose(ok) == EndFrame /\ L!Send("position", PoseSpace, ok)

\* Less than 10 ms since the last pose.
NoHmdPose == EndFrame /\ UNCHANGED linkVars

-----------------------------------------------------------------------------
(* The network thread, and SteamVR *)

\* Only the frame thread sends and drains.
NetworkThread ==
    /\ \/ L!Announce /\ gen < MaxGen /\ ordered' = FALSE
       \/ L!Publish /\ UNCHANGED ordered
       \/ L!Hangup /\ UNCHANGED ordered
       \/ /\ \E m \in InMsgs : L!Receive(m)
          /\ Len(queue) < MaxQueue
          /\ UNCHANGED ordered
    /\ UNCHANGED <<fpc, sentVars, univVars, localVars,
                   envVars>>

\* The headset comes and goes, reports another universe, and the chaperone data
\* gains, loses or, under the same id, changes an entry.
SteamVR ==
    /\ \/ /\ "hmd" \in Changes
          /\ hmd' \in Statuses \ {hmd}
          /\ UNCHANGED <<uid, known, space>>
       \/ /\ "uid" \in Changes
          /\ uid' \in (Ids \cup {NoId}) \ {uid}
          /\ UNCHANGED <<hmd, known, space>>
       \/ /\ "known" \in Changes
          /\ known' \in SUBSET Ids \ {known}
          /\ UNCHANGED <<hmd, uid, space>>
       \/ /\ "space" \in Changes
          /\ \E i \in Ids, s \in Spaces : space' = [space EXCEPT ![i] = s]
          /\ UNCHANGED <<hmd, uid, known>>
    /\ UNCHANGED <<linkVars, fpc, sentVars, univVars, localVars,
                   universe_fallback_, ordered>>

Frame ==
    \/ BeginFrame \/ CheckGeneration \/ DrainInbox \/ SampleHmd
    \/ NoSearch \/ SearchFinds \/ SearchFails \/ UseFallback
    \/ \E ok \in BOOLEAN : SendPathFailed(ok) \/ SendStatus(ok)
                             \/ SendHello(ok) \/ SendHmdPose(ok)
    \/ NoStatus \/ NoHello \/ NoHmdPose

Next == Frame \/ NetworkThread \/ SteamVR

Spec == Init /\ [][Next]_vars

\* SteamVR calls RunFrame again and again.  Searches are held back by a clock
\* only, so not forever.
Fairness == WF_vars(Frame) /\ SF_vars(SearchFinds \/ SearchFails)

FairSpec == Spec /\ Fairness

-----------------------------------------------------------------------------
(* Properties *)

FlagsTypeOK ==
    /\ status_sent_ \in BOOLEAN /\ hello_sent_ \in BOOLEAN
    /\ have_universe_ \in BOOLEAN /\ using_fallback_ \in BOOLEAN
    /\ universe_fallback_ \in BOOLEAN
    /\ status_due \in BOOLEAN /\ ordered \in BOOLEAN

StateTypeOK ==
    /\ fpc \in {"idle", "generation", "drain", "hmd", "universe", "path_failed",
                "fallback", "status", "hello", "position"}
    /\ generation_ \in Nat
    /\ last_hmd_ok_ \in Statuses /\ hmd_ok \in Statuses /\ hmd \in Statuses
    /\ universe_ \in [id : Ids \cup {NoId}, space : Spaces \cup {Raw}]
    /\ universe_failures_ \in 0..(FallbackAfter + ReportEvery)
    /\ uid \in Ids \cup {NoId}
    /\ known \in SUBSET Ids
    /\ space \in [Ids -> Spaces]

\* Every variable keeps its type; what goes out is a status, a play space or a
\* report of failure, and the counter of failures stays within its bound.
TypeOK == L!LinkTypeOK /\ FlagsTypeOK /\ StateTypeOK

\* The inductive invariant behind HandshakeCurrent: the two flags hold their
\* meaning at every step of a frame, except between a status and the universe
\* that is about to follow it.
Current == generation_ = gen

IInv ==
    /\ TypeOK
    /\ generation_ <= gen
    /\ Current /\ status_sent_ => out["tracker_status"] = last_hmd_ok_
    /\ Current /\ hello_sent_ =>
          \/ out["uch"] = universe_.space /\ ordered
          \/ fpc = "hello" /\ status_due
    /\ hello_sent_ => have_universe_

\* status_sent_ and hello_sent_ decide what is repeated, so they must not claim
\* more than happened.  Between frames, unless the connection was remade since,
\* status_sent_ means that the app's last status is the headset's, and
\* hello_sent_ that the app's universe is the one poses are expressed in and
\* was sent after the last status: whatever sends were dropped, and wherever in
\* earlier frames the connection changed.
HandshakeCurrent ==
    fpc = "idle" /\ Current =>
        /\ status_sent_ => out["tracker_status"] = last_hmd_ok_
        /\ hello_sent_ => have_universe_ /\ out["uch"] = universe_.space /\ ordered

Connected == phase = "up" /\ ~torn

\* A send that is tried again and again goes through at last: it is dropped only
\* while the socket buffer is full.
PosesArrive == SF_vars(SendHello(TRUE)) /\ SF_vars(SendHmdPose(TRUE))

\* The app learns whether the headset is there, after each change of that and on
\* whichever connection lasts (protocol.md, tracker_status).
StatusReachesApp ==
    /\ SF_vars(SendStatus(TRUE))
    /\ <>[]Connected /\ <>[][UNCHANGED hmd]_vars
    => <>[](out["tracker_status"] = hmd)

\* The play space of the headset's universe reaches the app, whichever universe
\* was in use before, and the poses that follow are expressed in it
\* (protocol.md, uch).
UniverseReachesApp ==
    /\ PosesArrive
    /\ <>[](Connected /\ uid \in known) /\ <>[][UNCHANGED <<uid, space>>]_vars
    => <>[](uid \in Ids /\ out["uch"] = space[uid] /\ out["position"] = space[uid])

\* Even if the chaperone data never has the headset's universe, the app is told
\* what it needs: with the fallback on, some universe and poses expressed in it;
\* with the fallback off, that the play space is missing, also on a connection
\* made long after the first failed search.
ToldWithoutData ==
    /\ PosesArrive /\ SF_vars(SendPathFailed(TRUE))
    /\ <>[](Connected /\ uid \in Ids) /\ <>[][UNCHANGED uid]_vars
    /\ <>[](universe_fallback_ \/ uid \notin known)
    => <>[](IF universe_fallback_
            THEN out["uch"] # None /\ out["position"] = out["uch"]
            ELSE UniverseKnown \/ out["path_failed"] = "failed")

=============================================================================
