--------------------------- MODULE BroadcasterProofs ---------------------------
(***************************************************************************)
(* For any viewers and any number of frames: nobody sleeps through a frame *)
(* or its own end, and the service's camera flag is never overtaken.       *)
(*                                                                         *)
(* The camera flag needs where the reader goes on after a notification; a  *)
(* viewer's end needs that a viewer about to wait still has its helper.    *)
(***************************************************************************)
EXTENDS Broadcaster, FiniteSetTheorems, TLAPS

\* The viewers that have a goroutine.
Serving == {v \in Viewers : viewer[v] \notin {"new", "gone"}}

\* What a notification is going to say is still true.
NotificationIsTrue == reader.at = "notifying" => connected = (reader.next = "reading")

\* A viewer about to check or to wait has a helper, or sees that it has left.
HelperWatches ==
  \A v \in Viewers :
    /\ viewer[v] = "checking" => v \in helper \cup left
    /\ viewer[v] = "waiting" => v \in helper

FlagInv == CameraFlagFollows /\ NotificationIsTrue

BroadcastInv == TypeOK /\ NoMissedFrame /\ HelperWatches

Places == {"looping", "dialing", "reading", "pausing", "stopped"}

LEMMA ServingIsFinite == IsFiniteSet(Serving)
PROOF BY BroadcasterAssumption, FS_Subset DEF Serving

LEMMA PlacesAreTyped ==
  ASSUME NEW place \in Places
  PROVE  /\ At(place) \in [at : Places \cup {"notifying"}, next : Places]
         /\ Notify(place) \in [at : Places \cup {"notifying"}, next : Places]
PROOF BY DEF At, Notify, Places

\* Waking changes nobody who serves, and leaves nobody waiting.
LEMMA WakingKeeps ==
  ASSUME TypeOK, viewer' = Woken
  PROVE  /\ viewer' \in [Viewers -> {"new", "checking", "waiting", "writing", "gone"}]
         /\ Serving' = Serving
         /\ \A v \in Viewers : viewer'[v] # "waiting"
         /\ \A v \in Viewers : viewer'[v] = "checking" => viewer[v] \in {"checking", "waiting"}
PROOF BY DEF TypeOK, Woken, Serving

\* A viewer that moves on without coming or going.
LEMMA StayingKeepsCount ==
  ASSUME TypeOK, NEW v \in Viewers, NEW place \in {"checking", "waiting", "writing"},
         viewer[v] \notin {"new", "gone"},
         viewer' = [viewer EXCEPT ![v] = place]
  PROVE  Serving' = Serving
PROOF BY DEF TypeOK, Serving

\* A viewer that goes is counted off exactly once.
LEMMA RemovingKeepsCount ==
  ASSUME TypeOK, NEW v \in Viewers, viewer[v] \in {"checking", "writing"}, RemoveViewer(v)
  PROVE  /\ viewer' \in [Viewers -> {"new", "checking", "waiting", "writing", "gone"}]
         /\ viewersCount' = Cardinality(Serving')
PROOF
<1>1. viewer' = [viewer EXCEPT ![v] = "gone"]
  BY DEF RemoveViewer
<1>2. Serving' = Serving \ {v} /\ v \in Serving
  BY <1>1 DEF TypeOK, Serving
<1>3. Cardinality(Serving') = Cardinality(Serving) - 1
  BY <1>2, ServingIsFinite, FS_RemoveElement
<1>4. Cardinality(Serving) \in Nat /\ Serving # {}
  BY <1>2, ServingIsFinite, FS_CardinalityType
<1>5. Cardinality(Serving) # 0
  BY <1>4, ServingIsFinite, FS_EmptySet
<1>6. viewersCount = Cardinality(Serving)
  BY DEF TypeOK, Serving
<1> QED
  BY <1>1, <1>3, <1>4, <1>5, <1>6 DEF RemoveViewer, TypeOK

LEMMA InitInv == Init => BroadcastInv /\ FlagInv
PROOF
<1> SUFFICES ASSUME Init PROVE BroadcastInv /\ FlagInv
  OBVIOUS
<1>1. Serving = {}
  BY DEF Init, Serving
<1>2. viewersCount = Cardinality({v \in Viewers : viewer[v] \notin {"new", "gone"}})
  BY <1>1, FS_EmptySet DEF Init, Serving
<1>3. reader \in
        [at : {"looping", "dialing", "reading", "pausing", "notifying", "stopped"},
         next : {"looping", "dialing", "reading", "pausing", "stopped"}]
  BY DEF Init, At
<1>4. /\ frameSeq \in 0 .. MaxFrames
      /\ viewer \in [Viewers -> {"new", "checking", "waiting", "writing", "gone"}]
      /\ lastSeq \in [Viewers -> 0 .. frameSeq]
  BY BroadcasterAssumption DEF Init
<1>5. TypeOK
  BY <1>2, <1>3, <1>4 DEF Init, TypeOK
<1> QED
  BY <1>5 DEF Init, BroadcastInv, FlagInv, NoMissedFrame, HelperWatches,
              CameraFlagFollows, NotificationIsTrue, At

------------------------------------------------------------------------------
(* The reader.                                                             *)

\* Every step of the reader, its notifications included, keeps the flag true.
LEMMA StepKeepsFlag ==
  ASSUME TypeOK, FlagInv, [Next]_vars
  PROVE  FlagInv'
PROOF
<1> USE DEF FlagInv, CameraFlagFollows, NotificationIsTrue, At, Notify
<1>1. CASE StartOver
  <2>1. cameraConnected = connected
    BY <1>1 DEF StartOver
  <2>2. CASE canceled
    <3>1. SetDisconnected("stopped") /\ UNCHANGED cameraConnected
      BY <1>1, <2>2 DEF StartOver
    <3>2. CASE connected
      BY <2>1, <3>1, <3>2 DEF SetDisconnected
    <3>3. CASE ~connected
      BY <2>1, <3>1, <3>3 DEF SetDisconnected, TypeOK
    <3> QED
      BY <3>2, <3>3
  <2>3. CASE ~canceled
    BY <1>1, <2>1, <2>3 DEF StartOver
  <2> QED
    BY <2>2, <2>3
<1>2. CASE Pause
  BY <1>2 DEF Pause, TypeOK
<1>3. CASE SetCameraConnected
  BY <1>3 DEF SetCameraConnected, TypeOK
<1>4. CASE Dial
  BY <1>4 DEF Dial, TypeOK
<1>5. CASE PublishFrame
  BY <1>5 DEF PublishFrame, TypeOK
<1>6. CASE StreamEnds
  BY <1>6 DEF StreamEnds, SetDisconnected, TypeOK
<1>7. CASE Cancel
  BY <1>7 DEF Cancel
<1>8. ASSUME NEW v \in Viewers, AddViewer(v) \/ ViewerStep(v) \/ Leave(v) \/ HelperWakes(v)
      PROVE  FlagInv'
  <2>1. UNCHANGED cameraVars
    BY <1>8 DEF AddViewer, ViewerStep, CheckFrame, WriteFrame, WriteFails, Leave, HelperWakes
  <2> QED
    BY <2>1 DEF cameraVars
<1>9. CASE UNCHANGED vars
  BY <1>9 DEF vars, cameraVars
<1> QED
  BY <1>1, <1>2, <1>3, <1>4, <1>5, <1>6, <1>7, <1>8, <1>9 DEF Next, ReaderStep

\* A step of the reader that wakes the viewers, or leaves them and the frame alone.
LEMMA ReaderKeepsInv ==
  ASSUME BroadcastInv,
         reader' \in [at : Places \cup {"notifying"}, next : Places],
         <<connected, cameraConnected, canceled>>' \in BOOLEAN \X BOOLEAN \X BOOLEAN,
         frameSeq' \in frameSeq .. MaxFrames,
         UNCHANGED viewerVars,
         \/ viewer' = Woken
         \/ UNCHANGED <<viewer, frameSeq>>
  PROVE  BroadcastInv'
PROOF
<1>1. /\ viewer' \in [Viewers -> {"new", "checking", "waiting", "writing", "gone"}]
      /\ Serving' = Serving
  BY WakingKeeps DEF BroadcastInv, TypeOK, Serving
<1>2. viewersCount' = Cardinality(Serving')
  BY <1>1 DEF BroadcastInv, TypeOK, Serving, viewerVars
<1>3. lastSeq' \in [Viewers -> 0 .. frameSeq']
  BY BroadcasterAssumption DEF BroadcastInv, TypeOK, viewerVars
<1>4. TypeOK'
  BY <1>1, <1>2, <1>3, BroadcasterAssumption
  DEF BroadcastInv, TypeOK, Serving, viewerVars, Places
<1>5. NoMissedFrame' /\ HelperWatches'
  BY WakingKeeps DEF BroadcastInv, NoMissedFrame, HelperWatches, viewerVars
<1> QED
  BY <1>4, <1>5 DEF BroadcastInv

LEMMA ReaderStepsKeepInv ==
  ASSUME BroadcastInv, ReaderStep \/ Dial \/ PublishFrame \/ StreamEnds \/ Cancel
  PROVE  BroadcastInv'
PROOF
<1> USE BroadcasterAssumption
<1>0. frameSeq \in frameSeq .. MaxFrames /\ frameSeq \in Nat
  BY DEF BroadcastInv, TypeOK
<1>1. ASSUME NEW place \in Places, SetDisconnected(place),
             UNCHANGED <<frameSeq, cameraConnected, canceled, viewerVars>>
      PROVE  BroadcastInv'
  BY <1>0, <1>1, PlacesAreTyped, ReaderKeepsInv DEF SetDisconnected, BroadcastInv, TypeOK
<1>2. CASE StartOver
  BY <1>0, <1>1, <1>2, PlacesAreTyped, ReaderKeepsInv DEF StartOver, BroadcastInv, TypeOK, Places
<1>3. CASE Pause
  BY <1>0, <1>3, PlacesAreTyped, ReaderKeepsInv DEF Pause, BroadcastInv, TypeOK, Places
<1>4. CASE SetCameraConnected
  <2>1. At(reader.next) \in [at : Places \cup {"notifying"}, next : Places]
    BY PlacesAreTyped DEF BroadcastInv, TypeOK, Places
  <2> QED
    BY <1>0, <1>4, <2>1, ReaderKeepsInv DEF SetCameraConnected, BroadcastInv, TypeOK
<1>5. CASE Dial
  BY <1>0, <1>5, PlacesAreTyped, ReaderKeepsInv DEF Dial, BroadcastInv, TypeOK, Places
<1>6. CASE PublishFrame
  <2>1. frameSeq' \in frameSeq .. MaxFrames
    BY <1>0, <1>6 DEF PublishFrame, BroadcastInv, TypeOK
  <2>2. reader' \in [at : Places \cup {"notifying"}, next : Places]
    BY <1>6, PlacesAreTyped DEF PublishFrame, BroadcastInv, TypeOK, Places
  <2> QED
    BY <1>6, <2>1, <2>2, ReaderKeepsInv DEF PublishFrame, BroadcastInv, TypeOK
<1>7. CASE StreamEnds
  BY <1>1, <1>7 DEF StreamEnds, Places
<1>8. CASE Cancel
  BY <1>0, <1>8, ReaderKeepsInv DEF Cancel, BroadcastInv, TypeOK, Places
<1> QED
  BY <1>2, <1>3, <1>4, <1>5, <1>6, <1>7, <1>8 DEF ReaderStep

------------------------------------------------------------------------------
(* The viewers.                                                            *)

LEMMA AddViewerKeepsInv ==
  ASSUME BroadcastInv, NEW v \in Viewers, AddViewer(v)
  PROVE  BroadcastInv'
PROOF
<1>1. Serving' = Serving \cup {v} /\ v \notin Serving
  BY DEF AddViewer, BroadcastInv, TypeOK, Serving
<1>2. Cardinality(Serving') = Cardinality(Serving) + 1
  BY <1>1, ServingIsFinite, FS_AddElement
<1>3. viewersCount' = Cardinality(Serving')
  BY <1>2 DEF AddViewer, BroadcastInv, TypeOK, Serving
<1>4. TypeOK'
  BY <1>3 DEF AddViewer, BroadcastInv, TypeOK, Serving, cameraVars
<1>5. NoMissedFrame' /\ HelperWatches'
  BY DEF AddViewer, BroadcastInv, TypeOK, NoMissedFrame, HelperWatches, cameraVars
<1> QED
  BY <1>4, <1>5 DEF BroadcastInv

LEMMA CheckFrameKeepsInv ==
  ASSUME BroadcastInv, NEW v \in Viewers, CheckFrame(v)
  PROVE  BroadcastInv'
PROOF
<1>1. viewer[v] = "checking"
  BY DEF CheckFrame
<1>2. /\ viewer' \in [Viewers -> {"new", "checking", "waiting", "writing", "gone"}]
      /\ viewersCount' = Cardinality(Serving')
  <2>1. CASE frameSeq # lastSeq[v]
    <3>1. viewer' = [viewer EXCEPT ![v] = "writing"] /\ viewersCount' = viewersCount
      BY <2>1 DEF CheckFrame
    <3>2. Serving' = Serving
      BY <1>1, <3>1, StayingKeepsCount DEF BroadcastInv
    <3> QED
      BY <3>1, <3>2 DEF BroadcastInv, TypeOK, Serving
  <2>2. CASE frameSeq = lastSeq[v] /\ v \in left
    BY <1>1, <2>2, RemovingKeepsCount DEF CheckFrame, BroadcastInv
  <2>3. CASE frameSeq = lastSeq[v] /\ v \notin left
    <3>1. viewer' = [viewer EXCEPT ![v] = "waiting"] /\ viewersCount' = viewersCount
      BY <2>3 DEF CheckFrame
    <3>2. Serving' = Serving
      BY <1>1, <3>1, StayingKeepsCount DEF BroadcastInv
    <3> QED
      BY <3>1, <3>2 DEF BroadcastInv, TypeOK, Serving
  <2> QED
    BY <2>1, <2>2, <2>3
<1>3. lastSeq' \in [Viewers -> 0 .. frameSeq'] /\ helper' \subseteq Viewers
  BY BroadcasterAssumption DEF CheckFrame, BroadcastInv, TypeOK, cameraVars
<1>4. TypeOK'
  BY <1>2, <1>3 DEF CheckFrame, BroadcastInv, TypeOK, Serving, cameraVars
<1>5. NoMissedFrame'
  BY DEF CheckFrame, RemoveViewer, BroadcastInv, TypeOK, NoMissedFrame, cameraVars
<1>6. HelperWatches'
  BY DEF CheckFrame, RemoveViewer, BroadcastInv, TypeOK, HelperWatches, cameraVars
<1> QED
  BY <1>4, <1>5, <1>6 DEF BroadcastInv

LEMMA WriteFrameKeepsInv ==
  ASSUME BroadcastInv, NEW v \in Viewers, WriteFrame(v)
  PROVE  BroadcastInv'
PROOF
<1>1. Serving' = Serving
  BY StayingKeepsCount DEF WriteFrame, BroadcastInv
<1>2. TypeOK'
  BY <1>1 DEF WriteFrame, BroadcastInv, TypeOK, Serving, cameraVars
<1>3. NoMissedFrame' /\ HelperWatches'
  BY DEF WriteFrame, BroadcastInv, TypeOK, NoMissedFrame, HelperWatches, cameraVars
<1> QED
  BY <1>2, <1>3 DEF BroadcastInv

LEMMA WriteFailsKeepsInv ==
  ASSUME BroadcastInv, NEW v \in Viewers, WriteFails(v)
  PROVE  BroadcastInv'
PROOF
<1>1. /\ viewer' \in [Viewers -> {"new", "checking", "waiting", "writing", "gone"}]
      /\ viewersCount' = Cardinality(Serving')
  BY RemovingKeepsCount DEF WriteFails, BroadcastInv
<1>2. TypeOK'
  BY <1>1 DEF WriteFails, BroadcastInv, TypeOK, Serving, cameraVars
<1>3. NoMissedFrame' /\ HelperWatches'
  BY DEF WriteFails, RemoveViewer, BroadcastInv, TypeOK, NoMissedFrame, HelperWatches, cameraVars
<1> QED
  BY <1>2, <1>3 DEF BroadcastInv

LEMMA LeaveKeepsInv ==
  ASSUME BroadcastInv, NEW v \in Viewers, Leave(v)
  PROVE  BroadcastInv'
PROOF BY DEF Leave, BroadcastInv, TypeOK, NoMissedFrame, HelperWatches, cameraVars

LEMMA HelperWakesKeepsInv ==
  ASSUME BroadcastInv, NEW v \in Viewers, HelperWakes(v)
  PROVE  BroadcastInv'
PROOF
<1>1. viewer' = Woken
  BY DEF HelperWakes
<1>2. TypeOK'
  BY <1>1, WakingKeeps DEF HelperWakes, BroadcastInv, TypeOK, Serving, cameraVars
<1>3. NoMissedFrame' /\ HelperWatches'
  BY <1>1, WakingKeeps DEF HelperWakes, BroadcastInv, NoMissedFrame, HelperWatches, cameraVars
<1> QED
  BY <1>2, <1>3 DEF BroadcastInv

THEOREM BroadcastStepInv == BroadcastInv /\ FlagInv /\ [Next]_vars => BroadcastInv' /\ FlagInv'
PROOF
<1> SUFFICES ASSUME BroadcastInv, FlagInv, [Next]_vars PROVE BroadcastInv' /\ FlagInv'
  OBVIOUS
<1>1. FlagInv'
  BY StepKeepsFlag DEF BroadcastInv
<1>2. ASSUME UNCHANGED vars PROVE BroadcastInv'
  BY <1>2 DEF vars, cameraVars, viewerVars, BroadcastInv, TypeOK, NoMissedFrame, HelperWatches
<1> QED
  BY <1>1, <1>2, ReaderStepsKeepInv, AddViewerKeepsInv, CheckFrameKeepsInv, WriteFrameKeepsInv,
     WriteFailsKeepsInv, LeaveKeepsInv, HelperWakesKeepsInv
  DEF Next, ViewerStep

LEMMA BroadcastInvAlways == Spec => [](BroadcastInv /\ FlagInv)
PROOF BY InitInv, BroadcastStepInv, PTL DEF Spec

\* The number of viewers is that of the goroutines that serve one, and every variable
\* stays in its range.
THEOREM TypeOKAlways == Spec => []TypeOK
PROOF
<1>1. BroadcastInv => TypeOK
  BY DEF BroadcastInv
<1> QED
  BY <1>1, BroadcastInvAlways, PTL

\* A viewer in Wait has sent the newest frame.
THEOREM NoMissedFrameAlways == Spec => []NoMissedFrame
PROOF
<1>1. BroadcastInv => NoMissedFrame
  BY DEF BroadcastInv
<1> QED
  BY <1>1, BroadcastInvAlways, PTL

\* A viewer in Wait whose request has ended has a helper that is going to wake it.
THEOREM NoMissedEndAlways == Spec => []NoMissedEnd
PROOF
<1>1. BroadcastInv => NoMissedEnd
  BY DEF BroadcastInv, HelperWatches, NoMissedEnd
<1> QED
  BY <1>1, BroadcastInvAlways, PTL

\* The camera flag the service was given is the broadcaster's own, notifications apart.
THEOREM CameraFlagFollowsAlways == Spec => []CameraFlagFollows
PROOF
<1>1. FlagInv => CameraFlagFollows
  BY DEF FlagInv
<1> QED
  BY <1>1, BroadcastInvAlways, PTL
==============================================================================
