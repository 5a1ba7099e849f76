------------------------------ MODULE Broadcaster ------------------------------
(***************************************************************************)
(* camera.Broadcaster: one goroutine reads the camera's MJPEG stream and   *)
(* publishes each frame; every viewer has a goroutine that sleeps on a     *)
(* condition variable until there is a frame it has not sent.              *)
(*                                                                         *)
(* A viewer that leaves must be woken too: waitNextFrame starts a helper   *)
(* goroutine that broadcasts when the request's context ends.  The mutex   *)
(* is held from the check of the frame to the Wait, so each is one action. *)
(* The flag in control.Service is set after the mutex is released.         *)
(* Frames are told apart by their number.                                  *)
(***************************************************************************)
EXTENDS Integers, FiniteSets

CONSTANTS
  Viewers,   \* the requests for /video/stream
  MaxFrames  \* bound: the frames the camera sends

ASSUME BroadcasterAssumption == IsFiniteSet(Viewers) /\ MaxFrames \in Nat

VARIABLES
  frameSeq,         \* Broadcaster.frameSeq, and so Broadcaster.frame
  connected,        \* Broadcaster.connected
  viewersCount,     \* Broadcaster.viewersCount
  cameraConnected,  \* State.CameraConnected of the control service
  canceled,         \* the application's context has ended
  reader,           \* where Run stands: [at, next], next after a notification
  viewer,           \* where each viewer's goroutine stands
  lastSeq,          \* ServeHTTP's lastSeq
  left,             \* the viewers whose request context has ended
  helper            \* the viewers whose helper goroutine waits for that

cameraVars == <<frameSeq, connected, cameraConnected, canceled, reader>>
viewerVars == <<viewersCount, lastSeq, left, helper>>
vars == <<cameraVars, viewer, viewerVars>>

At(place) == [at |-> place, next |-> place]

\* SetCameraConnected comes next, and then the rest of Run.
Notify(place) == [at |-> "notifying", next |-> place]

\* cond.Broadcast: everybody in Wait competes for the mutex again.
Woken == [v \in Viewers |-> IF viewer[v] = "waiting" THEN "checking" ELSE viewer[v]]

------------------------------------------------------------------------------
(* The goroutine that reads the camera.                                    *)

\* setDisconnected, then Run goes on at the given place.
SetDisconnected(place) ==
  /\ connected' = FALSE
  /\ viewer' = Woken
  /\ reader' = IF connected THEN Notify(place) ELSE At(place)

\* The top of Run's loop.
StartOver ==
  /\ reader.at = "looping"
  /\ IF canceled THEN SetDisconnected("stopped")
     ELSE reader' = At("dialing") /\ UNCHANGED <<connected, viewer>>
  /\ UNCHANGED <<frameSeq, cameraConnected, canceled, viewerVars>>

\* Seeded fault for the mutant runs: wasConnected is read after the assignment.
DialLateRead ==
  /\ reader.at = "dialing"
  /\ connected' = TRUE
  /\ viewer' = Woken
  /\ reader' = At("reading")
  /\ UNCHANGED <<frameSeq, cameraConnected, canceled, viewerVars>>

\* readStream has a good response: setConnected, even if the context has ended
\* since.
Dial ==
  /\ reader.at = "dialing"
  /\ connected' = TRUE
  /\ viewer' = Woken
  /\ reader' = IF connected THEN At("reading") ELSE Notify("reading")
  /\ UNCHANGED <<frameSeq, cameraConnected, canceled, viewerVars>>

\* Seeded fault: a frame is published without waking the viewers.
PublishQuietly ==
  /\ reader.at = "reading" /\ frameSeq < MaxFrames
  /\ frameSeq' = frameSeq + 1
  /\ connected' = TRUE
  /\ viewer' = viewer
  /\ reader' = IF connected THEN reader ELSE Notify("reading")
  /\ UNCHANGED <<cameraConnected, canceled, viewerVars>>

\* readStream has a frame: publishFrame.
PublishFrame ==
  /\ reader.at = "reading" /\ frameSeq < MaxFrames
  /\ frameSeq' = frameSeq + 1
  /\ connected' = TRUE
  /\ viewer' = Woken
  /\ reader' = IF connected THEN reader ELSE Notify("reading")
  /\ UNCHANGED <<cameraConnected, canceled, viewerVars>>

\* Seeded fault: the end of the stream is no error, so Run does not disconnect.
StreamEndsQuietly ==
  /\ reader.at \in {"dialing", "reading"}
  /\ reader' = At("pausing")
  /\ UNCHANGED <<frameSeq, connected, viewer, cameraConnected, canceled, viewerVars>>

\* readStream fails, before or after the response or because the context ended;
\* it never returns without an error.
StreamEnds ==
  /\ reader.at \in {"dialing", "reading"}
  /\ SetDisconnected("pausing")
  /\ UNCHANGED <<frameSeq, cameraConnected, canceled, viewerVars>>

\* The two seconds are over, or the context has ended.
Pause ==
  /\ reader.at = "pausing"
  /\ reader' = At("looping") \/ (canceled /\ reader' = At("stopped"))
  /\ UNCHANGED <<frameSeq, connected, viewer, cameraConnected, canceled, viewerVars>>

\* SetCameraConnected, outside the mutex: setConnected and publishFrame go on
\* reading with TRUE, setDisconnected elsewhere with FALSE.
SetCameraConnected ==
  /\ reader.at = "notifying"
  /\ cameraConnected' = (reader.next = "reading")
  /\ reader' = At(reader.next)
  /\ UNCHANGED <<frameSeq, connected, viewer, canceled, viewerVars>>

\* App.Run cancels the context.
Cancel ==
  /\ ~canceled
  /\ canceled' = TRUE
  /\ UNCHANGED <<frameSeq, connected, cameraConnected, reader, viewer, viewerVars>>

------------------------------------------------------------------------------
(* A viewer.                                                               *)

\* ServeHTTP: addViewer, and the first call of waitNextFrame.
AddViewer(v) ==
  /\ viewer[v] = "new"
  /\ viewer' = [viewer EXCEPT ![v] = "checking"]
  /\ viewersCount' = viewersCount + 1
  /\ helper' = helper \cup {v}
  /\ UNCHANGED <<cameraVars, lastSeq, left>>

\* Seeded fault: a viewer that goes is not taken off the count.
RemoveViewerUncounted(v) ==
  /\ viewer' = [viewer EXCEPT ![v] = "gone"]
  /\ viewersCount' = viewersCount

\* removeViewer, deferred by ServeHTTP; it never counts below zero.
RemoveViewer(v) ==
  /\ viewer' = [viewer EXCEPT ![v] = "gone"]
  /\ viewersCount' = IF viewersCount > 0 THEN viewersCount - 1 ELSE viewersCount

\* waitNextFrame holds the mutex: there is a frame, or the viewer has left, or
\* it waits.  On return the helper is told to end.
CheckFrame(v) ==
  /\ viewer[v] = "checking"
  /\ \/ /\ frameSeq # lastSeq[v]
        /\ lastSeq' = [lastSeq EXCEPT ![v] = frameSeq]
        /\ viewer' = [viewer EXCEPT ![v] = "writing"]
        /\ helper' = helper \ {v}
        /\ UNCHANGED viewersCount
     \/ /\ frameSeq = lastSeq[v] /\ v \in left
        /\ RemoveViewer(v)
        /\ helper' = helper \ {v}
        /\ UNCHANGED lastSeq
     \/ /\ frameSeq = lastSeq[v] /\ v \notin left
        /\ viewer' = [viewer EXCEPT ![v] = "waiting"]
        /\ UNCHANGED <<lastSeq, helper, viewersCount>>
  /\ UNCHANGED <<cameraVars, left>>

\* The frame is written, and waitNextFrame is called again.
WriteFrame(v) ==
  /\ viewer[v] = "writing"
  /\ viewer' = [viewer EXCEPT ![v] = "checking"]
  /\ helper' = helper \cup {v}
  /\ UNCHANGED <<cameraVars, viewersCount, lastSeq, left>>

\* The write fails, because the viewer has left or for another reason.
WriteFails(v) ==
  /\ viewer[v] = "writing"
  /\ RemoveViewer(v)
  /\ UNCHANGED <<cameraVars, lastSeq, left, helper>>

\* The viewer's browser closes the request.
Leave(v) ==
  /\ viewer[v] \notin {"new", "gone"} /\ v \notin left
  /\ left' = left \cup {v}
  /\ UNCHANGED <<cameraVars, viewer, viewersCount, lastSeq, helper>>

\* Seeded fault: the helper ends without waking anybody.
HelperQuietly(v) ==
  /\ v \in helper \cap left
  /\ helper' = helper \ {v}
  /\ UNCHANGED <<cameraVars, viewer, viewersCount, lastSeq, left>>

\* The helper sees the context end: it takes the mutex and broadcasts.
HelperWakes(v) ==
  /\ v \in helper \cap left
  /\ viewer' = Woken
  /\ helper' = helper \ {v}
  /\ UNCHANGED <<cameraVars, viewersCount, lastSeq, left>>

------------------------------------------------------------------------------
Init ==
  /\ frameSeq = 0
  /\ connected = FALSE
  /\ viewersCount = 0
  /\ cameraConnected = FALSE
  /\ canceled = FALSE
  /\ reader = At("looping")
  /\ viewer = [v \in Viewers |-> "new"]
  /\ lastSeq = [v \in Viewers |-> 0]
  /\ left = {}
  /\ helper = {}

\* What Run does by itself once it is under way.
ReaderStep == StartOver \/ Pause \/ SetCameraConnected

ViewerStep(v) == CheckFrame(v) \/ WriteFrame(v) \/ WriteFails(v)

Next ==
  \/ ReaderStep \/ Dial \/ PublishFrame \/ StreamEnds \/ Cancel
  \/ \E v \in Viewers : AddViewer(v) \/ ViewerStep(v) \/ Leave(v) \/ HelperWakes(v)

\* Goroutines that can go on do; a request of the camera ends with the context;
\* a write to a browser ends.  Nothing makes the camera answer or send frames,
\* or a viewer come or leave.
Spec ==
  /\ Init /\ [][Next]_vars
  /\ WF_vars(ReaderStep)
  /\ WF_vars(canceled /\ StreamEnds)
  /\ \A v \in Viewers : WF_vars(ViewerStep(v)) /\ WF_vars(HelperWakes(v))

------------------------------------------------------------------------------
\* The number of viewers counts the goroutines that serve one.
TypeOK ==
  /\ frameSeq \in 0 .. MaxFrames
  /\ connected \in BOOLEAN /\ cameraConnected \in BOOLEAN /\ canceled \in BOOLEAN
  /\ reader \in
       [at : {"looping", "dialing", "reading", "pausing", "notifying", "stopped"},
        next : {"looping", "dialing", "reading", "pausing", "stopped"}]
  /\ viewer \in [Viewers -> {"new", "checking", "waiting", "writing", "gone"}]
  /\ lastSeq \in [Viewers -> 0 .. frameSeq]
  /\ left \subseteq Viewers /\ helper \subseteq Viewers
  /\ viewersCount = Cardinality({v \in Viewers : viewer[v] \notin {"new", "gone"}})

\* Nobody sleeps through a frame: a viewer in Wait has sent the newest.
NoMissedFrame == \A v \in Viewers : viewer[v] = "waiting" => lastSeq[v] = frameSeq

\* Nobody sleeps through its own end: a viewer that has left and is in Wait
\* still has a helper that is going to wake it.
NoMissedEnd == \A v \in Viewers : viewer[v] = "waiting" /\ v \in left => v \in helper

\* What the service is told outside the mutex is what the broadcaster knows, as
\* soon as the notification is over: no later update overtakes it.
CameraFlagFollows == reader.at # "notifying" => cameraConnected = connected

\* A viewer that has left is let go, even if the camera never sends again.
LeaversAreReleased == \A v \in Viewers : v \in left ~> viewer[v] = "gone"

\* A shutdown ends the reader with the camera shown as disconnected.
ShutdownDisconnects == canceled ~> [](reader.at = "stopped" /\ ~cameraConnected)
==============================================================================
