------------------------------ MODULE Lifecycle ------------------------------
(***************************************************************************)
(* The backend process from its start to its exit: App.Run, the goroutines *)
(* it starts that can fail (the HTTP server and the telemetry listener     *)
(* with its read loop), the channels their errors go through, and the      *)
(* requests http.Server.Shutdown waits for.                                *)
(*                                                                         *)
(* Shutdown waits for the video streams of the viewers, which end when the *)
(* viewers leave and not before, and gives up after five seconds.  What    *)
(* happens to the car meanwhile is CarServer.                              *)
(***************************************************************************)
EXTENDS Integers, Sequences

CONSTANT Viewers  \* the requests for /video/stream

AppErrCapOne == 1 \* seeded fault for the mutant runs: room for one error
AppErrCap == 2    \* errCh of App.Run
LoopErrCap == 1   \* errCh of Listener.Run

VARIABLES
  main,       \* where App.Run stands, or how the process ended
  canceled,   \* the context of Run
  stopCh,     \* a signal waits in it
  errCh,      \* the errors that wait in Run's channel
  http,       \* where the goroutine of httpServer.Run stands
  listener,   \* where the goroutine of telemetryListener.Run stands
  loop,       \* where the goroutine of readLoop stands
  loopErrCh,  \* the result that waits in Listener.Run's channel
  watching    \* the viewers whose request is being served

appVars == <<main, canceled, stopCh, errCh>>
listenerVars == <<listener, loop, loopErrCh>>
processVars == <<appVars, http, listenerVars, watching>>

Ended == {"killed", "ok", "error"}
Alive == main \notin Ended

\* What a goroutine's function may have returned: nil, or an error by where it comes
\* from.  Until it is sent on the goroutine stands at its result.
Results == {"nil", "http", "telemetry"}

------------------------------------------------------------------------------
(* App.Run.                                                                *)

\* signal.Notify; the goroutines are under way by then.
NotifySignals ==
  /\ main = "starting"
  /\ main' = "selecting"
  /\ UNCHANGED <<canceled, stopCh, errCh, http, listenerVars, watching>>

\* SIGINT or SIGTERM.  Before Notify it kills the process; stopCh holds one.
Signal ==
  /\ Alive
  /\ IF main = "starting" THEN main' = "killed" /\ UNCHANGED stopCh
     ELSE stopCh' = TRUE /\ UNCHANGED main
  /\ UNCHANGED <<canceled, errCh, http, listenerVars, watching>>

\* The select of Run takes an error, and Run returns it.
TakeError ==
  /\ main = "selecting" /\ errCh # <<>>
  /\ main' = "error"
  /\ canceled' = TRUE
  /\ errCh' = Tail(errCh)
  /\ UNCHANGED <<stopCh, http, listenerVars, watching>>

\* The select takes the signal; of the two it may take either.
TakeSignal ==
  /\ main = "selecting" /\ stopCh
  /\ main' = "stopping"
  /\ canceled' = TRUE
  /\ stopCh' = FALSE
  /\ UNCHANGED <<errCh, http, listenerVars, watching>>

\* The motors have been stopped; Shutdown closes the HTTP listener, whereupon
\* ListenAndServe returns ErrServerClosed and httpServer.Run nil.
BeginShutdown ==
  /\ main = "stopping"
  /\ main' = "draining"
  /\ http' = IF http = "serving" THEN "nil" ELSE http
  /\ UNCHANGED <<canceled, stopCh, errCh, listenerVars, watching>>

\* No request is left: Run closes the motor client and returns nil.
Drained ==
  /\ main = "draining" /\ watching = {}
  /\ main' = "ok"
  /\ UNCHANGED <<canceled, stopCh, errCh, http, listenerVars, watching>>

\* Seeded fault for the mutant runs: Shutdown is given a context without a limit.
GivesUpNever == FALSE /\ UNCHANGED processVars

\* The five seconds are over: Run returns the error of Shutdown, which does not look
\* again whether the last viewer has left.
GivesUp ==
  /\ main = "draining"
  /\ main' = "error"
  /\ UNCHANGED <<canceled, stopCh, errCh, http, listenerVars, watching>>

------------------------------------------------------------------------------
(* The HTTP server.                                                        *)

HttpFails ==
  /\ Alive /\ http = "serving"
  /\ http' = "http"
  /\ UNCHANGED <<appVars, listenerVars, watching>>

\* errCh takes what Run returned, nil included.
HttpSends ==
  /\ Alive
  /\ http \in Results /\ Len(errCh) < AppErrCap
  /\ errCh' = Append(errCh, http)
  /\ http' = "done"
  /\ UNCHANGED <<main, canceled, stopCh, listenerVars, watching>>

ViewerComes(v) ==
  /\ Alive /\ http = "serving" /\ v \notin watching
  /\ watching' = watching \cup {v}
  /\ UNCHANGED <<appVars, http, listenerVars>>

ViewerLeaves(v) ==
  /\ Alive /\ v \in watching
  /\ watching' = watching \ {v}
  /\ UNCHANGED <<appVars, http, listenerVars>>

------------------------------------------------------------------------------
(* The telemetry listener.                                                 *)

SocketOpen == Alive /\ listener = "waiting"

Bind ==
  /\ Alive /\ listener = "binding"
  /\ \/ listener' = "waiting" /\ loop' = "reading"
     \/ listener' = "telemetry" /\ UNCHANGED loop
  /\ UNCHANGED <<appVars, http, loopErrCh, watching>>

\* Run's select: the context is done, or the loop has a result.  Run returns, and
\* the deferred Close closes the socket.
ListenerReturns ==
  /\ Alive /\ listener = "waiting"
  /\ \/ canceled /\ listener' = "nil" /\ UNCHANGED loopErrCh
     \/ /\ loopErrCh # <<>>
        /\ listener' = Head(loopErrCh)
        /\ loopErrCh' = Tail(loopErrCh)
  /\ UNCHANGED <<appVars, http, loop, watching>>

\* Seeded fault: the error is logged, and the process goes on without telemetry.
ListenerGivesUp ==
  /\ Alive /\ listener \in Results
  /\ listener' = "done"
  /\ UNCHANGED <<appVars, http, loop, loopErrCh, watching>>

\* The goroutine of Run sends the error on, unless it is nil.
ListenerSends ==
  /\ Alive
  /\ \/ listener = "nil" /\ UNCHANGED errCh
     \/ /\ listener \in Results \ {"nil"} /\ Len(errCh) < AppErrCap
        /\ errCh' = Append(errCh, listener)
  /\ listener' = "done"
  /\ UNCHANGED <<main, canceled, stopCh, http, loop, loopErrCh, watching>>

\* readLoop looks at the context before each read.
LoopReturns ==
  /\ Alive /\ loop = "reading" /\ canceled
  /\ loop' = "nil"
  /\ UNCHANGED <<appVars, http, listener, loopErrCh, watching>>

\* A read fails: by itself, or because Run has closed the socket.
LoopFails ==
  /\ Alive /\ loop = "reading"
  /\ loop' = "telemetry"
  /\ UNCHANGED <<appVars, http, listener, loopErrCh, watching>>

LoopSends ==
  /\ Alive
  /\ loop \in Results /\ Len(loopErrCh) < LoopErrCap
  /\ loopErrCh' = Append(loopErrCh, loop)
  /\ loop' = "done"
  /\ UNCHANGED <<appVars, http, listener, watching>>

------------------------------------------------------------------------------
ProcessInit ==
  /\ main = "starting"
  /\ canceled = FALSE
  /\ stopCh = FALSE
  /\ errCh = <<>>
  /\ http = "serving"
  /\ listener = "binding"
  /\ loop = "none"
  /\ loopErrCh = <<>>
  /\ watching = {}

\* What the process does by itself.
ProcessStep ==
  \/ NotifySignals \/ TakeError \/ TakeSignal \/ BeginShutdown \/ Drained \/ GivesUp
  \/ HttpSends
  \/ Bind \/ ListenerReturns \/ ListenerSends \/ LoopReturns \/ LoopSends

\* What is done to it.
ProcessFault ==
  \/ Signal
  \/ HttpFails
  \/ LoopFails
  \/ \E v \in Viewers : ViewerComes(v) \/ ViewerLeaves(v)

------------------------------------------------------------------------------
(* Properties.                                                             *)

\* Nobody ever waits to send: each channel has room for all that is ever sent into
\* it, though a second error, and what Shutdown's own closing brings about, find
\* nobody who reads.
NoSendBlocks ==
  /\ http \in Results => Len(errCh) < AppErrCap
  /\ listener \in Results \ {"nil"} => Len(errCh) < AppErrCap
  /\ loop \in Results => Len(loopErrCh) < LoopErrCap

\* A signal ends the process, even when viewers stay.
SignalEnds == stopCh ~> ~Alive
==============================================================================
