-------------------------- MODULE TelemetryPathProofs --------------------------
(***************************************************************************)
(* For any viewers and any queue, however often both processes end and are *)
(* started again: no goroutine of the backend ever waits to send.          *)
(***************************************************************************)
EXTENDS TelemetryPath, TLAPS

Sent(goroutine) == IF goroutine = "done" THEN 1 ELSE 0

\* A channel holds no more than the goroutines that have sent into it.  The read loop
\* starts when the socket is bound.
SendersFit ==
  /\ listener = "binding" => loop = "none"
  /\ errCh \in Seq(Results) /\ loopErrCh \in Seq(Results)
  /\ Len(errCh) <= Sent(http) + Sent(listener)
  /\ Len(loopErrCh) <= Sent(loop)

LEMMA SmallChannels ==
  ASSUME NEW s \in Seq(Results), NEW r \in Results
  PROVE  /\ Append(s, r) \in Seq(Results) /\ Len(Append(s, r)) = Len(s) + 1
         /\ s # <<>> => Tail(s) \in Seq(Results) /\ Len(Tail(s)) = Len(s) - 1
         /\ s # <<>> => Head(s) \in Results
         /\ Len(s) \in Nat
PROOF OBVIOUS

LEMMA ProcessKeepsFit ==
  ASSUME SendersFit, ProcessStep \/ ProcessFault
  PROVE  SendersFit'
PROOF
<1> USE DEF SendersFit, Sent, appVars, listenerVars
<1>1. CASE NotifySignals \/ TakeSignal \/ Drained \/ GivesUp \/ Signal
  BY <1>1 DEF NotifySignals, TakeSignal, Drained, GivesUp, Signal
<1>2. CASE TakeError
  BY <1>2, SmallChannels DEF TakeError
<1>3. CASE BeginShutdown
  BY <1>3 DEF BeginShutdown
<1>4. CASE HttpSends
  BY <1>4, SmallChannels DEF HttpSends, Results
<1>5. CASE Bind
  BY <1>5 DEF Bind
<1>6. CASE ListenerReturns
  <2>1. errCh' = errCh /\ http' = http /\ loop' = loop /\ Sent(listener) = 0
    BY <1>6 DEF ListenerReturns
  <2>2. loopErrCh' \in Seq(Results) /\ Len(loopErrCh') <= Len(loopErrCh)
    BY <1>6, SmallChannels DEF ListenerReturns
  <2>3. /\ Sent(listener') \in {0, 1} /\ Sent(http) \in {0, 1} /\ Sent(loop) \in {0, 1}
        /\ Len(errCh) \in Nat /\ Len(loopErrCh) \in Nat /\ Len(loopErrCh') \in Nat
    BY <2>2
  <2>4. listener' # "binding"
    BY <1>6, SmallChannels DEF ListenerReturns, Results
  <2> QED
    BY <2>1, <2>2, <2>3, <2>4
<1>7. CASE ListenerSends
  BY <1>7, SmallChannels DEF ListenerSends, Results
<1>8. CASE LoopReturns \/ LoopFails
  BY <1>8 DEF LoopReturns, LoopFails
<1>9. CASE LoopSends
  BY <1>9, SmallChannels DEF LoopSends, Results
<1>10. CASE HttpFails
  BY <1>10 DEF HttpFails
<1>11. ASSUME NEW v \in Viewers, ViewerComes(v) \/ ViewerLeaves(v) PROVE SendersFit'
  BY <1>11 DEF ViewerComes, ViewerLeaves
<1> QED
  BY <1>1, <1>2, <1>3, <1>4, <1>5, <1>6, <1>7, <1>8, <1>9, <1>10, <1>11
  DEF ProcessStep, ProcessFault

LEMMA UnchangedProcessKeepsFit == SendersFit /\ UNCHANGED processVars => SendersFit'
PROOF BY DEF SendersFit, Sent, processVars, appVars, listenerVars

LEMMA FitStep == SendersFit /\ [Next]_vars => SendersFit'
PROOF
<1> SUFFICES ASSUME SendersFit, [Next]_vars PROVE SendersFit'
  OBVIOUS
<1>1. CASE Backend(ProcessStep) \/ Backend(ProcessFault)
  BY <1>1, ProcessKeepsFit DEF Backend
<1>2. CASE Backend(RestartBackend)
  BY <1>2 DEF Backend, RestartBackend, SendersFit, Sent
<1>3. CASE UNCHANGED processVars
  BY <1>3, UnchangedProcessKeepsFit
<1> QED
  BY <1>1, <1>2, <1>3 DEF Next, Relay, vars

\* Every send into errCh, and into the channel of the read loop, finds room.
THEOREM NoSendBlocksAlways == Spec => []NoSendBlocks
PROOF
<1>1. Init => SendersFit
  BY DEF Init, ProcessInit, SendersFit, Sent
<1>2. SendersFit => NoSendBlocks
  <2> SUFFICES ASSUME SendersFit PROVE NoSendBlocks
    OBVIOUS
  <2>1. Len(errCh) \in Nat /\ Len(loopErrCh) \in Nat
    BY DEF SendersFit
  <2> QED
    BY <2>1 DEF SendersFit, Sent, NoSendBlocks, AppErrCap, LoopErrCap, Results
<1> QED
  BY <1>1, <1>2, FitStep, PTL DEF Spec
==============================================================================
