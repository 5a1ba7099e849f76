------------------------------ MODULE MotionWatch ------------------------------
(***************************************************************************)
(* How long the watchdog leaves alone a car that moves without commands.   *)
(*                                                                         *)
(* The history variable unattended counts the time units for which motion  *)
(* has been on record with no command within the timeout, since it came on *)
(* record or the watchdog last tried to write its stop.  No step of the    *)
(* backend reads it.  Drives and reports put motion on record, writes of   *)
(* the stop fail, and drives are recorded after it.                        *)
(***************************************************************************)
EXTENDS CarServer

VARIABLE unattended

watchVars == <<vars, unattended>>

\* The record has the car moving, and nobody has driven it for the timeout: it says
\* what the watchdog is for, not how check finds out.
Overdue == drive # Halt /\ commandAge # Never /\ commandAge > CommandTimeout

\* The watchdog tries to write its stop.
Tries == WriteDatagram(Watchdog) \/ WriteError(Watchdog)

\* The longest way to the next check: a period of the ticker, or a call of the watchdog
\* that is longer; and then the call that the check begins.
CheckLimit == IF Period < MaxStall THEN MaxStall ELSE Period
TryLimit == CheckLimit + MaxStall

\* The count stops beyond TryLimit.
Counts ==
  unattended' =
    IF Tries \/ ~Overdue' THEN 0
    ELSE IF Elapse /\ Overdue /\ unattended <= TryLimit THEN unattended + 1
    ELSE unattended

WatchInit == ServerInit /\ unattended = 0

WatchSpec == WatchInit /\ [][ServerNext /\ Counts]_watchVars

\* The backend of FairServerSpec.
FairWatchSpec ==
  /\ WatchInit /\ [][RunningNext /\ Counts]_watchVars
  /\ ServerFairness

------------------------------------------------------------------------------
\* While the backend runs, motion on record without a command within the timeout meets a
\* stop of the watchdog within TryLimit, and another one within TryLimit for as long as
\* it lasts: whether a drive or the telemetry put it on record, and however many stops
\* failed to be written.
OverdueMotionIsMet == app = "running" => unattended <= TryLimit
==============================================================================
