-------------------------------- MODULE Recording --------------------------------
(***************************************************************************)
(* One recording of user actions: record_start, record_stop and            *)
(* record_await in the service worker, the capture in the pages of the     *)
(* Agent Window, and the messages between them.                            *)
(*                                                                         *)
(* A page is the content script of a tab's document; a tab that loads, or  *)
(* shows a page where no content script may run, has none. Steps are       *)
(* messages of their own: a STOP may overtake them, and the page therefore *)
(* answers it only when they are through.                                  *)
(***************************************************************************)
EXTENDS AgentWindow, Naturals

CONSTANT MaxSends \* bound: steps of one page in flight

ASSUME RecordingAssumption == MaxSends \in Nat

VARIABLES
  start,   \* handleRecordStart: where it is
  target,  \* the tab that record_start has resolved
  aborted, \* record_start's abort signal
  entry,   \* recordings has the session's recording
  settled, \* how finishPromise has settled
  finish,  \* finishRecording: where it is ("no": finishing is false)
  todo,    \* tabs it has yet to stop
  asked,   \* the tab whose answer to STOP it awaits
  tab,     \* recording.tabId
  watch,   \* detachBrowserObservation: the tab and navigation listeners are on
  timers,  \* rearmTimers
  rearm,   \* per tab: the state of rearmRecording()'s START message
  page,    \* per tab: the content script
  await,   \* handleRecordAwait
  stop,    \* handleRecordStop
  flushed  \* history: in this finish the page of recording.tabId has confirmed its
           \* steps, or the recording has gone over to it

recording == <<entry, settled, tab, watch>>
finishing == <<finish, todo, asked>>
arming    == <<timers, rearm>>
starting  == <<start, target, aborted>>
callers   == <<await, stop>>
vars == <<starting, recording, finishing, arming, page, callers, flushed>>

\* capture: recordCapture is set; active: activeRecordRequestId is set; flush:
\* a STOP waits for the steps that were on their way when it arrived; owed: those
\* steps; sends: the other steps on their way; failed: the recording is in
\* failedStepDeliveries.
NoPage  == [script |-> FALSE, capture |-> FALSE, active |-> FALSE, flush |-> FALSE,
            failed |-> FALSE, owed |-> 0, sends |-> 0]
NewPage == [NoPage EXCEPT !.script = TRUE]

Init ==
  /\ start = "none" /\ target = None /\ aborted = FALSE
  /\ entry = FALSE /\ settled = "no" /\ tab = None /\ watch = FALSE
  /\ finish = "no" /\ todo = {} /\ asked = None
  /\ timers = {} /\ rearm = [t \in Tabs |-> "none"]
  /\ page \in [Tabs -> {NoPage, NewPage}]
  /\ await = "none" /\ stop = "none"
  /\ flushed = FALSE

-----------------------------------------------------------------------------
\* Helpers

\* RECORD_START in a page: a running capture is disposed of and a new one starts.
Armed(p) == [p EXCEPT !.capture = TRUE, !.active = TRUE]

\* record_start returns: its target and its signal end with it.
StartEnds(how) == start' = how /\ target' = None /\ aborted' = FALSE
StartGoesOn(at) == start' = at /\ UNCHANGED <<target, aborted>>

\* abortPending(): the session's entry goes, whatever has become of it, and the
\* observers with it. finishPromise is left as it is.
AbortPending == entry' = FALSE /\ watch' = FALSE /\ flushed' = FALSE

\* finishPromise settles once; the one who awaits it learns how.
SettleAs(how) ==
  /\ settled' = IF settled = "no" THEN how ELSE settled
  /\ await' = IF await = "waiting" /\ settled = "no" THEN "ended" ELSE await

-----------------------------------------------------------------------------
\* Actions: record_start

RecordStart(t) ==
  /\ start = "none" /\ start' = "navigating"
  /\ target' = t /\ tab' = t
  /\ entry' = TRUE /\ watch' = TRUE
  /\ UNCHANGED <<aborted, settled, finishing, arming, page, callers, flushed>>

\* The daemon's cancel: the handler looks at the signal between its steps.
CancelStart ==
  /\ start \in {"navigating", "loading", "arming"} /\ aborted' = TRUE
  /\ UNCHANGED <<start, target, recording, finishing, arming, page, callers, flushed>>

\* handleNavigate() has returned: the target has a new document, or an error.
StartNavigated ==
  /\ start = "navigating"
  /\ \/ ~aborted /\ StartGoesOn("loading") /\ UNCHANGED <<entry, watch, flushed>>
     \/ AbortPending /\ StartEnds("failed")
  /\ page' = [page EXCEPT ![target] = NoPage]
  /\ UNCHANGED <<settled, tab, finishing, arming, callers>>

\* The tab is complete or has taken too long: the recording may be gone by now,
\* and the page may be one that cannot be recorded.
StartLoaded ==
  /\ start = "loading"
  /\ \/ AbortPending /\ StartEnds("failed")
     \/ ~aborted /\ ~entry /\ StartEnds("failed") /\ UNCHANGED <<entry, watch, flushed>>
     \/ ~aborted /\ entry /\ StartGoesOn("arming") /\ UNCHANGED <<entry, watch, flushed>>
  /\ UNCHANGED <<settled, tab, finishing, arming, page, callers>>

\* The target's page acks START.
StartArmed ==
  /\ start = "arming" /\ page[target].script
  /\ page' = [page EXCEPT ![target] = Armed(@)]
  /\ IF aborted
     THEN AbortPending /\ StartGoesOn("cancelling")
     ELSE StartEnds("ok") /\ UNCHANGED <<entry, watch, flushed>>
  /\ UNCHANGED <<settled, tab, finishing, arming, callers>>

\* No ack after RECORD_START_RETRIES attempts, or an abort before the first.
StartUnarmed ==
  /\ start = "arming" /\ (aborted \/ ~page[target].script)
  /\ AbortPending /\ StartGoesOn("cancelling")
  /\ UNCHANGED <<settled, tab, finishing, arming, page, callers>>

\* The page gets CANCEL, or it has no content script.
StartCancelled ==
  /\ start = "cancelling" /\ StartEnds("failed")
  /\ page' = [page EXCEPT ![target] =
       IF @.active THEN [@ EXCEPT !.capture = FALSE, !.active = FALSE] ELSE @]
  /\ UNCHANGED <<recording, finishing, arming, callers, flushed>>

-----------------------------------------------------------------------------
\* Actions: the pages

\* The user or a script moves a tab to another document. Steps on their way
\* from the old one are on their own.
Navigate(t) ==
  /\ page[t].script /\ page' = [page EXCEPT ![t] = NoPage]
  /\ UNCHANGED <<starting, recording, finishing, arming, callers, flushed>>

\* A content script starts and asks RECORD_QUERY: an unfinished recording of its
\* window arms it.
Loads(t) ==
  /\ ~page[t].script /\ page' = [page EXCEPT ![t] = NewPage]
  /\ rearm' = IF entry /\ settled = "no" THEN [rearm EXCEPT ![t] = "sending"] ELSE rearm
  /\ UNCHANGED <<starting, recording, finishing, timers, callers, flushed>>

\* A tab was created, activated or loaded: scheduleRearmForTab().
Observed(t) ==
  /\ watch /\ timers' = timers \cup {t}
  /\ UNCHANGED <<starting, recording, finishing, rearm, page, callers, flushed>>

RearmTimer(t) ==
  /\ t \in timers /\ timers' = timers \ {t}
  /\ rearm' = IF entry /\ settled = "no" THEN [rearm EXCEPT ![t] = "sending"] ELSE rearm
  /\ UNCHANGED <<starting, recording, finishing, page, callers, flushed>>

\* An attempt of rearmRecording() reaches the page. It does not look at whether
\* the recording is still unfinished.
RearmArms(t) ==
  /\ rearm[t] = "sending" /\ page[t].script
  /\ page' = [page EXCEPT ![t] = Armed(@)]
  /\ rearm' = [rearm EXCEPT ![t] = "acked"]
  /\ UNCHANGED <<starting, recording, finishing, timers, callers, flushed>>

RearmAcked(t) ==
  /\ rearm[t] = "acked" /\ rearm' = [rearm EXCEPT ![t] = "none"]
  /\ tab' = t
  /\ flushed' = (flushed \/ (entry /\ finish # "no" /\ tab # t))
  /\ UNCHANGED <<starting, entry, settled, watch, finishing, timers, page, callers>>

\* The last of its attempts has failed.
RearmGivesUp(t) ==
  /\ rearm[t] = "sending" /\ ~page[t].script
  /\ rearm' = [rearm EXCEPT ![t] = "none"]
  /\ UNCHANGED <<starting, recording, finishing, timers, page, callers, flushed>>

\* The user acts on the page: sendRecordStep().
Captures(t) ==
  /\ page[t].capture /\ page[t].sends < MaxSends
  /\ page' = [page EXCEPT ![t].sends = @ + 1]
  /\ UNCHANGED <<starting, recording, finishing, arming, callers, flushed>>

\* A step is through, or it cannot be delivered.
Delivered(t) ==
  \E lost \in BOOLEAN :
    /\ \/ page[t].owed > 0 /\ page' = [page EXCEPT ![t].owed = @ - 1, ![t].failed = @ \/ lost]
       \/ page[t].sends > 0 /\ page' = [page EXCEPT ![t].sends = @ - 1, ![t].failed = @ \/ lost]
    /\ UNCHANGED <<starting, recording, finishing, arming, callers, flushed>>

-----------------------------------------------------------------------------
\* Actions: the end of a recording

\* finishRecording(), on RECORD_FINISH of an armed page or for record_stop.
BeginFinish ==
  /\ entry /\ settled = "no" /\ finish = "no"
  /\ finish' = "listing" /\ timers' = timers \ {tab}
  /\ UNCHANGED <<starting, recording, todo, asked, rearm, page, await, flushed>>

FinishButton == (\E t \in Tabs : page[t].active) /\ BeginFinish /\ UNCHANGED stop

RecordStop ==
  /\ start # "none" /\ stop # "waiting"
  /\ \/ ~entry /\ stop' = "ended" /\ UNCHANGED <<finishing, timers>>
     \/ entry /\ finish # "no" /\ stop' = "retry" /\ UNCHANGED <<finishing, timers>>
     \/ BeginFinish /\ stop' = "waiting"
  /\ UNCHANGED <<starting, recording, todo, asked, rearm, page, await, flushed>>

\* The tabs of the window are listed and their rearm timers cleared.
FinishListed ==
  /\ finish = "listing" /\ finish' = "stopping"
  /\ todo' = Tabs /\ timers' = {}
  /\ UNCHANGED <<starting, recording, asked, rearm, page, callers, flushed>>

\* STOP arrives in a page; a page that is not active does not answer it.
StopArrives(t) ==
  /\ finish = "stopping" /\ asked = None /\ t \in todo
  /\ asked' = t /\ todo' = todo \ {t}
  /\ page' = [page EXCEPT ![t] =
       IF @.active
       THEN [@ EXCEPT !.capture = FALSE, !.flush = TRUE, !.owed = page[t].owed + page[t].sends,
                      !.sends = 0]
       ELSE @]
  /\ UNCHANGED <<starting, recording, finish, arming, callers, flushed>>

\* Mutant of Flushed: the page answers without waiting for its steps.
FlushedAtOnce(p) == p.flush

\* Every step that was on its way is through.
Flushed(p) == p.flush /\ p.owed = 0

\* STOP is settled: the page has confirmed its steps, has said that it could not
\* deliver them all, or does not answer. The answer of a page that the recording
\* does not need may be any.
StopSettled(t, needed) ==
  LET confirmed == Flushed(page[t]) /\ ~page[t].failed IN
  /\ asked = t /\ (Flushed(page[t]) \/ ~page[t].flush)
  /\ asked' = None
  /\ page' = [page EXCEPT ![t] =
       IF @.flush THEN [@ EXCEPT !.active = FALSE, !.flush = FALSE] ELSE @]
  /\ IF confirmed \/ ~needed
     THEN flushed' = (flushed \/ (entry /\ confirmed /\ t = tab)) /\ UNCHANGED <<finish, todo, stop>>
     ELSE /\ finish' = "no" /\ todo' = {} /\ flushed' = FALSE
          /\ stop' = IF stop = "waiting" THEN "retry" ELSE stop
  /\ UNCHANGED <<starting, recording, arming, await>>

\* Mutant of StopAnswered: a page that does not answer has nothing to confirm.
StopAnsweredOrSilent(t) == StopSettled(t, t = tab /\ page[t].flush)

\* Only the recording's tab of this moment must confirm.
StopAnswered(t) == StopSettled(t, t = tab)

\* All tabs are stopped: the trace is built and handed out.
Finished ==
  /\ finish = "stopping" /\ todo = {} /\ asked = None
  /\ finish' = "no" /\ entry' = FALSE /\ watch' = FALSE /\ flushed' = FALSE
  /\ SettleAs("trace")
  /\ stop' = IF stop = "waiting" THEN "ended" ELSE stop
  /\ UNCHANGED <<starting, tab, todo, asked, arming, page>>

\* record_await, which the CLI sends when record_start has succeeded.
RecordAwait ==
  /\ start = "ok" /\ await = "none"
  /\ await' = IF entry THEN "waiting" ELSE "ended"
  /\ UNCHANGED <<starting, recording, finishing, arming, page, stop, flushed>>

AwaitGivesUp ==
  /\ await = "waiting" /\ await' = "ended"
  /\ UNCHANGED <<starting, recording, finishing, arming, page, stop, flushed>>

\* Mutant of ClearRecording: the promise is not rejected.
ClearRecordingSilently ==
  /\ entry /\ entry' = FALSE /\ watch' = FALSE
  /\ timers' = {} /\ flushed' = FALSE
  /\ UNCHANGED <<settled, await>>
  /\ UNCHANGED <<starting, tab, finishing, rearm, page, stop>>

\* clearRecordingForSession(), when the session stops.
ClearRecording ==
  /\ entry /\ entry' = FALSE /\ watch' = FALSE
  /\ timers' = {} /\ flushed' = FALSE
  /\ SettleAs("cleared")
  /\ UNCHANGED <<starting, tab, finishing, rearm, page, stop>>

-----------------------------------------------------------------------------
\* Specification

PageStep(t) ==
  \/ Navigate(t) \/ Loads(t) \/ Observed(t) \/ RearmTimer(t)
  \/ RearmArms(t) \/ RearmAcked(t) \/ RearmGivesUp(t)
  \/ Captures(t) \/ Delivered(t)

StartStep ==
  \/ CancelStart \/ StartNavigated \/ StartLoaded
  \/ StartArmed \/ StartUnarmed \/ StartCancelled

FinishStep ==
  \/ FinishListed \/ Finished
  \/ \E t \in Tabs : StopArrives(t) \/ StopAnswered(t)

Next ==
  \/ \E t \in Tabs : RecordStart(t) \/ PageStep(t)
  \/ StartStep \/ FinishStep \/ FinishButton \/ RecordStop
  \/ RecordAwait \/ AwaitGivesUp \/ ClearRecording

Spec == Init /\ [][Next]_vars

-----------------------------------------------------------------------------
\* Properties

\* The types of the variables.
TypeOK ==
  /\ start \in {"none", "navigating", "loading", "arming", "cancelling", "ok", "failed"}
  /\ {target, tab, asked} \subseteq Tabs \cup {None}
  /\ {aborted, entry, watch} \subseteq BOOLEAN
  /\ settled \in {"no", "trace", "cleared"} /\ finish \in {"no", "listing", "stopping"}
  /\ todo \subseteq Tabs /\ timers \subseteq Tabs
  /\ rearm \in [Tabs -> {"none", "sending", "acked"}]
  /\ page \in [Tabs -> [script : BOOLEAN, capture : BOOLEAN, active : BOOLEAN,
                        flush : BOOLEAN, failed : BOOLEAN,
                        owed : 0 .. MaxSends, sends : 0 .. MaxSends]]
  /\ await \in {"none", "waiting", "ended"}
  /\ stop \in {"none", "waiting", "retry", "ended"}
  /\ flushed \in BOOLEAN

\* The trace is handed out.
HandedOut == entry /\ settled = "no" /\ settled' = "trace"

\* STOP and steps are messages that may overtake each other: while a page that was stopped
\* has a step on its way, the trace is not handed out. The step has arrived by then, or
\* its page has been told that it did not. (A recording that record_start gave up while it
\* was finishing builds a trace for nobody.)
StopWaitsForSteps ==
  [][HandedOut => \A t \in Tabs : page[t].owed = 0 /\ (page[t].capture \/ page[t].sends = 0)]_vars

\* "content script did not confirm recorded steps": a trace is handed out only when the
\* page that is recorded has confirmed that all its steps are in it, however its answer,
\* navigations, late attempts to arm it and retries of record_stop interleave; unless
\* the recording has gone over to this tab since the tabs are being stopped.
FlushIsConfirmed == [][HandedOut => flushed]_vars

\* A trace lacks no step: when it is handed out, no page that was stopped knows of a step
\* that it has not delivered.
TraceIsComplete == [][HandedOut => \A t \in Tabs : page[t].failed => page[t].active]_vars

\* Who awaits a recording awaits one that can still settle: an end by the page,
\* by record_stop or by the session's stop never leaves the caller behind.
AwaitCanEnd == await = "waiting" => entry /\ settled = "no"

\* "The recording is still active - retry": after a record_stop that could not
\* flush the steps of the recording's page, that page is still recorded.
RetryIsPossible ==
  (start = "ok" /\ stop = "retry" /\ entry /\ finish = "no" /\ page[tab].failed)
    => page[tab].active

===============================================================================
