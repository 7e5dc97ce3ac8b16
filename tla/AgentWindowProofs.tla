------------------------------ MODULE AgentWindowProofs ------------------------------
(***************************************************************************)
(* The end of a recording, for every number of tabs and of steps that are  *)
(* on their way: nobody awaits a recording that cannot settle any more, a  *)
(* trace is handed out only when no step of a stopped page is on its way   *)
(* and the page of the recording's tab has confirmed its steps. What other *)
(* pages fail to deliver may be missing.                                   *)
(*                                                                         *)
(* A page that owes steps has not answered its STOP, and the recording     *)
(* ends only when no answer is awaited. A page that is not captured has no *)
(* other steps on their way, as long as there is a recording.              *)
(*                                                                         *)
(* And the requests for help, for every number of tabs, requests and       *)
(* messages: only the user makes the agent go on, and the end of a request *)
(* reaches every page that shows it. What the user has clicked is followed *)
(* from the page to the result, what a page shows from the first message   *)
(* to the tabs that the request remembers.                                 *)
(***************************************************************************)
EXTENDS Recording, HumanLoop, TLAPS

-----------------------------------------------------------------------------
\* The invariant

Pages == [script : BOOLEAN, capture : BOOLEAN, active : BOOLEAN, flush : BOOLEAN,
          failed : BOOLEAN, owed : 0 .. MaxSends, sends : 0 .. MaxSends]

\* A page owes steps only while its answer to STOP is awaited.
Owing(t) == (page[t].flush => asked = t) /\ (~page[t].flush => page[t].owed = 0)

\* Only a page that is captured has other steps on their way.
Capturing(t) == page[t].capture \/ page[t].sends = 0

\* Nothing is recorded before record_start or after one that has failed, and who has a
\* recording has one that has not settled.
Course ==
  /\ start = "none" => settled = "no" /\ finish = "no" /\ \A t \in Tabs : rearm[t] = "none" /\ Capturing(t)
  /\ start \in {"none", "cancelling", "failed"} => ~entry
  /\ entry => settled = "no" /\ \A t \in Tabs : Capturing(t)
  /\ await = "waiting" => start = "ok" /\ entry

\* Once the recording's tab has been asked and has answered, it has confirmed.
Confirming ==
  /\ entry => tab \in Tabs
  /\ finish = "stopping" /\ entry /\ tab \notin todo /\ asked # tab => flushed

RecordingInv == TypeOK /\ (\A t \in Tabs : Owing(t)) /\ Course /\ Confirming

\* A document without a capture.
Blank(p) == p \in Pages /\ ~p.flush /\ p.owed = 0 /\ p.sends = 0

LEMMA BlankPages == Blank(NoPage) /\ Blank(NewPage)
<1>1. 0 \in 0 .. MaxSends
  BY RecordingAssumption
<1>2. Blank(NoPage)
  BY <1>1 DEF Blank, NoPage, Pages
<1> QED BY <1>2 DEF Blank, NewPage, Pages

\* Steps of a page come and go.
LEMMA StepCounts ==
  ASSUME NEW r \in Pages, NEW n \in 0 .. MaxSends, NEW f \in BOOLEAN
  PROVE  /\ [r EXCEPT !.sends = n] \in Pages
         /\ [r EXCEPT !.sends = n, !.failed = f] \in Pages
         /\ [r EXCEPT !.owed = n, !.failed = f] \in Pages
BY DEF Pages

LEMMA RecordingInit == Init => RecordingInv
<1> SUFFICES ASSUME Init PROVE RecordingInv
  OBVIOUS
<1>1. page \in [Tabs -> Pages] /\ \A t \in Tabs : ~page[t].flush /\ page[t].owed = 0 /\ page[t].sends = 0
  BY BlankPages DEF Init, Blank
<1> QED BY <1>1 DEF Init, RecordingInv, TypeOK, Owing, Course, Capturing, Confirming, Pages

-----------------------------------------------------------------------------
\* The pages

\* A page changes by itself: its steps, its document.
LEMMA PageMoves ==
  ASSUME RecordingInv, NEW t \in Tabs, NEW p \in Pages, page' = [page EXCEPT ![t] = p],
         UNCHANGED <<start, target, aborted, recording, finishing, timers, callers, flushed>>,
         rearm' \in [Tabs -> {"none", "sending", "acked"}], start = "none" => rearm' = rearm,
         p.flush => page[t].flush, ~p.flush => p.owed = 0,
         start = "none" \/ entry => p.capture \/ p.sends = 0
  PROVE  RecordingInv'
<1>1. page'[t] = p /\ \A u \in Tabs \ {t} : page'[u] = page[u]
  BY DEF RecordingInv, TypeOK
<1>2. TypeOK'
  BY DEF RecordingInv, TypeOK, Pages, recording, finishing, callers
<1>3. \A u \in Tabs : Owing(u)'
  BY <1>1 DEF RecordingInv, Owing, finishing
<1>4. Course'
  BY <1>1 DEF RecordingInv, Course, Capturing, recording, finishing, callers
<1>5. Confirming'
  BY DEF RecordingInv, Confirming, recording, finishing
<1> QED BY <1>2, <1>3, <1>4, <1>5 DEF RecordingInv

\* The pages stay as they are.
LEMMA PagesStay ==
  ASSUME RecordingInv, TypeOK', Course', Confirming', UNCHANGED page, asked' = asked \/ asked = None
  PROVE  RecordingInv'
<1>1. ASSUME NEW t \in Tabs PROVE Owing(t)'
  <2>1. Owing(t) /\ None # t
    BY RecordingAssumption, WindowAssumption DEF RecordingInv
  <2> QED BY <2>1 DEF Owing
<1> QED BY <1>1 DEF RecordingInv

LEMMA PageKeeps == ASSUME RecordingInv, NEW t \in Tabs, PageStep(t) PROVE RecordingInv'
<1>1. page[t] \in Pages /\ MaxSends \in Nat /\ Owing(t) /\ (start = "none" \/ entry => Capturing(t)) /\ rearm \in [Tabs -> {"none", "sending", "acked"}]
  BY RecordingAssumption, WindowAssumption DEF RecordingInv, TypeOK, Pages, Course
<1> USE DEF starting, recording, finishing, arming, callers
<1>2. CASE Navigate(t)
  <2>1. NoPage \in Pages /\ ~NoPage.flush /\ NoPage.owed = 0 /\ NoPage.sends = 0
    BY BlankPages DEF Blank
  <2> QED BY <1>1, <1>2, <2>1, PageMoves DEF Navigate
<1>3. CASE Loads(t)
  <2>1. NewPage \in Pages /\ ~NewPage.flush /\ NewPage.owed = 0 /\ NewPage.sends = 0
    BY BlankPages DEF Blank
  <2>2. rearm' \in [Tabs -> {"none", "sending", "acked"}] /\ (start = "none" => rearm' = rearm)
    BY <1>1, <1>3 DEF Loads, RecordingInv, Course
  <2> QED BY <1>1, <1>3, <2>1, <2>2, PageMoves DEF Loads
<1>4. CASE Observed(t)
  BY <1>4, PagesStay DEF Observed, RecordingInv, TypeOK, Course, Capturing, Confirming
<1>5. CASE RearmTimer(t)
  BY <1>5, PagesStay DEF RearmTimer, RecordingInv, TypeOK, Course, Capturing, Confirming
<1>6. CASE RearmArms(t)
  <2>1. /\ Armed(page[t]) \in Pages /\ Armed(page[t]).capture = TRUE
        /\ Armed(page[t]).flush = page[t].flush /\ Armed(page[t]).owed = page[t].owed
    BY <1>1 DEF Armed, Pages
  <2>2. page' = [page EXCEPT ![t] = Armed(page[t])] /\ start # "none" /\ rearm' \in [Tabs -> {"none", "sending", "acked"}]
    BY <1>1, <1>6 DEF RearmArms, RecordingInv, Course
  <2> QED BY <1>1, <1>6, <2>1, <2>2, PageMoves DEF RearmArms, Owing
<1>7. CASE RearmAcked(t)
  BY <1>7, PagesStay DEF RearmAcked, RecordingInv, TypeOK, Course, Capturing, Confirming
<1>8. CASE RearmGivesUp(t)
  BY <1>8, PagesStay DEF RearmGivesUp, RecordingInv, TypeOK, Course, Capturing, Confirming
<1>9. CASE Captures(t)
  <2> DEFINE p == [page[t] EXCEPT !.sends = page[t].sends + 1]
  <2>1. page' = [page EXCEPT ![t] = p] /\ page[t].capture /\ page[t].sends < MaxSends
    BY <1>9 DEF Captures
  <2>2. page[t].sends + 1 \in 0 .. MaxSends /\ page[t].failed \in BOOLEAN
    BY <1>1, <2>1 DEF Pages
  <2>3. p \in Pages
    BY <1>1, <2>2, StepCounts
  <2>4. p.capture = page[t].capture /\ p.flush = page[t].flush /\ p.owed = page[t].owed
    BY <1>1 DEF Pages
  <2> HIDE DEF p
  <2> QED BY <1>1, <1>9, <2>3, <2>4, <2>1, <2>2, PageMoves DEF Captures, Owing
<1>10. ASSUME NEW lost \in BOOLEAN, page[t].owed > 0, page' = [page EXCEPT ![t].owed = @ - 1, ![t].failed = @ \/ lost], Delivered(t)
       PROVE  RecordingInv'
  <2> DEFINE p == [page[t] EXCEPT !.owed = page[t].owed - 1, !.failed = page[t].failed \/ lost]
  <2>0. page[t].owed - 1 \in 0 .. MaxSends /\ (page[t].failed \/ lost) \in BOOLEAN
    BY <1>1, <1>10 DEF Pages
  <2>1. p \in Pages /\ p.capture = page[t].capture /\ p.sends = page[t].sends /\ p.flush = page[t].flush
    <3>1. p \in Pages
      BY <1>1, <2>0, StepCounts
    <3>2. p.capture = page[t].capture /\ p.sends = page[t].sends /\ p.flush = page[t].flush
      BY <1>1 DEF Pages
    <3> QED BY <3>1, <3>2
  <2>2. page' = [page EXCEPT ![t] = p] /\ page[t].flush
    <3>1. page' = [page EXCEPT ![t] = p]
      BY <1>10
    <3>2. page[t].flush
      BY <1>1, <1>10 DEF Owing, Pages
    <3> QED BY <3>1, <3>2
  <2> HIDE DEF p
  <2>3. UNCHANGED <<start, target, aborted, recording, finishing, timers, callers, rearm, flushed>>
    BY <1>10 DEF Delivered
  <2> QED BY <1>1, <2>1, <2>2, <2>3, PageMoves DEF Capturing
<1>11. ASSUME NEW lost \in BOOLEAN, page[t].sends > 0, page' = [page EXCEPT ![t].sends = @ - 1, ![t].failed = @ \/ lost], Delivered(t)
       PROVE  RecordingInv'
  <2> DEFINE p == [page[t] EXCEPT !.sends = page[t].sends - 1, !.failed = page[t].failed \/ lost]
  <2>0. page[t].sends - 1 \in 0 .. MaxSends /\ (page[t].failed \/ lost) \in BOOLEAN
    BY <1>1, <1>11 DEF Pages
  <2>1. p \in Pages /\ p.capture = page[t].capture /\ p.owed = page[t].owed /\ p.flush = page[t].flush
    <3>1. p \in Pages
      BY <1>1, <2>0, StepCounts
    <3>2. p.capture = page[t].capture /\ p.owed = page[t].owed /\ p.flush = page[t].flush
      BY <1>1 DEF Pages
    <3> QED BY <3>1, <3>2
  <2>2. page' = [page EXCEPT ![t] = p] /\ (start = "none" \/ entry => page[t].capture)
    <3>1. page' = [page EXCEPT ![t] = p]
      BY <1>11
    <3>2. start = "none" \/ entry => page[t].capture
      BY <1>1, <1>11 DEF Capturing, Pages
    <3> QED BY <3>1, <3>2
  <2> HIDE DEF p
  <2>3. UNCHANGED <<start, target, aborted, recording, finishing, timers, callers, rearm, flushed>>
    BY <1>11 DEF Delivered
  <2>4. ~p.flush => p.owed = 0
    BY <1>1, <2>1 DEF Owing
  <2> QED BY <1>1, <2>1, <2>2, <2>3, <2>4, PageMoves
<1>12. CASE Delivered(t)
  BY <1>10, <1>11, <1>12 DEF Delivered
<1> QED BY <1>2, <1>3, <1>4, <1>5, <1>6, <1>7, <1>8, <1>9, <1>12 DEF PageStep

-----------------------------------------------------------------------------
\* record_start

LEMMA StartKeeps == ASSUME RecordingInv, StartStep \/ \E t \in Tabs : RecordStart(t) PROVE RecordingInv'
<1> USE DEF starting, recording, finishing, arming, callers, StartEnds, StartGoesOn, AbortPending
<1>1. ASSUME NEW t \in Tabs, RecordStart(t) PROVE RecordingInv'
  BY <1>1, PagesStay DEF RecordStart, RecordingInv, TypeOK, Course, Capturing, Confirming
<1>2. CASE CancelStart
  BY <1>2, PagesStay DEF CancelStart, RecordingInv, TypeOK, Course, Capturing, Confirming
<1>3. CASE StartLoaded \/ StartUnarmed
  <2>1. UNCHANGED <<settled, tab, finishing, arming, page, callers>> /\ start \in {"loading", "arming"}
    BY <1>3 DEF StartLoaded, StartUnarmed
  <2>2. start' \in {"arming", "cancelling", "failed"} /\ target' \in {target, None}
    BY <1>3 DEF StartLoaded, StartUnarmed
  <2>3. start' # "arming" => ~entry'
    BY <1>3 DEF StartLoaded, StartUnarmed
  <2>4. (entry' => entry) /\ entry' \in BOOLEAN /\ watch' \in BOOLEAN
    <3>1. (entry' = FALSE /\ watch' = FALSE) \/ (entry' = entry /\ watch' = watch)
      BY <1>3 DEF StartLoaded, StartUnarmed
    <3>2. entry \in BOOLEAN /\ watch \in BOOLEAN
      BY DEF RecordingInv, TypeOK
    <3>3. CASE entry' = FALSE /\ watch' = FALSE
      BY <3>3
    <3>4. CASE entry' = entry /\ watch' = watch
      BY <3>2, <3>4
    <3> QED BY <3>1, <3>3, <3>4
  <2>5. aborted' \in BOOLEAN /\ flushed' \in BOOLEAN /\ (entry' => flushed' = flushed)
    BY <1>3 DEF StartLoaded, StartUnarmed, RecordingInv, TypeOK
  <2>6. TypeOK'
    BY <2>1, <2>2, <2>4, <2>5 DEF RecordingInv, TypeOK
  <2>7. Course'
    BY <2>1, <2>2, <2>3, <2>4 DEF RecordingInv, TypeOK, Course, Capturing, Confirming
  <2>8. Confirming'
    BY <2>1, <2>4, <2>5 DEF RecordingInv, Confirming
  <2> QED BY <2>1, <2>6, <2>7, <2>8, PagesStay
\* The steps that change the target's page.
<1>4. ASSUME NEW p \in Pages, page' = [page EXCEPT ![target] = p] \/ page' = page,
             start \notin {"none", "ok"}, start' # "none", start' \in {"cancelling", "failed"} => ~entry',
             p.flush => target \in Tabs /\ page[target].flush, ~p.flush => p.owed = 0,
             entry' => entry /\ (p.capture \/ p.sends = 0),
             start' \in {"none", "navigating", "loading", "arming", "cancelling", "ok", "failed"},
             target' \in Tabs \cup {None}, {aborted', entry', watch'} \subseteq BOOLEAN,
             flushed' \in BOOLEAN, entry' => flushed' = flushed,
             UNCHANGED <<settled, tab, finishing, arming, callers>>
      PROVE  RecordingInv'
  <2>1. page' \in [Tabs -> Pages] /\ \A t \in Tabs : page'[t] = page[t] \/ (t = target /\ page'[t] = p)
    BY <1>4 DEF RecordingInv, TypeOK, Pages
  <2>2. TypeOK'
    BY <1>4, <2>1 DEF RecordingInv, TypeOK, Pages
  <2>3. \A t \in Tabs : Owing(t)'
    BY <1>4, <2>1 DEF RecordingInv, Owing
  <2>4. Course'
    BY <1>4, <2>1 DEF RecordingInv, Course, Capturing
  <2>5. Confirming'
    BY <1>4 DEF RecordingInv, Confirming
  <2> QED BY <2>2, <2>3, <2>4, <2>5 DEF RecordingInv
<1>5. CASE StartNavigated
  <2>1. NoPage \in Pages /\ ~NoPage.flush /\ NoPage.owed = 0 /\ NoPage.sends = 0
    BY BlankPages DEF Blank
  <2>2. /\ page' = [page EXCEPT ![target] = NoPage] /\ start \notin {"none", "ok"} /\ start' \in {"loading", "failed"}
        /\ (start' = "failed" => ~entry') /\ target' \in {target, None} /\ UNCHANGED <<settled, tab, finishing, arming, callers>>
    BY <1>5 DEF StartNavigated
  <2>4. (entry' => entry) /\ entry' \in BOOLEAN /\ watch' \in BOOLEAN
    <3>1. (entry' = FALSE /\ watch' = FALSE) \/ (entry' = entry /\ watch' = watch)
      BY <1>5 DEF StartNavigated
    <3>2. entry \in BOOLEAN /\ watch \in BOOLEAN
      BY DEF RecordingInv, TypeOK
    <3>3. CASE entry' = FALSE /\ watch' = FALSE
      BY <3>3
    <3>4. CASE entry' = entry /\ watch' = watch
      BY <3>2, <3>4
    <3> QED BY <3>1, <3>3, <3>4
  <2>5. aborted' \in BOOLEAN /\ flushed' \in BOOLEAN /\ (entry' => flushed' = flushed)
    BY <1>5 DEF StartNavigated, RecordingInv, TypeOK
  <2>3. target' \in Tabs \cup {None} /\ {aborted', entry', watch'} \subseteq BOOLEAN
    BY <2>2, <2>4, <2>5 DEF RecordingInv, TypeOK
  <2> QED BY <1>4, <2>1, <2>2, <2>3, <2>4, <2>5
<1>6. CASE target \notin Tabs /\ (StartArmed \/ StartCancelled)
  <2>1. page' = page
    BY <1>6 DEF StartArmed, StartCancelled, RecordingInv, TypeOK
  <2>2. NoPage \in Pages /\ ~NoPage.flush /\ NoPage.owed = 0 /\ NoPage.sends = 0
    BY BlankPages DEF Blank
  <2>3. start' # "none" /\ start \notin {"none", "ok"} /\ (start' \in {"cancelling", "failed"} => ~entry') /\ (entry' => entry)
    BY <1>6 DEF StartArmed, StartCancelled, RecordingInv, TypeOK, Course
  <2>4. /\ start' \in {"none", "navigating", "loading", "arming", "cancelling", "ok", "failed"}
        /\ target' \in Tabs \cup {None} /\ {aborted', entry', watch', flushed'} \subseteq BOOLEAN
        /\ entry' => flushed' = flushed
        /\ UNCHANGED <<settled, tab, finishing, arming, callers>>
    BY <1>6 DEF StartArmed, StartCancelled, RecordingInv, TypeOK
  <2> QED BY <1>4, <2>1, <2>2, <2>3, <2>4
<1>7. CASE target \in Tabs /\ StartArmed
  <2>1. page[target] \in Pages /\ Owing(target)
    BY <1>7 DEF RecordingInv, TypeOK, Pages
  <2>2. /\ Armed(page[target]) \in Pages /\ Armed(page[target]).capture = TRUE
        /\ Armed(page[target]).flush = page[target].flush /\ Armed(page[target]).owed = page[target].owed
    BY <2>1 DEF Armed, Pages
  <2>3. page' = [page EXCEPT ![target] = Armed(page[target])] /\ start \notin {"none", "ok"}
        /\ start' # "none" /\ (start' \in {"cancelling", "failed"} => ~entry') /\ (entry' => entry)
    BY <1>7 DEF StartArmed
  <2>4. /\ start' \in {"none", "navigating", "loading", "arming", "cancelling", "ok", "failed"}
        /\ target' \in Tabs \cup {None} /\ {aborted', entry', watch', flushed'} \subseteq BOOLEAN
        /\ entry' => flushed' = flushed
        /\ UNCHANGED <<settled, tab, finishing, arming, callers>>
    BY <1>7 DEF StartArmed, RecordingInv, TypeOK
  <2> QED BY <1>4, <1>7, <2>1, <2>2, <2>3, <2>4 DEF Owing
<1>8. CASE target \in Tabs /\ StartCancelled
  <2> DEFINE p == IF page[target].active THEN [page[target] EXCEPT !.capture = FALSE, !.active = FALSE] ELSE page[target]
  <2>1. page[target] \in Pages /\ Owing(target)
    BY <1>8 DEF RecordingInv, TypeOK, Pages
  <2>2. p \in Pages /\ p.flush = page[target].flush /\ p.owed = page[target].owed
    BY <2>1 DEF Pages
  <2>3. page' = [page EXCEPT ![target] = p] /\ start = "cancelling" /\ start' = "failed" /\ entry' = entry /\ ~entry
    BY <1>8 DEF StartCancelled, RecordingInv, Course
  <2>4. /\ target' \in Tabs \cup {None} /\ {aborted', entry', watch', flushed'} \subseteq BOOLEAN
        /\ entry' => flushed' = flushed
        /\ UNCHANGED <<settled, tab, finishing, arming, callers>>
    BY <1>8 DEF StartCancelled, RecordingInv, TypeOK
  <2> HIDE DEF p
  <2> QED BY <1>4, <1>8, <2>1, <2>2, <2>3, <2>4 DEF Owing
<1> QED BY <1>1, <1>2, <1>3, <1>5, <1>6, <1>7, <1>8 DEF StartStep

-----------------------------------------------------------------------------
\* The end of a recording

LEMMA FinishKeeps ==
  ASSUME RecordingInv, FinishStep \/ FinishButton \/ RecordStop \/ RecordAwait \/ AwaitGivesUp \/ ClearRecording
  PROVE  RecordingInv'
<1> USE DEF starting, recording, finishing, arming, callers
<1>1. CASE FinishButton \/ RecordStop
  BY <1>1, PagesStay DEF FinishButton, RecordStop, BeginFinish, RecordingInv, TypeOK, Course, Capturing, Confirming
<1>2. CASE RecordAwait \/ AwaitGivesUp
  BY <1>2, PagesStay DEF RecordAwait, AwaitGivesUp, RecordingInv, TypeOK, Course, Capturing, Confirming
<1>3. CASE FinishListed
  BY <1>3, PagesStay DEF FinishListed, RecordingInv, TypeOK, Course, Capturing, Confirming
<1>4. CASE Finished \/ ClearRecording
  <2>1. /\ UNCHANGED <<starting, tab, rearm, page, todo, asked>> /\ entry' = FALSE /\ watch' = FALSE
        /\ finish' \in {finish, "no"} /\ timers' \in {timers, {}} /\ stop' \in {stop, "ended"}
        /\ settled' \in {settled, "trace", "cleared"} /\ await' \in {await, "ended"} /\ start # "none"
    BY <1>4 DEF Finished, ClearRecording, SettleAs, RecordingInv, Course
  <2>3. flushed' = FALSE
    BY <1>4 DEF Finished, ClearRecording
  <2>2. await' # "waiting"
    BY <1>4 DEF Finished, ClearRecording, SettleAs, RecordingInv, Course
  <2> QED BY <2>1, <2>2, <2>3, PagesStay DEF RecordingInv, TypeOK, Course, Capturing, Confirming
<1>5. ASSUME NEW t \in Tabs, StopArrives(t) PROVE RecordingInv'
  <2>1. page[t] \in Pages /\ Owing(t) /\ asked = None /\ None # t
    BY <1>5, RecordingAssumption, WindowAssumption DEF StopArrives, RecordingInv, TypeOK, Pages
  <2>2. \A u \in Tabs : ~page[u].flush /\ page[u].owed = 0
    BY <2>1, RecordingAssumption, WindowAssumption DEF RecordingInv, Owing
  <2> DEFINE p == IF page[t].active
                  THEN [page[t] EXCEPT !.capture = FALSE, !.flush = TRUE, !.owed = page[t].owed + page[t].sends, !.sends = 0]
                  ELSE page[t]
  <2>3. page[t].owed + page[t].sends = page[t].sends /\ 0 \in 0 .. MaxSends
    BY <2>1, <2>2, RecordingAssumption, WindowAssumption DEF Pages
  <2>4. p \in Pages /\ (page[t].active => p.sends = 0) /\ (~page[t].active => p = page[t])
    BY <2>1, <2>3 DEF Pages
  <2>5. page' = [page EXCEPT ![t] = p] /\ asked' = t /\ todo' = todo \ {t}
        /\ UNCHANGED <<starting, recording, finish, arming, callers, flushed>> /\ start # "none"
    <3>1. start # "none"
      BY <1>5 DEF StopArrives, RecordingInv, Course
    <3>2. page' = [page EXCEPT ![t] = p]
      BY <1>5 DEF StopArrives
    <3> QED BY <1>5, <3>1, <3>2 DEF StopArrives
  <2> HIDE DEF p
  <2>6. page'[t] = p /\ \A u \in Tabs \ {t} : page'[u] = page[u]
    BY <2>5 DEF RecordingInv, TypeOK
  <2>7. TypeOK'
    BY <2>4, <2>5 DEF RecordingInv, TypeOK, Pages
  <2>8. (~page[t].active => ~p.flush /\ p.owed = 0) /\ (page[t].active => p.flush)
    BY <2>1, <2>2 DEF p, Pages
  <2>9. \A u \in Tabs : Owing(u)'
    BY <2>2, <2>5, <2>6, <2>8, <2>1 DEF Owing
  <2>10. Course'
    BY <2>4, <2>5, <2>6 DEF RecordingInv, Course, Capturing
  <2>11. Confirming'
    BY <2>1, <2>5, RecordingAssumption, WindowAssumption DEF RecordingInv, Confirming
  <2> QED BY <2>7, <2>9, <2>10, <2>11 DEF RecordingInv
<1>6. ASSUME NEW t \in Tabs, StopAnswered(t) PROVE RecordingInv'
  <2>1. page[t] \in Pages /\ Owing(t) /\ asked = t /\ (Flushed(page[t]) \/ ~page[t].flush)
    BY <1>6 DEF StopAnswered, StopSettled, RecordingInv, TypeOK, Pages
  <2> DEFINE p == IF page[t].flush THEN [page[t] EXCEPT !.active = FALSE, !.flush = FALSE] ELSE page[t]
  <2>2. p \in Pages /\ p.capture = page[t].capture /\ p.sends = page[t].sends /\ p.owed = page[t].owed /\ ~p.flush
    BY <2>1 DEF Pages
  <2>3. page[t].owed = 0
    BY <2>1 DEF Owing, Flushed
  <2>4. /\ page' = [page EXCEPT ![t] = p] /\ asked' = None /\ todo' \in {todo, {}} /\ finish' \in {finish, "no"}
        /\ stop' \in {stop, "retry"} /\ UNCHANGED <<starting, recording, arming, await>>
    BY <1>6 DEF StopAnswered, StopSettled
  <2> HIDE DEF p
  <2>5. page'[t] = p /\ \A u \in Tabs \ {t} : page'[u] = page[u]
    BY <2>4 DEF RecordingInv, TypeOK
  <2>9. /\ flushed' \in BOOLEAN
        /\ finish' = "stopping" /\ entry => (t = tab => flushed') /\ (flushed => flushed') /\ todo' = todo
    BY <1>6 DEF StopAnswered, StopSettled, RecordingInv, TypeOK
  <2>6. TypeOK'
    BY <2>2, <2>4, <2>9 DEF RecordingInv, TypeOK, Pages
  <2>7. ASSUME NEW u \in Tabs PROVE Owing(u)'
    BY <2>1, <2>2, <2>3, <2>5 DEF RecordingInv, Owing
  <2>8. Course'
    BY <2>2, <2>4, <2>5 DEF RecordingInv, Course, Capturing
  <2>10. Confirming'
    BY <2>1, <2>4, <2>9 DEF RecordingInv, Confirming
  <2> QED BY <2>6, <2>7, <2>8, <2>10 DEF RecordingInv
<1> QED BY <1>1, <1>2, <1>3, <1>4, <1>5, <1>6 DEF FinishStep

LEMMA RecordingNext == RecordingInv /\ [Next]_vars => RecordingInv'
<1>1. ASSUME RecordingInv, UNCHANGED vars PROVE RecordingInv'
  BY <1>1, PagesStay DEF vars, starting, recording, finishing, arming, callers, RecordingInv, TypeOK, Course, Capturing, Confirming
<1> QED BY <1>1, PageKeeps, StartKeeps, FinishKeeps DEF Next

-----------------------------------------------------------------------------
\* The results

\* Type correctness; in particular no page ever owes more steps than were on their way.
THEOREM RecordingTypes == Spec => []TypeOK
<1>1. RecordingInv => TypeOK
  BY DEF RecordingInv
<1> QED BY <1>1, RecordingInit, RecordingNext, PTL DEF Spec

\* record_await never outlives what it waits for.
THEOREM AwaitsCanEnd == Spec => []AwaitCanEnd
<1>1. RecordingInv => AwaitCanEnd
  BY DEF RecordingInv, Course, AwaitCanEnd
<1> QED BY <1>1, RecordingInit, RecordingNext, PTL DEF Spec

\* A trace is handed out by the last step of finishRecording() alone.
LEMMA OnlyFinishedHandsOut == RecordingInv /\ [Next]_vars /\ HandedOut => Finished
<1> SUFFICES ASSUME RecordingInv, [Next]_vars, HandedOut, ~Finished PROVE FALSE
  OBVIOUS
<1>1. settled = "no" /\ settled' = "trace"
  BY DEF HandedOut
<1>2. settled' = settled \/ settled' = "cleared"
  BY DEF vars, Next, PageStep, StartStep, FinishStep, FinishButton, BeginFinish, SettleAs, recording, starting, StartGoesOn,
         RecordStart, Navigate, Loads, Observed, RearmTimer, RearmArms, RearmAcked, RearmGivesUp, Captures, Delivered,
         CancelStart, StartNavigated, StartLoaded, StartArmed, StartUnarmed, StartCancelled,
         FinishListed, StopArrives, StopAnswered, StopSettled, RecordStop, RecordAwait, AwaitGivesUp, ClearRecording
<1> QED BY <1>1, <1>2

\* When a trace is handed out, no step of a page that was stopped is on its way.
THEOREM StopsWaitForSteps == Spec => StopWaitsForSteps
<1> DEFINE Through == HandedOut => \A t \in Tabs : page[t].owed = 0 /\ (page[t].capture \/ page[t].sends = 0)
<1>1. RecordingInv /\ [Next]_vars => [Through]_vars
  <2> SUFFICES ASSUME RecordingInv, [Next]_vars, HandedOut, NEW t \in Tabs
               PROVE  page[t].owed = 0 /\ (page[t].capture \/ page[t].sends = 0)
    OBVIOUS
  <2>1. Finished /\ entry
    BY OnlyFinishedHandsOut DEF HandedOut
  <2>2. asked = None /\ None # t
    BY <2>1, RecordingAssumption, WindowAssumption DEF Finished
  <2> QED BY <2>1, <2>2 DEF RecordingInv, Owing, Course, Capturing
<1> HIDE DEF Through
<1>2. Spec => [][Through]_vars
  BY <1>1, RecordingInit, RecordingNext, PTL DEF Spec
<1> QED BY <1>2 DEF Through, StopWaitsForSteps

\* When a trace is handed out, the page of the recording's tab has confirmed that all its
\* steps are in it, or the recording has gone over to that tab since the stop began.
THEOREM FlushesAreConfirmed == Spec => FlushIsConfirmed
<1> DEFINE Confirmed == HandedOut => flushed
<1>1. RecordingInv /\ [Next]_vars => [Confirmed]_vars
  <2> SUFFICES ASSUME RecordingInv, [Next]_vars, HandedOut PROVE flushed
    OBVIOUS
  <2>1. Finished /\ entry
    BY OnlyFinishedHandsOut DEF HandedOut
  <2> QED BY <2>1, RecordingAssumption, WindowAssumption DEF Finished, RecordingInv, Confirming
<1> HIDE DEF Confirmed
<1>2. Spec => [][Confirmed]_vars
  BY <1>1, RecordingInit, RecordingNext, PTL DEF Spec
<1> QED BY <1>2 DEF Confirmed, FlushIsConfirmed
-----------------------------------------------------------------------------
\* Requests for help: the invariant

\* The end of a request comes once.
Ending(r) ==
  /\ req[r] \in {"new", "preparing", "active"} => cleanup[r] = "none"
  /\ req[r] # "new" /\ cleanup[r] # "done" => primary[r] \in Tabs

\* No page and no message knows a request that is not registered yet.
Unheard(r) ==
  req[r] \in {"new", "preparing"} => \A t \in Tabs : send[r][t] = "none" /\ shown[t] # r /\ query[t] # r

\* A message that says that the user is done comes from a click, which is remembered until
\* the request is history.
Meant == \A f \in finishes : f.how = "continued" /\ cleanup[f.req] # "done" => <<f.req, "continued">> \in clicked

HelpInv ==
  /\ HelpTypeOK /\ (\A r \in Requests : Ending(r) /\ Unheard(r))
  /\ Meant /\ ContinuedByUser /\ ShownIsReached

-----------------------------------------------------------------------------
\* Requests for help: the steps

LEMMA HelpInitInv == HelpInit => HelpInv
<1> SUFFICES ASSUME HelpInit PROVE HelpInv
  OBVIOUS
<1>1. HelpTypeOK
  BY HelpAssumption DEF HelpInit, HelpTypeOK
<1>2. \A r \in Requests : Ending(r) /\ Unheard(r)
  BY HelpAssumption DEF HelpInit, Ending, Unheard
<1>3. Meant /\ ContinuedByUser /\ ShownIsReached
  BY DEF HelpInit, Meant, ContinuedByUser, ShownIsReached, Active
<1> QED BY <1>1, <1>2, <1>3 DEF HelpInv

\* finishHelp(), with a result that the user has a word in.
LEMMA SettleKeeps ==
  ASSUME HelpInv, NEW r \in Requests, req[r] \in {"preparing", "active"}, NEW how \in Outcomes, NEW waits \in BOOLEAN,
         how = "continued" => <<r, "continued">> \in clicked, Settle(r, how, waits),
         UNCHANGED <<primary, overlays, send, cancels, pages, clicked, arms>>, finishes' \subseteq finishes
  PROVE  HelpInv'
<1>1. HelpTypeOK'
  BY DEF HelpInv, HelpTypeOK, Settle, pages, Outcomes
<1>2. req'[r] \in {"settled", "answered"} /\ cleanup'[r] = "due" /\ outcome'[r] = how
  BY DEF HelpInv, HelpTypeOK, Settle
<1>3. \A q \in Requests \ {r} : req'[q] = req[q] /\ cleanup'[q] = cleanup[q] /\ outcome'[q] = outcome[q]
  BY DEF HelpInv, HelpTypeOK, Settle
<1>4. cleanup[r] = "none" /\ primary[r] \in Tabs
  BY DEF HelpInv, Ending
<1>5. ASSUME NEW q \in Requests PROVE Ending(q)' /\ Unheard(q)'
  BY <1>2, <1>3, <1>4 DEF HelpInv, Ending, Unheard, pages
<1>6. Meant'
  BY <1>2, <1>3, <1>4 DEF HelpInv, HelpTypeOK, Meant
<1>7. ContinuedByUser'
  BY <1>2, <1>3 DEF HelpInv, ContinuedByUser
<1>8. ShownIsReached'
  BY <1>2, <1>3 DEF HelpInv, ShownIsReached, Active, pages
<1> QED BY <1>1, <1>5, <1>6, <1>7, <1>8 DEF HelpInv

\* The ends of a request.
LEMMA EndsSettle ==
  ASSUME HelpInv, NEW r \in Requests, Abort(r) \/ Timeout(r) \/ Completes(r) \/ (Activate(r) /\ r \in signal)
  PROVE  HelpInv'
<1>1. "other" \in Outcomes /\ "other" # "continued"
  BY DEF Outcomes
<1>2. CASE Settle(r, "other", FALSE)
  <2>1. req[r] \in {"preparing", "active"} /\ UNCHANGED <<primary, overlays, send, cancels, finishes, pages, clicked, arms>>
    BY <1>2 DEF Abort, Timeout, Completes, Activate, Active, wire
  <2> QED BY <1>1, <1>2, <2>1, SettleKeeps
<1>3. CASE ~Settle(r, "other", FALSE)
  <2>1. /\ signal' = signal \cup {r}
        /\ UNCHANGED <<req, outcome, primary, overlays, cleanup, send, cancels, finishes, shown, query, clicked, arms>>
    BY <1>3 DEF Abort, Timeout, Completes, Activate, wire, pages
  <2>2. HelpTypeOK'
    BY <2>1 DEF HelpInv, HelpTypeOK
  <2> QED BY <2>1, <2>2 DEF HelpInv, Ending, Unheard, Meant, ContinuedByUser, ShownIsReached, Active
<1> QED BY <1>2, <1>3

LEMMA FinishArrivesKeeps == ASSUME HelpInv, NEW f \in finishes, FinishArrives(f) PROVE HelpInv'
<1>1. f.req \in Requests /\ f.how \in Outcomes
  BY DEF HelpInv, HelpTypeOK, Outcomes
<1>2. finishes' \subseteq finishes /\ UNCHANGED <<primary, overlays, send, cancels, pages, clicked, arms>>
  BY DEF FinishArrives
<1>3. CASE f.req \in Active
  <2>1. Settle(f.req, f.how, TRUE) /\ req[f.req] = "active"
    BY <1>3 DEF FinishArrives, Active
  <2>2. cleanup[f.req] # "done"
    BY <1>1, <2>1 DEF HelpInv, Ending
  <2>3. f.how = "continued" => <<f.req, "continued">> \in clicked
    BY <2>2 DEF HelpInv, Meant
  <2> QED BY <1>1, <1>2, <2>1, <2>3, SettleKeeps
<1>4. CASE f.req \notin Active
  <2>1. UNCHANGED <<req, outcome, cleanup, signal>>
    BY <1>4 DEF FinishArrives
  <2>2. HelpTypeOK'
    BY <1>2, <2>1 DEF HelpInv, HelpTypeOK, pages
  <2> QED BY <1>2, <2>1, <2>2 DEF HelpInv, Ending, Unheard, Meant, ContinuedByUser, ShownIsReached, Active, pages
<1> QED BY <1>3, <1>4

\* A request begins and is registered: no page shows it yet.
LEMMA BeginKeeps == ASSUME HelpInv, NEW r \in Requests, NEW t \in Tabs, Begin(r, t) PROVE HelpInv'
<1>1. /\ req[r] = "new" /\ req' = [req EXCEPT ![r] = "preparing"] /\ primary' = [primary EXCEPT ![r] = t]
      /\ UNCHANGED <<outcome, overlays, cleanup, signal, send, cancels, finishes, shown, query, clicked, arms>>
  BY DEF Begin, wire, pages
<1>2. HelpTypeOK'
  BY <1>1 DEF HelpInv, HelpTypeOK
<1>3. /\ req'[r] = "preparing" /\ primary'[r] = t
      /\ \A q \in Requests \ {r} : req'[q] = req[q] /\ primary'[q] = primary[q]
  BY <1>1 DEF HelpInv, HelpTypeOK
<1>4. ASSUME NEW q \in Requests PROVE Ending(q)' /\ Unheard(q)'
  BY <1>1, <1>3 DEF HelpInv, Ending, Unheard
<1>5. Meant' /\ ContinuedByUser'
  BY <1>1 DEF HelpInv, Meant, ContinuedByUser
<1>6. ShownIsReached'
  BY <1>1, <1>3 DEF HelpInv, ShownIsReached, Active
<1> QED BY <1>2, <1>4, <1>5, <1>6 DEF HelpInv

LEMMA ActivateKeeps == ASSUME HelpInv, NEW r \in Requests, Activate(r) PROVE HelpInv'
<1>1. CASE r \in signal
  BY <1>1, EndsSettle
<1>2. CASE r \notin signal
  <2>1. /\ req[r] = "preparing" /\ req' = [req EXCEPT ![r] = "active"] /\ send' = [send EXCEPT ![r][primary[r]] = "sending"]
        /\ UNCHANGED <<outcome, primary, overlays, cleanup, signal, cancels, finishes, shown, query, clicked, arms>>
    BY <1>2 DEF Activate, wire, pages
  <2>2. primary[r] \in Tabs /\ cleanup[r] = "none" /\ \A t \in Tabs : shown[t] # r
    BY <2>1 DEF HelpInv, Ending, Unheard
  <2>3. HelpTypeOK'
    BY <2>1, <2>2 DEF HelpInv, HelpTypeOK
  <2>4. /\ req'[r] = "active"
        /\ \A q \in Requests \ {r} : req'[q] = req[q] /\ send'[q] = send[q]
    BY <2>1 DEF HelpInv, HelpTypeOK
  <2>5. ASSUME NEW q \in Requests PROVE Ending(q)' /\ Unheard(q)'
    BY <2>1, <2>2, <2>4 DEF HelpInv, Ending, Unheard
  <2>6. Meant' /\ ContinuedByUser'
    BY <2>1 DEF HelpInv, Meant, ContinuedByUser
  <2>7. ShownIsReached'
    BY <2>1, <2>2, <2>4 DEF HelpInv, ShownIsReached, Active
  <2> QED BY <2>3, <2>5, <2>6, <2>7 DEF HelpInv
<1> QED BY <1>1, <1>2

\* The cleanup takes the request out of the pages, then out of the history.
LEMMA CleanUpKeeps ==
  ASSUME HelpInv, NEW r \in Requests, CleanUp(r) \/ CleanedUp(r) \/ \E t \in Tabs : CancelArrives(r, t)
  PROVE  HelpInv'
<1>1. CASE CleanUp(r)
  <2>1. /\ cleanup[r] = "due" /\ cleanup' = [cleanup EXCEPT ![r] = "sending"]
        /\ cancels' = cancels \cup ({r} \X (overlays[r] \cup {primary[r]}))
        /\ UNCHANGED <<req, outcome, primary, overlays, signal, send, finishes, shown, query, clicked, arms>>
    BY <1>1 DEF CleanUp, pages
  <2>2. req[r] \notin {"new", "preparing", "active"} /\ primary[r] \in Tabs
    BY <2>1 DEF HelpInv, Ending
  <2>3. cancels' \subseteq Requests \X Tabs
    BY <2>1, <2>2 DEF HelpInv, HelpTypeOK
  <2>4. cleanup' \in [Requests -> {"none", "due", "sending", "done"}] /\ cleanup'[r] = "sending"
        /\ \A q \in Requests \ {r} : cleanup'[q] = cleanup[q]
    BY <2>1 DEF HelpInv, HelpTypeOK
  <2>5. HelpTypeOK'
    BY <2>1, <2>3, <2>4 DEF HelpInv, HelpTypeOK
  <2>6. ASSUME NEW q \in Requests PROVE Ending(q)' /\ Unheard(q)'
    BY <2>1, <2>2, <2>4 DEF HelpInv, Ending, Unheard
  <2>7. Meant'
    BY <2>1, <2>4 DEF HelpInv, HelpTypeOK, Meant
  <2> QED BY <2>1, <2>5, <2>6, <2>7 DEF HelpInv, ContinuedByUser, ShownIsReached, Active
<1>2. CASE CleanedUp(r)
  <2>1. /\ cleanup[r] = "sending" /\ cleanup' = [cleanup EXCEPT ![r] = "done"] /\ req' = [req EXCEPT ![r] = "answered"]
        /\ primary' = [primary EXCEPT ![r] = None] /\ overlays' = [overlays EXCEPT ![r] = {}]
        /\ outcome' = [outcome EXCEPT ![r] = "none"] /\ clicked' = {c \in clicked : c[1] # r}
        /\ UNCHANGED <<signal, send, cancels, finishes, shown, query, arms>>
    BY <1>2 DEF CleanedUp, wire, pages
  <2>2. HelpTypeOK'
    BY <2>1 DEF HelpInv, HelpTypeOK
  <2>3. /\ req'[r] = "answered" /\ cleanup'[r] = "done" /\ outcome'[r] = "none"
        /\ \A q \in Requests \ {r} : /\ req'[q] = req[q] /\ cleanup'[q] = cleanup[q] /\ primary'[q] = primary[q]
                                     /\ overlays'[q] = overlays[q] /\ outcome'[q] = outcome[q]
    BY <2>1 DEF HelpInv, HelpTypeOK
  <2>4. \A q \in Requests \ {r} : <<q, "continued">> \in clicked => <<q, "continued">> \in clicked'
    BY <2>1
  <2>5. ASSUME NEW q \in Requests PROVE Ending(q)' /\ Unheard(q)'
    BY <2>1, <2>3 DEF HelpInv, Ending, Unheard
  <2>6. Meant'
    BY <2>1, <2>3, <2>4 DEF HelpInv, HelpTypeOK, Meant
  <2>7. ContinuedByUser'
    BY <2>3, <2>4 DEF HelpInv, ContinuedByUser
  <2>8. ShownIsReached'
    BY <2>1, <2>3 DEF HelpInv, ShownIsReached, Active
  <2> QED BY <2>2, <2>5, <2>6, <2>7, <2>8 DEF HelpInv
<1>3. ASSUME NEW t \in Tabs, CancelArrives(r, t) PROVE HelpInv'
  <2>1. /\ cancels' \subseteq cancels /\ shown' = [shown EXCEPT ![t] = IF @ = r THEN None ELSE @]
        /\ UNCHANGED <<req, outcome, primary, overlays, cleanup, signal, send, finishes, query, clicked, arms>>
    BY <1>3 DEF CancelArrives, help
  <2>2. HelpTypeOK'
    BY <2>1 DEF HelpInv, HelpTypeOK
  <2>3. \A x \in Tabs : shown'[x] = shown[x] \/ shown'[x] = None
    BY <2>1 DEF HelpInv, HelpTypeOK
  <2>4. \A q \in Requests : q # None
    BY HelpAssumption
  <2>5. ASSUME NEW q \in Requests PROVE Ending(q)' /\ Unheard(q)'
    BY <2>1, <2>3, <2>4 DEF HelpInv, Ending, Unheard
  <2>6. Meant' /\ ContinuedByUser'
    BY <2>1 DEF HelpInv, Meant, ContinuedByUser
  <2>7. ShownIsReached'
    BY <2>1, <2>3, <2>4 DEF HelpInv, ShownIsReached, Active
  <2> QED BY <2>2, <2>5, <2>6, <2>7 DEF HelpInv
<1> QED BY <1>1, <1>2, <1>3

\* A message of a page comes from a click, or from an overlay that was replaced.
LEMMA FinishSent ==
  ASSUME HelpInv, NEW r \in Requests, NEW how \in {"continued", "cancelled"}, SendsFinish(r, how)
  PROVE  /\ finishes' \subseteq [req : Requests, how : {"continued", "cancelled"}]
         /\ \A f \in finishes' : f \in finishes \/ (f.req = r /\ f.how = how)
BY DEF HelpInv, HelpTypeOK, SendsFinish

\* Pages and loops move while the requests stay where they are.
LEMMA PagesMove ==
  ASSUME HelpInv, HelpTypeOK', NEW t \in Tabs,
         UNCHANGED <<req, outcome, primary, cleanup>>,
         \A q \in Requests : overlays[q] \subseteq overlays'[q],
         \A q \in Requests, u \in Tabs \ {t} :
           shown'[u] = shown[u] /\ query'[u] = query[u] /\ (send'[q][u] = "none" <=> send[q][u] = "none")
             /\ (send'[q][u] = "acked" <=> send[q][u] = "acked"),
         \A q \in Requests : req[q] \in {"new", "preparing"} => send'[q][t] = "none" /\ shown'[t] # q /\ query'[t] # q,
         \A q \in Active : shown'[t] = q => t \in overlays'[q] \cup {primary[q]} \/ send'[q][t] = "acked",
         clicked \subseteq clicked',
         \A f \in finishes' : f \in finishes \/ (f.how = "continued" /\ cleanup[f.req] # "done" => <<f.req, "continued">> \in clicked')
  PROVE  HelpInv'
<1>1. ASSUME NEW q \in Requests PROVE Ending(q)' /\ Unheard(q)'
  BY DEF HelpInv, Ending, Unheard
<1>2. Meant'
  BY DEF HelpInv, Meant
<1>3. ContinuedByUser'
  BY DEF HelpInv, ContinuedByUser
<1>4. ShownIsReached'
  BY DEF HelpInv, ShownIsReached, Active
<1> QED BY <1>1, <1>2, <1>3, <1>4 DEF HelpInv

LEMMA TabStepKeeps == ASSUME HelpInv, NEW t \in Tabs, TabStep(t) PROVE HelpInv'
<1>1. CASE \E r \in Requests : Begin(r, t)
  BY <1>1, BeginKeeps
<1> DEFINE Idle == \A q \in Requests : req[q] \in {"new", "preparing"} => send[q][t] = "none" /\ shown[t] # q /\ query[t] # q
           Reached == \A q \in Active : shown[t] = q => t \in overlays[q] \cup {primary[q]} \/ send[q][t] = "acked"
<1>2. Idle /\ Reached /\ \A q \in Requests : q # None
  BY HelpAssumption DEF HelpInv, Unheard, ShownIsReached
<1>3. CASE Rearm(t)
  <2>1. PICK r \in Active : send[r][t] = "none" /\ send' = [send EXCEPT ![r][t] = "sending"]
    BY <1>3 DEF Rearm
  <2>2. UNCHANGED <<req, outcome, primary, overlays, cleanup, signal, cancels, finishes, shown, query, clicked>> /\ arms' = arms + 1 /\ arms < MaxArms
    BY <1>3 DEF Rearm, help, wire, pages
  <2>3. HelpTypeOK'
    <3>1. r \in Requests /\ send' \in [Requests -> [Tabs -> {"none", "sending", "acked"}]]
      BY <2>1 DEF HelpInv, HelpTypeOK, Active
    <3>2. arms' \in 0 .. MaxArms
      BY <2>2, HelpAssumption DEF HelpInv, HelpTypeOK
    <3> QED BY <2>2, <3>1, <3>2 DEF HelpInv, HelpTypeOK
  <2>4. /\ \A q \in Requests, u \in Tabs : <<q, u>> # <<r, t>> => send'[q][u] = send[q][u]
        /\ req[r] = "active" /\ r \in Requests
    BY <2>1 DEF HelpInv, HelpTypeOK, Active
  <2> QED BY <1>2, <2>1, <2>2, <2>3, <2>4, PagesMove
<1>4. ASSUME NEW r \in Requests, Shows(r, t) PROVE HelpInv'
  <2>1. /\ send[r][t] = "sending" /\ send' = [send EXCEPT ![r][t] = "acked"] /\ shown' = [shown EXCEPT ![t] = r]
        /\ UNCHANGED <<req, outcome, primary, overlays, cleanup, signal, cancels, query, clicked, arms>>
    BY <1>4 DEF Shows, help
  <2>2. finishes' = finishes \/ (shown[t] \in Requests /\ SendsFinish(shown[t], "cancelled"))
    BY <1>4 DEF Shows, HelpInv, HelpTypeOK
  <2>3. /\ finishes' \subseteq [req : Requests, how : {"continued", "cancelled"}]
        /\ \A f \in finishes' : f \in finishes \/ f.how = "cancelled"
    BY <2>2, FinishSent DEF HelpInv, HelpTypeOK
  <2>4. HelpTypeOK'
    BY <2>1, <2>3 DEF HelpInv, HelpTypeOK
  <2>5. /\ shown'[t] = r /\ \A u \in Tabs \ {t} : shown'[u] = shown[u]
        /\ send'[r][t] = "acked" /\ \A q \in Requests, u \in Tabs : <<q, u>> # <<r, t>> => send'[q][u] = send[q][u]
    BY <2>1 DEF HelpInv, HelpTypeOK
  <2>6. req[r] \notin {"new", "preparing"}
    BY <1>2, <2>1
  <2> QED BY <1>2, <2>1, <2>3, <2>4, <2>5, <2>6, PagesMove
<1>5. ASSUME NEW r \in Requests, Acked(r, t) PROVE HelpInv'
  <2>1. /\ send[r][t] = "acked" /\ send' = [send EXCEPT ![r][t] = "none"]
        /\ UNCHANGED <<req, outcome, primary, cleanup, signal, cancels, finishes, shown, query, clicked, arms>>
    BY <1>5 DEF Acked, wire, pages
  <2>2. /\ overlays' \in [Requests -> SUBSET Tabs] /\ \A q \in Requests : overlays[q] \subseteq overlays'[q]
        /\ cleanup[r] # "done" => t \in overlays'[r]
    BY <1>5 DEF Acked, Remember, HelpInv, HelpTypeOK
  <2>3. HelpTypeOK'
    BY <2>1, <2>2 DEF HelpInv, HelpTypeOK
  <2>4. send'[r][t] = "none" /\ \A q \in Requests, u \in Tabs : <<q, u>> # <<r, t>> => send'[q][u] = send[q][u]
    BY <2>1 DEF HelpInv, HelpTypeOK
  <2>5. \A q \in Active : shown'[t] = q => t \in overlays'[q] \cup {primary[q]} \/ send'[q][t] = "acked"
    BY <1>2, <2>1, <2>2, <2>4 DEF HelpInv, Ending, Active
  <2> QED BY <1>2, <2>1, <2>2, <2>3, <2>4, <2>5, PagesMove
<1>6. ASSUME NEW r \in Requests, NotShown(r, t) PROVE HelpInv'
  <2>1. /\ send[r][t] = "sending" /\ send' = [send EXCEPT ![r][t] = "none"]
        /\ UNCHANGED <<req, outcome, primary, overlays, cleanup, signal, cancels, finishes, shown, query, clicked, arms>>
    BY <1>6 DEF NotShown, help, wire, pages
  <2>2. HelpTypeOK'
    BY <2>1 DEF HelpInv, HelpTypeOK
  <2>3. send'[r][t] = "none" /\ \A q \in Requests, u \in Tabs : <<q, u>> # <<r, t>> => send'[q][u] = send[q][u]
    BY <2>1 DEF HelpInv, HelpTypeOK
  <2> QED BY <1>2, <2>1, <2>2, <2>3, PagesMove
<1>7. CASE NewDocument(t)
  <2>1. /\ shown' = [shown EXCEPT ![t] = None] /\ query' = [query EXCEPT ![t] = None]
        /\ UNCHANGED <<req, outcome, primary, overlays, cleanup, signal, send, cancels, finishes, clicked, arms>>
    BY <1>7 DEF NewDocument, help, wire
  <2>2. HelpTypeOK'
    BY <2>1 DEF HelpInv, HelpTypeOK
  <2>3. shown'[t] = None /\ query'[t] = None /\ \A u \in Tabs \ {t} : shown'[u] = shown[u] /\ query'[u] = query[u]
    BY <2>1 DEF HelpInv, HelpTypeOK
  <2>4. \A q \in Active : q \in Requests
    BY DEF Active
  <2> QED BY <1>2, <2>1, <2>2, <2>3, <2>4, PagesMove
<1>8. CASE QueryFinds(t)
  <2>1. PICK r \in Active : query' = [query EXCEPT ![t] = r]
    BY <1>8 DEF QueryFinds
  <2>2. UNCHANGED <<req, outcome, primary, overlays, cleanup, signal, send, cancels, finishes, shown, clicked>> /\ arms' = arms + 1 /\ arms < MaxArms
    BY <1>8 DEF QueryFinds, help, wire
  <2>3. r \in Requests /\ req[r] = "active"
    BY <2>1 DEF Active
  <2>4. HelpTypeOK'
    BY <2>1, <2>2, <2>3, HelpAssumption DEF HelpInv, HelpTypeOK
  <2>5. query'[t] = r /\ \A u \in Tabs \ {t} : query'[u] = query[u]
    BY <2>1 DEF HelpInv, HelpTypeOK
  <2> QED BY <1>2, <2>2, <2>3, <2>4, <2>5, PagesMove
<1>9. CASE QueryReplies(t)
  <2>1. PICK r \in Requests : r = query[t]
    BY <1>9 DEF QueryReplies
  <2>2. /\ shown' = [shown EXCEPT ![t] = r] /\ query' = [query EXCEPT ![t] = None] /\ Remember(r, t)
        /\ UNCHANGED <<req, outcome, primary, cleanup, signal, send, cancels, finishes, clicked, arms>>
    BY <1>9, <2>1 DEF QueryReplies, wire
  <2>3. /\ overlays' \in [Requests -> SUBSET Tabs] /\ \A q \in Requests : overlays[q] \subseteq overlays'[q]
        /\ cleanup[r] # "done" => t \in overlays'[r]
    BY <2>2 DEF Remember, HelpInv, HelpTypeOK
  <2>4. HelpTypeOK'
    BY <2>2, <2>3 DEF HelpInv, HelpTypeOK
  <2>5. shown'[t] = r /\ query'[t] = None /\ \A u \in Tabs \ {t} : shown'[u] = shown[u] /\ query'[u] = query[u]
    BY <2>2 DEF HelpInv, HelpTypeOK
  <2>6. req[r] \notin {"new", "preparing"}
    BY <1>2, <2>1
  <2>7. \A q \in Active : shown'[t] = q => t \in overlays'[q] \cup {primary[q]} \/ send'[q][t] = "acked"
    BY <2>3, <2>5 DEF HelpInv, Ending, Active
  <2> QED BY <1>2, <2>2, <2>3, <2>4, <2>5, <2>6, <2>7, PagesMove
<1>10. ASSUME NEW how \in {"continued", "cancelled"}, Clicks(t, how) PROVE HelpInv'
  <2>1. PICK r \in Requests : r = shown[t]
    BY <1>10 DEF Clicks, HelpInv, HelpTypeOK
  <2>2. /\ shown' = [shown EXCEPT ![t] = None] /\ SendsFinish(r, how)
        /\ clicked' = (IF cleanup[r] = "done" THEN clicked ELSE clicked \cup {<<r, how>>})
        /\ UNCHANGED <<req, outcome, primary, overlays, cleanup, signal, send, cancels, query, arms>>
    BY <1>10, <2>1 DEF Clicks, help
  <2>3. /\ finishes' \subseteq [req : Requests, how : {"continued", "cancelled"}]
        /\ \A f \in finishes' : f \in finishes \/ (f.req = r /\ f.how = how)
    BY <2>2, FinishSent
  <2>4. HelpTypeOK'
    BY <2>2, <2>3 DEF HelpInv, HelpTypeOK
  <2>5. shown'[t] = None /\ \A u \in Tabs \ {t} : shown'[u] = shown[u]
    BY <2>2 DEF HelpInv, HelpTypeOK
  <2>6. /\ clicked \subseteq clicked'
        /\ \A f \in finishes' : f \in finishes \/ (f.how = "continued" /\ cleanup[f.req] # "done" => <<f.req, "continued">> \in clicked')
    BY <2>2, <2>3
  <2>7. \A q \in Active : q \in Requests
    BY DEF Active
  <2> QED BY <1>2, <2>2, <2>4, <2>5, <2>6, <2>7, PagesMove
<1> QED BY <1>1, <1>3, <1>4, <1>5, <1>6, <1>7, <1>8, <1>9, <1>10 DEF TabStep

LEMMA HelpNextInv == HelpInv /\ [HelpNext]_helpVars => HelpInv'
<1> SUFFICES ASSUME HelpInv, [HelpNext]_helpVars PROVE HelpInv'
  OBVIOUS
<1>1. ASSUME NEW r \in Requests, RequestStep(r) \/ Abort(r) \/ Completes(r) PROVE HelpInv'
  BY <1>1, EndsSettle, ActivateKeeps, CleanUpKeeps DEF RequestStep
<1>2. ASSUME NEW t \in Tabs, TabStep(t) PROVE HelpInv'
  BY <1>2, TabStepKeeps
<1>3. ASSUME NEW f \in finishes, FinishArrives(f) PROVE HelpInv'
  BY <1>3, FinishArrivesKeeps
<1>4. CASE UNCHANGED helpVars
  BY <1>4 DEF helpVars, help, wire, pages, HelpInv, HelpTypeOK, Ending, Unheard, Meant, ContinuedByUser, ShownIsReached, Active
<1> QED BY <1>1, <1>2, <1>3, <1>4 DEF HelpNext

-----------------------------------------------------------------------------
\* Requests for help: the results

\* The variables of HumanLoop have their types.
THEOREM HelpTypes == HelpSpec => []HelpTypeOK
<1>1. HelpInv => HelpTypeOK
  BY DEF HelpInv
<1> QED BY <1>1, HelpInitInv, HelpNextInv, PTL DEF HelpSpec

\* The agent goes on only when the user has said so, and for this very request.
THEOREM OnlyTheUserContinues == HelpSpec => []ContinuedByUser
<1>1. HelpInv => ContinuedByUser
  BY DEF HelpInv
<1> QED BY <1>1, HelpInitInv, HelpNextInv, PTL DEF HelpSpec

\* The end of a request reaches every page that has shown it for long enough to say so.
THEOREM OverlaysAreReached == HelpSpec => []ShownIsReached
<1>1. HelpInv => ShownIsReached
  BY DEF HelpInv
<1> QED BY <1>1, HelpInitInv, HelpNextInv, PTL DEF HelpSpec

-----------------------------------------------------------------------------
\* Requests for help: who cancels

\* No overlay takes the place of that of another request.
NothingReplaced == \A r \in Requests, t \in Tabs : Shows(r, t) => shown[t] \in {None, r}

\* As Meant and ContinuedByUser, for the other button.
CancelInv ==
  /\ \A f \in finishes : f.how = "cancelled" /\ cleanup[f.req] # "done" => <<f.req, "cancelled">> \in clicked
  /\ CancelledByUser

\* Steps after which no more is history and no less is clicked.
LEMMA CancelStays ==
  ASSUME HelpInv, CancelInv, clicked \subseteq clicked',
         \A r \in Requests : cleanup[r] = "done" => cleanup'[r] = "done",
         \A r \in Requests : outcome'[r] = "cancelled" => outcome[r] = "cancelled" \/ <<r, "cancelled">> \in clicked,
         \A f \in finishes' : f \in finishes \/
           (f.how = "cancelled" /\ cleanup[f.req] # "done" => <<f.req, "cancelled">> \in clicked'),
         finishes' \subseteq [req : Requests, how : {"continued", "cancelled"}]
  PROVE  CancelInv'
BY DEF CancelInv, CancelledByUser

LEMMA SettleCancels ==
  ASSUME HelpInv, CancelInv, NEW r \in Requests, req[r] \in {"preparing", "active"}, NEW how \in Outcomes,
         NEW waits \in BOOLEAN, how = "cancelled" => <<r, "cancelled">> \in clicked,
         Settle(r, how, waits), clicked' = clicked, finishes' \subseteq finishes
  PROVE  CancelInv'
<1>1. cleanup[r] = "none"
  BY DEF HelpInv, Ending
<1>2. \A q \in Requests : cleanup[q] = "done" => cleanup'[q] = "done"
  BY <1>1 DEF Settle, HelpInv, HelpTypeOK
<1>3. \A q \in Requests : outcome'[q] = "cancelled" => outcome[q] = "cancelled" \/ <<q, "cancelled">> \in clicked
  BY DEF Settle, HelpInv, HelpTypeOK
<1>4. finishes \subseteq [req : Requests, how : {"continued", "cancelled"}]
  BY DEF HelpInv, HelpTypeOK
<1> QED BY <1>2, <1>3, <1>4, CancelStays

LEMMA RequestCancels ==
  ASSUME HelpInv, CancelInv, NEW r \in Requests, RequestStep(r) \/ Abort(r) \/ Completes(r)
  PROVE  CancelInv'
<1>1. finishes \subseteq [req : Requests, how : {"continued", "cancelled"}]
  BY DEF HelpInv, HelpTypeOK
<1>2. CASE Settle(r, "other", FALSE) /\ req[r] \in {"preparing", "active"} /\ UNCHANGED <<finishes, clicked>>
  BY <1>2, SettleCancels DEF Outcomes
<1>3. CASE UNCHANGED <<outcome, finishes, clicked>> /\ \A q \in Requests : cleanup[q] = "done" => cleanup'[q] = "done"
  BY <1>1, <1>3, CancelStays
<1>4. CASE Activate(r) \/ Abort(r) \/ Timeout(r) \/ Completes(r)
  BY <1>2, <1>3, <1>4 DEF Activate, Abort, Timeout, Completes, Active, wire
<1>5. CASE CleanUp(r)
  BY <1>3, <1>5 DEF CleanUp, HelpInv, HelpTypeOK
<1>6. CASE \E t \in Tabs : CancelArrives(r, t)
  BY <1>3, <1>6 DEF CancelArrives, help
<1>7. CASE CleanedUp(r)
  <2>1. /\ cleanup' = [cleanup EXCEPT ![r] = "done"] /\ outcome' = [outcome EXCEPT ![r] = "none"]
        /\ clicked' = {c \in clicked : c[1] # r} /\ finishes' = finishes
    BY <1>7 DEF CleanedUp, wire
  <2>2. \A q \in Requests \ {r} : cleanup'[q] = cleanup[q] /\ outcome'[q] = outcome[q]
    BY <2>1 DEF HelpInv, HelpTypeOK
  <2>3. cleanup'[r] = "done" /\ outcome'[r] = "none"
    BY <2>1 DEF HelpInv, HelpTypeOK
  <2>4. \A q \in Requests \ {r} : <<q, "cancelled">> \in clicked => <<q, "cancelled">> \in clicked'
    BY <2>1
  <2>5. ASSUME NEW f \in finishes', f.how = "cancelled", cleanup'[f.req] # "done"
        PROVE  <<f.req, "cancelled">> \in clicked'
    <3>1. f \in finishes /\ f.req \in Requests \ {r}
      BY <1>1, <2>1, <2>3, <2>5
    <3> QED BY <2>2, <2>4, <2>5, <3>1 DEF CancelInv
  <2>6. CancelledByUser'
    BY <2>2, <2>3, <2>4 DEF CancelInv, CancelledByUser
  <2> QED BY <2>5, <2>6 DEF CancelInv
<1> QED BY <1>4, <1>5, <1>6, <1>7 DEF RequestStep

LEMMA TabCancels ==
  ASSUME HelpInv, CancelInv, NEW t \in Tabs, TabStep(t), NothingReplaced
  PROVE  CancelInv'
<1>1. finishes \subseteq [req : Requests, how : {"continued", "cancelled"}]
  BY DEF HelpInv, HelpTypeOK
<1>2. CASE UNCHANGED <<outcome, cleanup, finishes, clicked>>
  BY <1>1, <1>2, CancelStays
<1>3. CASE Rearm(t) \/ NewDocument(t) \/ QueryFinds(t) \/ QueryReplies(t)
  BY <1>2, <1>3 DEF Rearm, NewDocument, QueryFinds, QueryReplies, help, wire
<1>4. ASSUME NEW r \in Requests, Acked(r, t) \/ NotShown(r, t) PROVE CancelInv'
  BY <1>2, <1>4 DEF Acked, NotShown, help, wire
<1>5. ASSUME NEW r \in Requests, Shows(r, t) PROVE CancelInv'
  BY <1>2, <1>5 DEF Shows, NothingReplaced, help
<1>6. ASSUME NEW r \in Requests, Begin(r, t) PROVE CancelInv'
  BY <1>2, <1>6 DEF Begin, wire
<1>7. ASSUME NEW how \in {"continued", "cancelled"}, Clicks(t, how) PROVE CancelInv'
  <2>1. PICK r \in Requests : r = shown[t]
    BY <1>7 DEF Clicks, HelpInv, HelpTypeOK
  <2>2. /\ SendsFinish(r, how) /\ UNCHANGED <<outcome, cleanup>>
        /\ clicked' = (IF cleanup[r] = "done" THEN clicked ELSE clicked \cup {<<r, how>>})
    BY <1>7, <2>1 DEF Clicks, help
  <2>3. /\ finishes' \subseteq [req : Requests, how : {"continued", "cancelled"}]
        /\ \A f \in finishes' : f \in finishes \/ (f.req = r /\ f.how = how)
    BY <2>2, FinishSent
  <2>4. clicked \subseteq clicked'
    BY <2>2
  <2>5. \A f \in finishes' : f \in finishes \/
          (f.how = "cancelled" /\ cleanup[f.req] # "done" => <<f.req, "cancelled">> \in clicked')
    BY <2>2, <2>3
  <2> QED BY <2>2, <2>3, <2>4, <2>5, CancelStays
<1> QED BY <1>3, <1>4, <1>5, <1>6, <1>7 DEF TabStep

LEMMA CancelInvNext ==
  HelpInv /\ CancelInv /\ [HelpNext /\ NothingReplaced]_helpVars => CancelInv'
<1> SUFFICES ASSUME HelpInv, CancelInv, [HelpNext /\ NothingReplaced]_helpVars PROVE CancelInv'
  OBVIOUS
<1>1. finishes \subseteq [req : Requests, how : {"continued", "cancelled"}]
  BY DEF HelpInv, HelpTypeOK
<1>2. ASSUME NEW f \in finishes, FinishArrives(f) PROVE CancelInv'
  <2>1. finishes' \subseteq finishes /\ clicked' = clicked
    BY <1>2 DEF FinishArrives
  <2>2. CASE f.req \in Active /\ Settle(f.req, f.how, TRUE)
    <3>1. f.req \in Requests /\ req[f.req] = "active" /\ f.how \in {"continued", "cancelled"}
      BY <1>1, <2>2 DEF Active
    <3>2. cleanup[f.req] = "none"
      BY <3>1 DEF HelpInv, Ending
    <3>3. f.how = "cancelled" => <<f.req, "cancelled">> \in clicked
      BY <3>2 DEF CancelInv
    <3>4. f.how \in Outcomes
      BY <3>1 DEF Outcomes
    <3> QED BY <2>1, <2>2, <3>1, <3>3, <3>4, SettleCancels
  <2>3. CASE UNCHANGED <<outcome, cleanup>>
    BY <1>1, <2>1, <2>3, CancelStays
  <2> QED BY <1>2, <2>2, <2>3 DEF FinishArrives
<1>3. CASE UNCHANGED helpVars
  BY <1>1, <1>3, CancelStays DEF helpVars, help, wire, pages
<1> QED BY <1>2, <1>3, RequestCancels, TabCancels DEF HelpNext

\* A request ends as cancelled only when the user has cancelled this very request, as
\* long as no overlay replaces that of another request: the late attempts that do so
\* (HumanLoop_cancelled.cfg) are all that can make the page report a cancel of its own.
THEOREM OnlyTheUserCancels == HelpSpec /\ [][NothingReplaced]_helpVars => []CancelledByUser
<1>1. HelpInit => CancelInv
  BY DEF HelpInit, CancelInv, CancelledByUser
<1>2. CancelInv => CancelledByUser
  BY DEF CancelInv
<1>3. HelpInv /\ CancelInv /\ [HelpNext]_helpVars /\ [NothingReplaced]_helpVars => CancelInv'
  BY CancelInvNext
<1> QED BY <1>1, <1>2, <1>3, HelpInitInv, HelpNextInv, PTL DEF HelpSpec
===============================================================================
