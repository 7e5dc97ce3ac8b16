------------------------------ MODULE CdpDriverProofs ------------------------------
(***************************************************************************)
(* The attachment of a tab and the pages of its log, for every number of   *)
(* sessions and calls and every length of the buffer.                      *)
(*                                                                         *)
(* A tab that the driver does not hold is free once no attach is under way *)
(* because the browser's attachment is that of a call that is still        *)
(* attaching, or the tab is cached: what takes the one away takes the      *)
(* other with it. Nobody waits for a promise that nobody settles because   *)
(* an entry of attachInFlight goes with its own attach at the latest, and  *)
(* the end of an attach releases whoever waits for it.                     *)
(***************************************************************************)
EXTENDS CdpDriver, TLAPS

-----------------------------------------------------------------------------
\* Types

Records == [at : {"idle", "waiting", "ready"} \cup Attaching, who : Sessions \cup {None},
            late : BOOLEAN, on : Calls \cup {None}]

\* A call that is not over has a session.
Whose == \A c \in Calls : call[c].at # "idle" => call[c].who \in Sessions

Typed == TypeOK /\ Whose

LEMMA EndedRecord == Ended \in Records /\ Ended.at = "idle" /\ Ended.on = None
BY DEF Ended, Records

\* What a page that is not truncated shows, and where it ends.
LEMMA PageIsWhole ==
  ASSUME NEW n \in 0 .. MaxEntries, NEW since \in Cursors, NEW limit \in 1 .. Buffer
  PROVE  LET page == ReadPage(n, since, limit)
             seen == IF since = None THEN 0 ELSE since
         IN /\ page.next \in 0 .. MaxEntries
            /\ page.truncated \/ page.entries = (seen + 1) .. page.next
<1> DEFINE from == From(n, since, limit)
           to == To(n, since, limit)
           oldest == Oldest(n, since)
           seen == IF since = None THEN 0 ELSE since
           page == ReadPage(n, since, limit)
<1>1. n \in Nat /\ n <= MaxEntries /\ limit \in Nat /\ limit >= 1 /\ Buffer \in Nat /\ MaxEntries \in Nat /\ None \notin Int
  BY CdpAssumption
<1>2. Dropped(n) \in Nat /\ Dropped(n) <= n
  BY <1>1 DEF Dropped
<1>3. since = None \/ since \in Nat
  BY <1>1 DEF Cursors
<1>4. oldest \in Nat
  BY <1>2, <1>3 DEF Oldest
<1>5. to \in Nat /\ to <= n
  BY <1>1, <1>4 DEF To
<1>6. page.next \in {to, n} /\ (page.truncated <=> (Dropped(n) > 0 /\ (since = None \/ since < Dropped(n))) \/ n - oldest > limit)
      /\ page.entries = (from + 1) .. to /\ page.next = IF from < to THEN to ELSE n
  BY DEF ReadPage
<1>7. page.next \in 0 .. MaxEntries
  BY <1>1, <1>5, <1>6
<1>8. ASSUME ~page.truncated PROVE page.entries = (seen + 1) .. page.next
  <2>1. ~(n - oldest > limit) /\ (Dropped(n) = 0 \/ (since # None /\ since >= Dropped(n)))
    BY <1>2, <1>3, <1>6, <1>8
  <2>2. from = oldest /\ to = n
    BY <2>1 DEF From, To
  <2>3. oldest = seen
    BY <1>2, <1>3, <2>1 DEF Oldest
  <2> QED BY <1>6, <2>2, <2>3
<1> HIDE DEF page
<1> QED BY <1>7, <1>8 DEF page

LEMMA InitTyped == Init => Typed
<1> SUFFICES ASSUME Init PROVE Typed
  OBVIOUS
<1>1. seq \in 0 .. MaxEntries /\ None \in Cursors
  BY CdpAssumption DEF Init, Cursors
<1>2. call \in [Calls -> Records] /\ \A c \in Calls : call[c].at = "idle"
  BY EndedRecord DEF Init
<1>3. cursor \in [Sessions -> Cursors] /\ live \in [Sessions -> {"live", "stopping", "gone"}]
  BY <1>1 DEF Init
<1> QED BY <1>1, <1>2, <1>3 DEF Init, Typed, TypeOK, Whose, Records

\* The log and its readers after a step.
LogTyped == seq' \in 0 .. MaxEntries /\ cursor' \in [Sessions -> Cursors] /\ current' \subseteq Sessions

\* The log starts again, or is not touched.
LEMMA ClearTypes == ASSUME TypeOK, ClearLog \/ UNCHANGED log PROVE LogTyped
<1>1. 0 \in 0 .. MaxEntries
  BY CdpAssumption
<1> QED BY <1>1 DEF ClearLog, log, TypeOK, LogTyped

\* The calls after a step of one of them.
CallsTyped == call' \in [Calls -> Records] /\ Whose'

LEMMA GotoTypes ==
  ASSUME Typed, NEW c \in Calls, NEW to \in {"ready"} \cup Attaching, call[c].at # "idle", Goto(c, to)
  PROVE  CallsTyped
BY DEF Typed, TypeOK, Whose, Goto, Records, CallsTyped

LEMMA EndTypes == ASSUME Typed, NEW c \in Calls, call' = [call EXCEPT ![c] = Ended] PROVE CallsTyped
BY EndedRecord DEF Typed, TypeOK, Whose, Records, CallsTyped

LEMMA SettleTypes ==
  ASSUME Typed, NEW c \in Calls, call[c].at # "idle", \A d \in Calls : call[d].on = c => call[d].at # "idle",
         NEW ok \in BOOLEAN, Settle(c, ok)
  PROVE  CallsTyped /\ inflight' = None
<1>1. \A d \in Calls : call[d] \in Records /\ [call[d] EXCEPT !.at = "ready", !.on = None] \in Records
  BY DEF Typed, TypeOK, Records
<1>2. call' \in [Calls -> Records]
  BY <1>1, EndedRecord DEF Settle
<1>3. ASSUME NEW d \in Calls, call'[d].at # "idle" PROVE call'[d].who \in Sessions
  <2>1. call'[d] \in {Ended, call[d], [call[d] EXCEPT !.at = "ready", !.on = None]}
    BY DEF Settle
  <2>2. call'[d] = [call[d] EXCEPT !.at = "ready", !.on = None] => d = c \/ call[d].on = c \/ call'[d] = call[d]
    BY DEF Settle
  <2>3. call[d].at # "idle" => call[d].who \in Sessions
    BY DEF Typed, Whose
  <2> QED BY <1>1, <1>3, <2>1, <2>2, <2>3, EndedRecord DEF Records
<1> QED BY <1>2, <1>3 DEF CallsTyped, Whose, Settle

-----------------------------------------------------------------------------
\* The attachment

\* Who attaches waits for nobody; an entry of attachInFlight is of an attach that is under
\* way, and so is what anybody waits for; what the browser has attached is known.
Promises ==
  /\ \A c \in Calls : call[c].at # "waiting" => call[c].on = None
  /\ inflight # None => call[inflight].at \in Attaching
  /\ WaitersHaveAttach

Known == chrome # None /\ ~cached => call[chrome].at \in {"page", "domains", "rollback"}

AttachInv == Typed /\ Promises /\ Known

LEMMA AttachInit == Init => AttachInv
<1>1. Init => Promises /\ Known
  BY EndedRecord DEF Init, Promises, Known, WaitersHaveAttach
<1> QED BY <1>1, InitTyped DEF AttachInv

\* A call goes from one stage of its attach to the next.
LEMMA GotoKeeps ==
  ASSUME AttachInv, NEW c \in Calls, call[c].at \in Attaching, NEW to \in Attaching \ {"attach"}, Goto(c, to),
         UNCHANGED inflight
  PROVE  Promises' /\ (Known' \/ chrome' # c)
BY CdpAssumption DEF AttachInv, Typed, TypeOK, Promises, Known, WaitersHaveAttach, Goto, Attaching

\* An attach ends.
LEMMA SettleKeeps ==
  ASSUME AttachInv, NEW c \in Calls, call[c].at \in Attaching, NEW ok \in BOOLEAN, Settle(c, ok)
  PROVE  CallsTyped /\ inflight' = None /\ Promises' /\ \A d \in Calls \ {c} : call[d].at \in Attaching => call'[d] = call[d]
<1>1. /\ \A d \in Calls : call[d] \in Records /\ (call[d].on # None => call[d].at = "waiting")
      /\ call[c].at # "idle" /\ None \notin Calls
  BY CdpAssumption DEF AttachInv, Typed, TypeOK, Promises, Attaching, Records
<1>2. CallsTyped /\ inflight' = None
  BY <1>1, SettleTypes DEF AttachInv
<1>3. ASSUME NEW d \in Calls
      PROVE  IF d = c \/ call[d].on = c THEN call'[d].at \in {"ready", "idle"} /\ call'[d].on = None ELSE call'[d] = call[d]
  <2>1. call'[d] = IF d = c \/ call[d].on = c
                   THEN IF ok THEN [call[d] EXCEPT !.at = "ready", !.on = None] ELSE Ended ELSE call[d]
    BY DEF Settle
  <2> QED BY <1>1, <2>1, EndedRecord DEF Records
<1>4. \A d \in Calls \ {c} : call[d].at \in Attaching => call'[d] = call[d]
  BY <1>1, <1>3 DEF Attaching
<1>5. \A d \in Calls : call'[d].at # "waiting" => call'[d].on = None
  BY <1>3 DEF AttachInv, Promises
<1>6. ASSUME NEW d \in Calls, call'[d].at = "waiting" PROVE call'[d].on \in Calls /\ call'[call'[d].on].at \in Attaching
  <2>1. d # c /\ call[d].on # c /\ call'[d] = call[d]
    BY <1>3, <1>6
  <2>2. call[d].on \in Calls /\ call[call[d].on].at \in Attaching
    BY <1>6, <2>1 DEF AttachInv, Promises, WaitersHaveAttach
  <2> QED BY <1>4, <2>1, <2>2
<1> QED BY <1>2, <1>4, <1>5, <1>6 DEF Promises, WaitersHaveAttach

LEMMA AttachStepsKeep ==
  ASSUME AttachInv, NEW c \in Calls, Attached(c) \/ PageEnabled(c) \/ DomainsEnabled(c) \/ Rollback(c)
  PROVE  AttachInv'
<1>0. call[c].at \in Attaching /\ call[c].at # "idle" /\ call[c].on = None /\ None \notin Calls
  BY CdpAssumption DEF Attached, PageEnabled, DomainsEnabled, Rollback, AttachInv, Promises, Attaching
<1>1. UNCHANGED <<owners, live, log>>
  BY DEF Attached, PageEnabled, DomainsEnabled, Rollback, attachment
<1>2. ASSUME CallsTyped, Promises', Known', chrome' \in Calls \cup {None}, inflight' \in Calls \cup {None}, cached' \in BOOLEAN PROVE AttachInv'
  BY <1>1, <1>2 DEF CallsTyped, AttachInv, Typed, TypeOK, Records, log
<1>3. ASSUME NEW to \in {"page", "domains", "rollback"}, Goto(c, to), UNCHANGED <<inflight, cached>>, chrome' \in {chrome, c}
      PROVE  AttachInv'
  <2>1. CallsTyped
    BY <1>0, <1>3, GotoTypes DEF AttachInv, Attaching
  <2>2. Promises' /\ (Known' \/ chrome' # c)
    BY <1>0, <1>3, GotoKeeps DEF Attaching
  <2>3. Known'
    BY <1>3, <1>0 DEF AttachInv, Typed, TypeOK, Known, Goto
  <2> QED BY <1>2, <1>3, <2>1, <2>2, <2>3 DEF AttachInv, Typed, TypeOK
<1>4. CASE Attached(c)
  <2>1. CASE chrome = None /\ chrome' = c /\ Goto(c, "page") /\ UNCHANGED inflight
    BY <1>3, <1>4, <2>1 DEF Attached
  <2>2. CASE Settle(c, FALSE) /\ UNCHANGED chrome
    <3>1. CallsTyped /\ inflight' = None /\ Promises' /\ \A d \in Calls \ {c} : call[d].at \in Attaching => call'[d] = call[d]
      BY <1>0, <2>2, SettleKeeps
    <3>2. call[c].at = "attach" /\ cached' = cached
      BY <1>4 DEF Attached
    <3>3. Known'
      BY <2>2, <3>1, <3>2 DEF AttachInv, Typed, TypeOK, Known, Attaching
    <3> QED BY <1>2, <2>2, <3>1, <3>2, <3>3 DEF AttachInv, Typed, TypeOK
  <2> QED BY <1>4, <2>1, <2>2 DEF Attached
<1>5. CASE PageEnabled(c)
  BY <1>3, <1>5 DEF PageEnabled, attachment
<1>6. CASE DomainsEnabled(c)
  <2>1. CallsTyped /\ inflight' = None /\ Promises'
    BY <1>0, <1>6, SettleKeeps DEF DomainsEnabled
  <2>2. Known' /\ cached' = TRUE /\ chrome' = chrome
    BY <1>6 DEF DomainsEnabled, Known
  <2> QED BY <1>2, <2>1, <2>2 DEF AttachInv, Typed, TypeOK
<1>7. CASE Rollback(c)
  <2>1. CallsTyped /\ inflight' = None /\ Promises'
    BY <1>0, <1>7, SettleKeeps DEF Rollback
  <2>2. Known' /\ chrome' = None /\ cached' = cached
    BY <1>7 DEF Rollback, Known
  <2> QED BY <1>2, <2>1, <2>2 DEF AttachInv, Typed, TypeOK
<1> QED BY <1>4, <1>5, <1>6, <1>7

\* A tool call begins: it is attached already, waits, or attaches.
LEMMA BeginKeeps == ASSUME AttachInv, NEW c \in Calls, NEW k \in Sessions, NEW late \in BOOLEAN, Begin(c, k, late) PROVE AttachInv'
<1>1. /\ call[c].at = "idle" /\ UNCHANGED <<chrome, cached, live, log>> /\ None \notin Calls
      /\ \A d \in Calls : call[d].on # c
  BY EndedRecord, CdpAssumption DEF Begin, AttachInv, Promises, WaitersHaveAttach, Attaching
<1> DEFINE r == [at |-> IF cached THEN "ready" ELSE IF inflight # None THEN "waiting" ELSE "attach",
                 who |-> k, late |-> late, on |-> IF cached THEN None ELSE inflight]
<1>2. call' = [call EXCEPT ![c] = r] /\ inflight' = (IF cached \/ inflight # None THEN inflight ELSE c)
      /\ owners' = (IF late THEN owners ELSE owners \cup {k})
  BY DEF Begin
<1>3. inflight \in Calls \cup {None} /\ cached \in BOOLEAN /\ (inflight # None => inflight # c /\ call[inflight].at \in Attaching)
  BY <1>1 DEF AttachInv, Typed, TypeOK, Promises, Attaching
<1>4. r \in Records /\ r.who = k /\ (r.at = "waiting" <=> ~cached /\ inflight # None)
      /\ (r.at # "waiting" => r.on = None) /\ (r.at = "waiting" => r.on = inflight) /\ (~cached /\ inflight = None => r.at \in Attaching)
  BY <1>3 DEF Records, Attaching
<1> HIDE DEF r
<1>5. call'[c] = r /\ \A d \in Calls \ {c} : call'[d] = call[d]
  BY <1>2 DEF AttachInv, Typed, TypeOK
<1>6. Typed'
  <2>1. Whose'
    BY <1>4, <1>5 DEF AttachInv, Typed, Whose
  <2>2. call' \in [Calls -> Records] /\ owners' \subseteq Sessions /\ inflight' \in Calls \cup {None}
    BY <1>2, <1>3, <1>4 DEF AttachInv, Typed, TypeOK, Records
  <2> QED BY <1>1, <2>1, <2>2 DEF AttachInv, Typed, TypeOK, Records, log
<1>7. Promises'
  BY <1>1, <1>2, <1>3, <1>4, <1>5 DEF AttachInv, Promises, WaitersHaveAttach
<1>8. Known'
  BY <1>1, <1>5 DEF AttachInv, Typed, TypeOK, Known
<1> QED BY <1>6, <1>7, <1>8 DEF AttachInv

\* A tool call ends.
LEMMA UsedKeeps ==
  ASSUME AttachInv, NEW c \in Calls, Used(c), LogTyped
  PROVE  AttachInv'
<1>1. call[c].at = "ready" /\ call' = [call EXCEPT ![c] = Ended] /\ UNCHANGED <<chrome, cached, inflight, live>> /\ None \notin Calls
  BY CdpAssumption DEF Used
<1>2. call'[c] = Ended /\ \A d \in Calls \ {c} : call'[d] = call[d]
  BY <1>1 DEF AttachInv, Typed, TypeOK
<1>3. call[c].who \in Sessions
  BY <1>1 DEF AttachInv, Typed, Whose
<1>4. owners' \subseteq Sessions
  BY <1>3 DEF Used, AttachInv, Typed, TypeOK
<1>5. CallsTyped
  BY <1>1, EndTypes DEF AttachInv
<1>6. Promises'
  BY <1>1, <1>2, EndedRecord DEF AttachInv, Promises, WaitersHaveAttach, Attaching
<1>7. Known'
  BY <1>1, <1>2 DEF AttachInv, Typed, TypeOK, Known
<1> QED BY <1>1, <1>4, <1>5, <1>6, <1>7 DEF CallsTyped, LogTyped, AttachInv, Typed, TypeOK, Records

\* A read of the log is such an end, and moves the client's cursor.
LEMMA ReadKeeps ==
  ASSUME AttachInv, NEW c \in Calls, NEW resume \in BOOLEAN, NEW limit \in 1 .. Buffer, Read(c, resume, limit)
  PROVE  AttachInv' /\ Since(c, resume) \in Cursors /\ call[c].who \in Sessions
<1>1. call[c].who \in Sessions
  BY DEF Read, Used, AttachInv, Typed, Whose
<1>2. Since(c, resume) \in Cursors
  BY <1>1 DEF Since, AttachInv, Typed, TypeOK, Cursors
<1>3. ReadPage(seq, Since(c, resume), limit).next \in Cursors
  BY <1>2, PageIsWhole DEF AttachInv, Typed, TypeOK, Cursors
<1>4. LogTyped
  BY <1>1, <1>3 DEF Read, AttachInv, Typed, TypeOK, LogTyped
<1> QED BY <1>1, <1>2, <1>4, UsedKeeps DEF Read

\* Sessions that stop, and the browser.
LEMMA OthersKeep ==
  ASSUME AttachInv, (\E k \in Sessions : DetachSession(k) \/ Forget(k)) \/ ChromeDetaches \/ EntryArrives \/ UNCHANGED vars
  PROVE  AttachInv'
<1>1. call' = call /\ inflight' \in {inflight, None}
  BY DEF DetachSession, Forget, ChromeDetaches, EntryArrives, Detach, vars, attachment
<1>2. Promises'
  BY <1>1 DEF AttachInv, Promises, WaitersHaveAttach
<1>3. Known' /\ chrome' \in {chrome, None} /\ cached' \in {cached, FALSE}
  BY <1>1 DEF AttachInv, Known, DetachSession, Forget, ChromeDetaches, EntryArrives, Detach, vars, attachment
<1>4. owners' \subseteq Sessions /\ live' \in [Sessions -> {"live", "stopping", "gone"}]
  BY DEF AttachInv, Typed, TypeOK, DetachSession, Forget, ChromeDetaches, EntryArrives, Detach, vars, attachment
<1>5. LogTyped
  <2>1. CASE ClearLog \/ UNCHANGED log
    BY <2>1, ClearTypes DEF AttachInv, Typed
  <2>2. CASE EntryArrives
    BY <2>2, CdpAssumption DEF EntryArrives, AttachInv, Typed, TypeOK, LogTyped
  <2> QED BY <2>1, <2>2 DEF DetachSession, Forget, ChromeDetaches, Detach, vars
<1> QED BY <1>1, <1>2, <1>3, <1>4, <1>5 DEF AttachInv, Typed, TypeOK, Whose, LogTyped

LEMMA UsedCommandKeeps == ASSUME AttachInv, NEW c \in Calls, UsedCommand(c) PROVE AttachInv'
<1>1. LogTyped
  BY DEF UsedCommand, log, AttachInv, Typed, TypeOK, LogTyped
<1> QED BY <1>1, UsedKeeps DEF UsedCommand

LEMMA AttachNext == AttachInv /\ [Next]_vars => AttachInv'
BY AttachStepsKeep, BeginKeeps, UsedCommandKeeps, ReadKeeps, OthersKeep DEF Next, CallStep

-----------------------------------------------------------------------------
\* Cursors

LEMMA ReadIsWhole ==
  ASSUME AttachInv, NEW c \in Calls, NEW resume \in BOOLEAN, NEW limit \in 1 .. Buffer, Read(c, resume, limit)
  PROVE  Complete(c, resume, limit, IF Since(c, resume) = None THEN 0 ELSE Since(c, resume))
<1>1. Since(c, resume) \in Cursors /\ call[c].who \in Sessions /\ seq \in 0 .. MaxEntries
  BY ReadKeeps DEF AttachInv, Typed, TypeOK
<1>2. cursor'[call[c].who] = ReadPage(seq, Since(c, resume), limit).next
  BY <1>1 DEF Read, AttachInv, Typed, TypeOK
<1> QED BY <1>1, <1>2, PageIsWhole DEF Complete

\* Whose cursor is of this log has one.
NoneIsOld == \A k \in current : cursor[k] # None

LEMMA OldInit == Init => NoneIsOld
BY DEF Init, NoneIsOld

LEMMA OldNext == AttachInv /\ NoneIsOld /\ [Next]_vars => NoneIsOld'
<1> SUFFICES ASSUME AttachInv, NoneIsOld, [Next]_vars PROVE NoneIsOld'
  OBVIOUS
<1>1. CASE UNCHANGED cursor /\ current' \subseteq current
  BY <1>1 DEF NoneIsOld
<1>2. ASSUME NEW c \in Calls, NEW resume \in BOOLEAN, NEW limit \in 1 .. Buffer, Read(c, resume, limit) PROVE NoneIsOld'
  <2>1. Since(c, resume) \in Cursors /\ call[c].who \in Sessions /\ seq \in 0 .. MaxEntries
    BY <1>2, ReadKeeps DEF AttachInv, Typed, TypeOK
  <2>2. ReadPage(seq, Since(c, resume), limit).next # None
    BY <2>1, PageIsWhole, CdpAssumption
  <2> QED BY <1>2, <2>1, <2>2 DEF Read, NoneIsOld, AttachInv, Typed, TypeOK
<1>3. CASE (\E c \in Calls : Attached(c) \/ PageEnabled(c) \/ DomainsEnabled(c) \/ Rollback(c) \/ UsedCommand(c)) \/ EntryArrives \/ UNCHANGED vars
  BY <1>1, <1>3 DEF Attached, PageEnabled, DomainsEnabled, Rollback, UsedCommand, EntryArrives, vars, log
<1>4. CASE (\E c \in Calls, k \in Sessions, late \in BOOLEAN : Begin(c, k, late)) \/ (\E k \in Sessions : DetachSession(k) \/ Forget(k)) \/ ChromeDetaches
  BY <1>1, <1>4 DEF Begin, DetachSession, Forget, ChromeDetaches, Detach, ClearLog, log
<1> QED BY <1>2, <1>3, <1>4 DEF Next, CallStep

-----------------------------------------------------------------------------
\* The results

\* Type correctness.
THEOREM CdpTypes == Spec => []TypeOK
<1>1. AttachInv => TypeOK
  BY DEF AttachInv, Typed
<1> QED BY <1>1, AttachInit, AttachNext, PTL DEF Spec

\* The next attach finds the tab free, whatever has failed before.
THEOREM SlateIsClean == Spec => []CleanSlate
<1>1. AttachInv => CleanSlate
  BY DEF AttachInv, Typed, TypeOK, Known, CleanSlate, Attaching
<1> QED BY <1>1, AttachInit, AttachNext, PTL DEF Spec

\* Every promise that is awaited has somebody who settles it.
THEOREM WaitersAreSettled == Spec => []WaitersHaveAttach
<1>1. AttachInv => WaitersHaveAttach
  BY DEF AttachInv, Promises
<1> QED BY <1>1, AttachInit, AttachNext, PTL DEF Spec

\* Whoever pages through a log misses nothing of it without being told, for every buffer;
\* detaches and new logs in between included.
THEOREM NothingLostSilently == Spec => NoSilentLoss
<1> DEFINE Whole == \A c \in Calls, resume \in BOOLEAN, limit \in 1 .. Buffer :
                      /\ Read(c, resume, limit)
                      /\ Since(c, resume) # None => call[c].who \in current
                      => Complete(c, resume, limit, IF Since(c, resume) = None THEN 0 ELSE Since(c, resume))
<1>1. AttachInv /\ [Next]_vars => [Whole]_vars
  <2> SUFFICES ASSUME AttachInv, NEW c \in Calls, NEW resume \in BOOLEAN, NEW limit \in 1 .. Buffer, Read(c, resume, limit)
               PROVE  Complete(c, resume, limit, IF Since(c, resume) = None THEN 0 ELSE Since(c, resume))
    OBVIOUS
  <2> QED BY ReadIsWhole
<1> HIDE DEF Whole
<1>2. Spec => [][Whole]_vars
  BY <1>1, AttachInit, AttachNext, PTL DEF Spec
<1> QED BY <1>2 DEF Whole, NoSilentLoss

\* No cursor of an earlier log is used: none that has survived a detach, that is.
NoOldCursor ==
  \A c \in Calls, limit \in 1 .. Buffer : Read(c, TRUE, limit) => cursor[call[c].who] = None \/ call[c].who \in current

\* Every cursor can be followed but one of an earlier log: that the driver numbers a new
\* log from 1 while clients keep their cursors (CdpDriver_cursor.cfg) is the only way for a
\* client to miss entries unawares.
THEOREM CursorsOfTheLogAreFollowed == Spec /\ [][NoOldCursor]_vars => CursorsAreFollowed
<1> DEFINE Whole == \A c \in Calls, limit \in 1 .. Buffer :
                      Read(c, TRUE, limit) =>
                        Complete(c, TRUE, limit, IF call[c].who \in current THEN cursor[call[c].who] ELSE 0)
<1>1. AttachInv /\ NoneIsOld /\ [Next]_vars /\ [NoOldCursor]_vars => [Whole]_vars
  <2> SUFFICES ASSUME AttachInv, NoneIsOld, NEW c \in Calls, NEW limit \in 1 .. Buffer, Read(c, TRUE, limit),
                      cursor[call[c].who] = None \/ call[c].who \in current
               PROVE  Complete(c, TRUE, limit, IF call[c].who \in current THEN cursor[call[c].who] ELSE 0)
    BY DEF NoOldCursor
  <2>1. Complete(c, TRUE, limit, IF cursor[call[c].who] = None THEN 0 ELSE cursor[call[c].who])
    BY ReadIsWhole DEF Since
  <2>2. call[c].who \in current => cursor[call[c].who] # None
    BY DEF NoneIsOld
  <2> QED BY <2>1, <2>2
<1> HIDE DEF Whole
<1>2. Spec /\ [][NoOldCursor]_vars => [][Whole]_vars
  BY <1>1, AttachInit, AttachNext, OldInit, OldNext, PTL DEF Spec
<1> QED BY <1>2 DEF Whole, CursorsAreFollowed
===============================================================================
