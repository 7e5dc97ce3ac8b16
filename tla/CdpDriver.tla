-------------------------------- MODULE CdpDriver --------------------------------
(***************************************************************************)
(* ChromiumCdp: the debugger attachment of one tab, shared by the tool     *)
(* calls of several sessions, and the log of the tab's console or network  *)
(* entries that clients page through.                                      *)
(*                                                                         *)
(* All maps of the driver are keyed by tab and no operation relates two    *)
(* tabs, so one tab stands for each. The browser executes the extension's  *)
(* chrome.debugger requests in order; its answers and the onDetach event   *)
(* are tasks of the extension's event loop.                                *)
(***************************************************************************)
EXTENDS Integers

CONSTANTS
  Sessions,   \* sessions that use the tab
  Calls,      \* tool calls in progress at a time; one that has ended is reused
  Buffer,     \* MAX_CONSOLE_BUFFER, MAX_NETWORK_BUFFER
  MaxEntries, \* bound: entries logged while the tab is attached
  None        \* nothing

ASSUME CdpAssumption ==
  /\ None \notin Calls /\ None \notin Sessions /\ None \notin Int
  /\ Buffer \in Nat \ {0} /\ MaxEntries \in Nat

VARIABLES
  chrome,   \* the call whose attach the browser has granted, or None
  cached,   \* attachedTabs has the tab
  inflight, \* attachInFlight: the call whose promise it holds
  owners,   \* tabOwners
  call,     \* per call: where it is, its session, whether it tracks it late,
            \* and the call whose promise it awaits
  live,     \* sessions: "live", "stopping" (detachSession has run) or "gone"
  seq,      \* consoleSequences; the buffer holds the last entries up to it
  cursor,   \* next_since that a session's client has got from its last read
  current   \* history: sessions whose cursor is one of the present log

attachment == <<chrome, cached, inflight, owners>>
log        == <<seq, cursor, current>>
vars == <<attachment, call, live, log>>

Attaching == {"attach", "page", "domains", "rollback"}

Ended == [at |-> "idle", who |-> None, late |-> FALSE, on |-> None]

Init ==
  /\ chrome = None /\ cached = FALSE /\ inflight = None /\ owners = {}
  /\ call = [c \in Calls |-> Ended]
  /\ live = [k \in Sessions |-> "live"]
  /\ seq = 0 /\ cursor = [k \in Sessions |-> None] /\ current = {}

-----------------------------------------------------------------------------
\* Helpers

\* clearConsoleState(), clearNetworkState(): the log and its numbering start again;
\* the cursors that clients have stay with them.
ClearLog == seq' = 0 /\ current' = {} /\ UNCHANGED cursor

\* detach(): an attach under way keeps running, without its entry.
Detach ==
  /\ inflight' = None /\ cached' = FALSE
  /\ IF cached THEN chrome' = None /\ ClearLog ELSE UNCHANGED <<chrome, log>>

Goto(c, at) == call' = [call EXCEPT ![c].at = at]

\* The end of an attach: finally() deletes the tab's entry, whoever's it is, and
\* the calls that await the promise go on with it, or fail with it.
Settle(c, ok) ==
  /\ inflight' = None
  /\ call' = [d \in Calls |->
       IF d = c \/ call[d].on = c
       THEN IF ok THEN [call[d] EXCEPT !.at = "ready", !.on = None] ELSE Ended
       ELSE call[d]]

\* How many entries the buffer has dropped of a log of n.
Dropped(n) == IF n > Buffer THEN n - Buffer ELSE 0

\* Where a page after a cursor, or the newest page, begins and ends in a log.
Oldest(n, since) == IF since # None /\ since > Dropped(n) THEN since ELSE Dropped(n)
From(n, since, limit) ==
  IF since = None /\ n - Oldest(n, since) > limit THEN n - limit ELSE Oldest(n, since)
To(n, since, limit) ==
  IF since # None /\ n - Oldest(n, since) > limit THEN Oldest(n, since) + limit ELSE n

\* Mutant of ReadPage: a page that the limit has cut is not marked.
ReadPageUnmarked(n, since, limit) ==
  LET from == From(n, since, limit)  to == To(n, since, limit) IN
  [entries |-> (from + 1) .. to, next |-> IF from < to THEN to ELSE n,
   truncated |-> Dropped(n) > 0 /\ (since = None \/ since < Dropped(n))]

\* readBufferedEntries(): its entries, nextSince and truncated.
ReadPage(n, since, limit) ==
  LET from == From(n, since, limit)  to == To(n, since, limit) IN
  [entries |-> (from + 1) .. to, next |-> IF from < to THEN to ELSE n,
   truncated |-> \/ Dropped(n) > 0 /\ (since = None \/ since < Dropped(n))
                 \/ n - Oldest(n, since) > limit]

-----------------------------------------------------------------------------
\* Actions: a tool call

\* A handler that has found its session tracks it for the tab, unless it is
\* bsk console, and calls ensureAttached().
Begin(c, k, late) ==
  /\ call[c] = Ended /\ live[k] # "gone"
  /\ owners' = IF late THEN owners ELSE owners \cup {k}
  /\ call' = [call EXCEPT ![c] =
       [at |-> IF cached THEN "ready" ELSE IF inflight # None THEN "waiting" ELSE "attach",
        who |-> k, late |-> late, on |-> IF cached THEN None ELSE inflight]]
  /\ inflight' = IF cached \/ inflight # None THEN inflight ELSE c
  /\ UNCHANGED <<chrome, cached, live, log>>

\* The answer to chrome.debugger.attach.
Attached(c) ==
  /\ call[c].at = "attach"
  /\ \/ chrome = None /\ chrome' = c /\ Goto(c, "page") /\ UNCHANGED inflight
     \/ Settle(c, FALSE) /\ UNCHANGED chrome
  /\ UNCHANGED <<cached, owners, live, log>>

\* Page.enable fails when the attachment it was sent over is gone, and it may
\* fail for the page's sake.
PageEnabled(c) ==
  /\ call[c].at = "page"
  /\ \/ chrome = c /\ Goto(c, "domains")
     \/ Goto(c, "rollback")
  /\ UNCHANGED <<attachment, live, log>>

\* Mutant of DomainsEnabled: only a caller that still finds the entry is told.
DomainsEnabledByEntry(c) ==
  /\ call[c].at = "domains" /\ cached' = TRUE
  /\ IF inflight = c THEN Settle(c, TRUE) ELSE Goto(c, "ready") /\ UNCHANGED inflight
  /\ UNCHANGED <<chrome, owners, live, log>>

\* Runtime.enable, Log.enable and Network.enable are over: whatever has become
\* of them, the tab is cached.
DomainsEnabled(c) ==
  /\ call[c].at = "domains" /\ cached' = TRUE
  /\ Settle(c, TRUE)
  /\ UNCHANGED <<chrome, owners, live, log>>

\* Mutant of Rollback: the debugger stays attached.
RollbackForgets(c) ==
  /\ call[c].at = "rollback"
  /\ Settle(c, FALSE)
  /\ UNCHANGED <<chrome, cached, owners, live, log>>

\* The rollback detaches the tab, whoever holds it by now, and rethrows.
Rollback(c) ==
  /\ call[c].at = "rollback" /\ chrome' = None
  /\ Settle(c, FALSE)
  /\ UNCHANGED <<cached, owners, live, log>>

\* The call's command is answered or fails; bsk console tracks its session now.
Used(c) ==
  /\ call[c].at = "ready"
  /\ call' = [call EXCEPT ![c] = Ended]
  /\ owners' = IF call[c].late THEN owners \cup {call[c].who} ELSE owners
  /\ UNCHANGED <<chrome, cached, inflight, live>>

UsedCommand(c) == Used(c) /\ UNCHANGED log

Since(c, resume) == IF resume THEN cursor[call[c].who] ELSE None

\* The call is a read of the log, with its client's cursor or without one.
Read(c, resume, limit) ==
  /\ Used(c)
  /\ cursor' = [cursor EXCEPT ![call[c].who] = ReadPage(seq, Since(c, resume), limit).next]
  /\ current' = current \cup {call[c].who}
  /\ UNCHANGED seq

-----------------------------------------------------------------------------
\* Actions: sessions and the browser

\* detachSession() of a session.stop or of a closed window.
DetachSession(k) ==
  /\ live[k] = "live" /\ live' = [live EXCEPT ![k] = "stopping"]
  /\ owners' = owners \ {k}
  /\ IF owners = {k} THEN Detach ELSE UNCHANGED <<chrome, cached, inflight, log>>
  /\ UNCHANGED call

\* manager.stop() drops the session.
Forget(k) ==
  /\ live[k] = "stopping" /\ live' = [live EXCEPT ![k] = "gone"]
  /\ UNCHANGED <<attachment, call, log>>

\* The user cancels the debugging, or the tab goes: onDetach.
ChromeDetaches ==
  /\ chrome # None /\ chrome' = None
  /\ cached' = FALSE /\ inflight' = None /\ owners' = {}
  /\ ClearLog
  /\ UNCHANGED <<call, live>>

\* appendConsole(), appendNetwork(): once the domains are being enabled.
EntryArrives ==
  /\ chrome # None /\ (cached \/ call[chrome].at = "domains")
  /\ seq < MaxEntries /\ seq' = seq + 1
  /\ UNCHANGED <<attachment, call, live, cursor, current>>

-----------------------------------------------------------------------------
\* Specification

Cursors == {None} \cup 0 .. MaxEntries

CallStep(c) ==
  \/ Attached(c) \/ PageEnabled(c) \/ DomainsEnabled(c) \/ Rollback(c) \/ UsedCommand(c)
  \/ \E resume \in BOOLEAN, limit \in 1 .. Buffer : Read(c, resume, limit)

Next ==
  \/ \E c \in Calls : CallStep(c)
  \/ \E c \in Calls, k \in Sessions, late \in BOOLEAN : Begin(c, k, late)
  \/ \E k \in Sessions : DetachSession(k) \/ Forget(k)
  \/ ChromeDetaches \/ EntryArrives

Spec == Init /\ [][Next]_vars

-----------------------------------------------------------------------------
\* Properties

\* The types of the variables.
TypeOK ==
  /\ chrome \in Calls \cup {None} /\ inflight \in Calls \cup {None}
  /\ cached \in BOOLEAN /\ owners \subseteq Sessions
  /\ call \in [Calls ->
       [at : {"idle", "waiting", "ready"} \cup Attaching, who : Sessions \cup {None},
        late : BOOLEAN, on : Calls \cup {None}]]
  /\ live \in [Sessions -> {"live", "stopping", "gone"}]
  /\ seq \in 0 .. MaxEntries /\ cursor \in [Sessions -> Cursors] /\ current \subseteq Sessions

\* However attaches, their failures, stops and the browser's own detaches have
\* interleaved: when no attach is under way, a tab that the driver does not hold
\* is free, so that the next attach "starts from a clean slate" and does not
\* meet "Another debugger is already attached" for good.
CleanSlate == (\A c \in Calls : call[c].at \notin Attaching) /\ ~cached => chrome = None

\* What a read leaves unsaid: the entries after those that its reader has seen of the
\* present log, up to its new cursor, are on the page, or it is marked as truncated.
Complete(c, resume, limit, seen) ==
  LET page == ReadPage(seq, Since(c, resume), limit) IN
  page.truncated \/ page.entries = (seen + 1) .. cursor'[call[c].who]

\* A client that pages through one log, from its beginning or on from its cursor, is
\* shown every entry up to its new cursor or told that some are missing, also when the
\* log has been dropped, restarted and paged through anew meanwhile: neither the limit of
\* a page nor the bound of the buffer loses entries silently. A cursor of an earlier log
\* is another matter: CursorsAreFollowed.
NoSilentLoss ==
  [][\A c \in Calls, resume \in BOOLEAN, limit \in 1 .. Buffer :
       /\ Read(c, resume, limit)
       /\ Since(c, resume) # None => call[c].who \in current
       => Complete(c, resume, limit, IF Since(c, resume) = None THEN 0 ELSE Since(c, resume))]_vars

\* "--since <seq> pages from a cursor (next_since in the result)": a client that goes on
\* from the cursor it was given misses no entry without being told. After a detach the
\* cursor is one of a log that is gone, and what it has seen of the present log is nothing.
CursorsAreFollowed ==
  [][\A c \in Calls, limit \in 1 .. Buffer :
       Read(c, TRUE, limit) =>
         Complete(c, TRUE, limit, IF call[c].who \in current THEN cursor[call[c].who] ELSE 0)]_vars

\* A call that waits, waits for an attach that is under way, also when its entry
\* was deleted or replaced meanwhile: no promise is left that nobody settles.
WaitersHaveAttach ==
  \A c \in Calls : call[c].at = "waiting" => call[c].on \in Calls /\ call[call[c].on].at \in Attaching

\* "Remember that `sessionId` used CDP on `tabId` so stop can detach it": once
\* all sessions are gone and all calls are through, the debugger is off the tab.
StopDetaches ==
  (\A k \in Sessions : live[k] = "gone") /\ (\A c \in Calls : call[c].at = "idle")
    => chrome = None

===============================================================================
