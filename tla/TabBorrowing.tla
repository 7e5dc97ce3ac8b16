------------------------------ MODULE TabBorrowing ------------------------------
(***************************************************************************)
(* How sessions borrow the user's tabs: tool.tab_borrow moves a tab into   *)
(* the session's Agent Window once the user has agreed, tool.tab_return    *)
(* and session stops move it back before the window is closed.             *)
(*                                                                         *)
(* The extension is single-threaded and every call of Chrome is awaited: a *)
(* step is what a handler does between two awaits, or what Chrome does for *)
(* it in between. The Agent Window of session s is called s.               *)
(***************************************************************************)

CONSTANTS
  Sessions,      \* session ids; each is started at most once
  Tabs,          \* tabs of the user
  UserWindows,   \* windows that are not Agent Windows, open or not yet
  OpenAtFirst,   \* those of them that are open at the beginning
  Borrows,       \* tool.tab_borrow requests
  Returns,       \* tool.tab_return requests
  Stops,         \* tool.session_stop requests
  SessionOf,     \* the session a request is for
  TabOf,         \* the tab of a borrow or a return
  Overlap,       \* may a request start while another of its session is at work
  MayDisconnect, \* may the daemon be lost
  None           \* no session, no tab, no window

Windows  == UserWindows \cup Sessions
Requests == Borrows \cup Returns \cup Stops
Cleanup  == "cleanup"                          \* the task of disconnect-cleanup.ts
Jobs     == Returns \cup Stops \cup {Cleanup}  \* who moves tabs back
Gone     == "gone"                             \* where a closed tab is

ASSUME BorrowingAssumption ==
  /\ OpenAtFirst \subseteq UserWindows
  /\ SessionOf \in [Requests -> Sessions]
  /\ TabOf \in [Borrows \cup Returns -> Tabs]
  /\ Overlap \in BOOLEAN
  /\ MayDisconnect \in BOOLEAN
  /\ None \notin Sessions \cup Tabs \cup UserWindows
  /\ Gone \notin Windows
  /\ Cleanup \notin Requests
  /\ Borrows \cap (Returns \cup Stops) = {} /\ Returns \cap Stops = {}

VARIABLES
  open,     \* Chrome: the windows that are open
  closed,   \* Chrome: the windows that were and are not
  where,    \* Chrome: the window of a tab
  phase,    \* SessionManager.sessions: is the session in it
  known,    \* sessions the daemon may still send requests for
  borrowed, \* SessionContext.borrowedTabs: the window a borrowed tab is from
  reserved, \* SessionManager.borrowReservations
  at,       \* per borrow: where its handler is
  home,     \* per borrow at work: the window it found the tab in
  aborted,  \* requests whose AbortController has been tripped
  job,      \* per job: where it is
  doomed    \* sessions the disconnect cleanup has yet to stop

chrome   == <<open, closed, where>>
sessions == <<phase, known>>
borrows  == <<at, home>>
jobs     == <<job, doomed>>
vars == <<chrome, sessions, borrowed, reserved, borrows, aborted, jobs>>

\* A job with nothing to do.
Resting == [at |-> "new", session |-> None, tab |-> None, dest |-> None,
            fallback |-> FALSE, fresh |-> FALSE, todo |-> {}, failed |-> FALSE]

Init ==
  /\ open     = OpenAtFirst
  /\ closed   = {}
  /\ where    \in [Tabs -> OpenAtFirst]
  /\ phase    = [s \in Sessions |-> "new"]
  /\ known    = {}
  /\ borrowed = [s \in Sessions |-> [t \in Tabs |-> None]]
  /\ reserved = [t \in Tabs |-> None]
  /\ at       = [b \in Borrows |-> "new"]
  /\ home     = [b \in Borrows |-> None]
  /\ aborted  = {}
  /\ job      = [j \in Jobs |-> Resting]
  /\ doomed   = {}

-----------------------------------------------------------------------------
\* Helpers

Live(s) == phase[s] = "live"

\* windowIndex: the Agent Windows that findByWindowId knows.
IsAgentWindow(w) == w \in Sessions /\ Live(w)

Over       == {"borrowed", "refused", "stranded", "orphaned"}
Borrowing(b) == at[b] \notin Over \cup {"new"}
Working(j)   == job[j].at \notin {"new", "done"}

\* No request of the session is at work, as far as the daemon lets it be.
Idle(s) ==
  /\ \A b \in Borrows : SessionOf[b] = s => ~Borrowing(b)
  /\ \A j \in Returns \cup Stops : SessionOf[j] = s => ~Working(j)

\* The daemon sends a request for session s, and lookupSession finds it.
Accepts(s) == Live(s) /\ s \in known /\ (Overlap \/ Idle(s))

\* findBorrowingSession: another session that has the tab, or is taking it.
OtherBorrower(t, s) ==
  \/ \E x \in Sessions \ {s} : Live(x) /\ borrowed[x][t] # None
  \/ reserved[t] \notin {None, s}

\* Closing a window closes its tabs.
CloseWith(w) ==
  /\ open' = open \ {w}
  /\ closed' = closed \cup {w}
  /\ where' = [t \in Tabs |-> IF where[t] = w THEN Gone ELSE where[t]]

-----------------------------------------------------------------------------
\* tool.tab_borrow (handleTabBorrow)

\* BorrowReservation.release: only a reservation of the same session goes.
Released(b) ==
  IF reserved[TabOf[b]] = SessionOf[b]
  THEN [reserved EXCEPT ![TabOf[b]] = None] ELSE reserved

\* Mutant of Finish: a borrow that was refused keeps its reservation.
FinishKeeping(b, how) ==
  /\ at' = [at EXCEPT ![b] = how]
  /\ reserved' = IF how = "refused" THEN reserved ELSE Released(b)
  /\ home' = [home EXCEPT ![b] = None]
  /\ aborted' = aborted \ {b}

\* The handler answers: its finally block releases the reservation, what it
\* knew is gone and the dispatcher drops its AbortController.
Finish(b, how) ==
  /\ at' = [at EXCEPT ![b] = how]
  /\ reserved' = Released(b)
  /\ home' = [home EXCEPT ![b] = None]
  /\ aborted' = aborted \ {b}

\* The guards before the first await, and tryReserveBorrow.
BorrowBegin(b) ==
  LET s == SessionOf[b]
      t == TabOf[b]
      free == borrowed[s][t] = None /\ ~OtherBorrower(t, s)
  IN
  /\ at[b] = "new" /\ Accepts(s)
  /\ at' = [at EXCEPT ![b] = IF free THEN "fetching" ELSE "refused"]
  /\ reserved' = IF free THEN [reserved EXCEPT ![t] = s] ELSE reserved
  /\ UNCHANGED <<chrome, sessions, borrowed, home, aborted, jobs>>

\* validateBorrowTarget: not a tab of an Agent Window; where it is now is
\* where it will go back to.
BorrowFetch(b) ==
  LET w == where[TabOf[b]]
      fit == w \notin {Gone, SessionOf[b]} /\ ~IsAgentWindow(w)
  IN
  /\ at[b] = "fetching"
  /\ IF fit
     THEN /\ at' = [at EXCEPT ![b] = "asking"]
          /\ home' = [home EXCEPT ![b] = w]
          /\ UNCHANGED <<reserved, aborted>>
     ELSE Finish(b, "refused")
  /\ UNCHANGED <<chrome, sessions, borrowed, jobs>>

\* requestBorrowConfirmation: the user allows it, in the page or on the
\* notification, and nobody has aborted the request.
UserAllows(b) ==
  /\ at[b] = "asking" /\ b \notin aborted
  /\ at' = [at EXCEPT ![b] = "moving"]
  /\ UNCHANGED <<chrome, sessions, borrowed, reserved, home, aborted, jobs>>

\* Mutant of BorrowDenied: an answer is waited for without a timeout.
BorrowDeniedOnAbort(b) ==
  /\ at[b] = "asking" /\ b \in aborted
  /\ Finish(b, "refused")
  /\ UNCHANGED <<chrome, sessions, borrowed, jobs>>

\* The user denies it, no window can ask, the request is aborted, or the
\* background timeout fires: all of them deny.
BorrowDenied(b) ==
  /\ at[b] = "asking"
  /\ Finish(b, "refused")
  /\ UNCHANGED <<chrome, sessions, borrowed, jobs>>

\* chrome.tabs.move into the Agent Window.
BorrowMove(b) ==
  /\ at[b] = "moving"
  /\ SessionOf[b] \in open /\ where[TabOf[b]] # Gone
  /\ where' = [where EXCEPT ![TabOf[b]] = SessionOf[b]]
  /\ at' = [at EXCEPT ![b] = "moved"]
  /\ UNCHANGED <<open, closed, sessions, borrowed, reserved, home, aborted, jobs>>

\* It fails: no such tab or window any more, or the user is dragging the tab.
BorrowMoveFails(b) ==
  /\ at[b] = "moving"
  /\ Finish(b, "refused")
  /\ UNCHANGED <<chrome, sessions, borrowed, jobs>>

\* Mutant of BorrowRollback: cancelled, and the tab stays where it is.
BorrowNoRollback(b) ==
  /\ at[b] = "moved" /\ b \in aborted
  /\ Finish(b, "refused")
  /\ UNCHANGED <<chrome, sessions, borrowed, jobs>>

\* moveTabForBorrow: aborted by the time the tab has moved, so it goes back.
BorrowRollback(b) ==
  /\ at[b] = "moved" /\ b \in aborted
  /\ \/ /\ home[b] \in open /\ where[TabOf[b]] # Gone
        /\ where' = [where EXCEPT ![TabOf[b]] = home[b]]
        /\ Finish(b, "refused")
     \/ \* cleanup_failed: the answer says where the tab is stranded.
        /\ Finish(b, "stranded")
        /\ UNCHANGED where
  /\ UNCHANGED <<open, closed, sessions, borrowed, jobs>>

\* The tab is activated, successfully or not; an abort comes too late now.
BorrowActivate(b) ==
  /\ at[b] = "moved" /\ b \notin aborted
  /\ at' = [at EXCEPT ![b] = "activating"]
  /\ UNCHANGED <<chrome, sessions, borrowed, reserved, home, aborted, jobs>>

\* Mutant of BorrowCommit: the reservation is not looked at again.
BorrowCommitUnchecked(b) ==
  LET s == SessionOf[b]
      t == TabOf[b]
      ok == Live(s)
  IN
  /\ at[b] = "activating"
  /\ borrowed' = IF ok THEN [borrowed EXCEPT ![s][t] = home[b]] ELSE borrowed
  /\ Finish(b, IF ok THEN "borrowed" ELSE "orphaned")
  /\ UNCHANGED <<chrome, sessions, jobs>>

\* BorrowReservation.commit, which fails when the session or the reservation
\* is gone; the tab stays where it was moved.
BorrowCommit(b) ==
  LET s == SessionOf[b]
      t == TabOf[b]
      ok == Live(s) /\ reserved[t] = s
  IN
  /\ at[b] = "activating"
  /\ borrowed' = IF ok THEN [borrowed EXCEPT ![s][t] = home[b]] ELSE borrowed
  /\ Finish(b, IF ok THEN "borrowed" ELSE "orphaned")
  /\ UNCHANGED <<chrome, sessions, jobs>>

-----------------------------------------------------------------------------
\* returnBorrowedTab, for a tool.tab_return or for a stop

Set(j, r) == job' = [job EXCEPT ![j] = r]

\* Mutant of Outcome: a stop goes on as if every tab had been returned.
OutcomeForgotten(j, ok) ==
  LET r == job[j] IN
  Set(j, IF j \in Returns THEN [Resting EXCEPT !.at = "done"]
         ELSE [r EXCEPT !.at = "next", !.todo = @ \ {r.tab}])

\* The outcome of one return: the answer of a tab_return, or one more entry
\* of returned_tab_ids or return_failures.
Outcome(j, ok) ==
  LET r == job[j] IN
  Set(j, IF j \in Returns THEN [Resting EXCEPT !.at = "done"]
         ELSE [r EXCEPT !.at = "next", !.todo = @ \ {r.tab}, !.failed = @ \/ ~ok])

\* The entry of the tab, read when its return begins.
Retrieve(j, s, t, r) ==
  /\ borrowed[s][t] # None
  /\ Set(j, [r EXCEPT !.at = "lookup", !.session = s, !.tab = t,
                      !.dest = borrowed[s][t], !.fallback = FALSE, !.fresh = FALSE])

ReturnBegin(j) ==
  /\ job[j].at = "new" /\ Accepts(SessionOf[j])
  /\ Retrieve(j, SessionOf[j], TabOf[j], job[j])
  /\ UNCHANGED <<chrome, sessions, borrowed, reserved, borrows, aborted, doomed>>

\* windows.get of the original window.
Lookup(j) ==
  /\ job[j].at = "lookup" /\ j \notin aborted
  /\ Set(j, [job[j] EXCEPT !.at = IF job[j].dest \in open THEN "move" ELSE "choose"])
  /\ UNCHANGED <<chrome, sessions, borrowed, reserved, borrows, aborted, doomed>>

\* chooseFallbackWindow: the last focused window unless it is an Agent Window
\* of this or of a registered session, else a new one, else a failure.
ChooseFallback(j) ==
  LET s == job[j].session
      to(w, isNew) == Set(j, [job[j] EXCEPT !.at = "move", !.dest = w,
                                           !.fallback = TRUE, !.fresh = isNew])
  IN
  /\ job[j].at = "choose" /\ j \notin aborted
  /\ \/ /\ \E w \in open \ {s} : ~IsAgentWindow(w) /\ to(w, FALSE)
        /\ UNCHANGED open
     \/ \E w \in UserWindows \ (open \cup closed) : to(w, TRUE) /\ open' = open \cup {w}
     \/ Outcome(j, FALSE) /\ UNCHANGED open
  /\ UNCHANGED <<closed, where, sessions, borrowed, reserved, borrows, aborted, doomed>>

\* The check of the abort signal after each of these awaits.
ReturnAborted(j) ==
  /\ job[j].at \in {"lookup", "choose"} /\ j \in aborted
  /\ Outcome(j, FALSE)
  /\ UNCHANGED <<chrome, sessions, borrowed, reserved, borrows, aborted, doomed>>

\* chrome.tabs.move to the original or the fallback window.
ReturnMove(j) ==
  /\ job[j].at = "move"
  /\ job[j].dest \in open /\ where[job[j].tab] # Gone
  /\ where' = [where EXCEPT ![job[j].tab] = job[j].dest]
  /\ Set(j, [job[j] EXCEPT !.at = "moved"])
  /\ UNCHANGED <<open, closed, sessions, borrowed, reserved, borrows, aborted, doomed>>

\* It fails. A fallback window made for it is closed again, if it can be;
\* one more attempt is made if this was the original window.
ReturnMoveFails(j) ==
  LET r == job[j] IN
  /\ r.at = "move"
  /\ IF r.fallback \/ j \in aborted THEN Outcome(j, FALSE)
     ELSE Set(j, [r EXCEPT !.at = "choose"])
  /\ \/ r.fresh /\ CloseWith(r.dest)
     \/ UNCHANGED chrome
  /\ UNCHANGED <<sessions, borrowed, reserved, borrows, aborted, doomed>>

\* The entry is deleted once the tab has moved.
ReturnDone(j) ==
  /\ job[j].at = "moved"
  /\ borrowed' = [borrowed EXCEPT ![job[j].session][job[j].tab] = None]
  /\ Outcome(j, TRUE)
  /\ UNCHANGED <<chrome, sessions, reserved, borrows, aborted, doomed>>

-----------------------------------------------------------------------------
\* handleSessionStop, for a tool.session_stop or for the disconnect cleanup

BorrowedBy(s) == {t \in Tabs : borrowed[s][t] # None}

\* The ids of the borrowed tabs are copied; later borrows are not in it.
BeginStop(j, s) ==
  /\ Live(s)
  /\ Set(j, [Resting EXCEPT !.at = "next", !.session = s, !.todo = BorrowedBy(s)])

StopBegin(j) ==
  /\ job[j].at = "new" /\ Accepts(SessionOf[j])
  /\ BeginStop(j, SessionOf[j])
  /\ UNCHANGED <<chrome, sessions, borrowed, reserved, borrows, aborted, doomed>>

\* A stop is over; the cleanup turns to its next session.
EndStop(j) ==
  IF j = Cleanup
  THEN Set(j, Resting) /\ doomed' = doomed \ {job[j].session}
  ELSE Set(j, [Resting EXCEPT !.at = "done"]) /\ UNCHANGED doomed

\* cleanupSessions: one session of its list after the other; those that have
\* gone meanwhile are not found.
CleanupNext ==
  /\ job[Cleanup].at = "new"
  /\ \E s \in doomed :
       IF Live(s) THEN BeginStop(Cleanup, s) /\ UNCHANGED doomed
       ELSE doomed' = doomed \ {s} /\ UNCHANGED job
  /\ UNCHANGED <<chrome, sessions, borrowed, reserved, borrows, aborted>>

\* The loop over the copied ids: a return, or not_found for a tab that
\* another request has returned.
StopNextTab(j) ==
  LET r == job[j] IN
  /\ r.at = "next"
  /\ \E t \in r.todo :
       \/ Retrieve(j, r.session, t, r)
       \/ /\ borrowed[r.session][t] = None
          /\ Set(j, [r EXCEPT !.todo = @ \ {t}, !.failed = TRUE])
  /\ UNCHANGED <<chrome, sessions, borrowed, reserved, borrows, aborted, doomed>>

\* A failed return keeps the session and its window; else refs and recording
\* are dropped and CDP detached, which is awaited.
StopDecide(j) ==
  /\ job[j].at = "next" /\ job[j].todo = {}
  /\ IF job[j].failed THEN EndStop(j)
     ELSE Set(j, [job[j] EXCEPT !.at = "detaching"]) /\ UNCHANGED doomed
  /\ UNCHANGED <<chrome, sessions, borrowed, reserved, borrows, aborted>>

\* SessionManager.stop: the Agent Window is closed.
StopCloseWindow(j) ==
  /\ job[j].at = "detaching" /\ Live(job[j].session) /\ job[j].session \in open
  /\ CloseWith(job[j].session)
  /\ Set(j, [job[j] EXCEPT !.at = "closing"])
  /\ UNCHANGED <<sessions, borrowed, reserved, borrows, aborted, doomed>>

\* The session is no longer there, or the window cannot be closed.
StopCannotClose(j) ==
  /\ job[j].at = "detaching"
  /\ EndStop(j)
  /\ UNCHANGED <<chrome, sessions, borrowed, reserved, borrows, aborted>>

\* Then the session is forgotten.
StopForget(j) ==
  /\ job[j].at = "closing"
  /\ phase' = [phase EXCEPT ![job[j].session] = "gone"]
  /\ EndStop(j)
  /\ UNCHANGED <<chrome, known, borrowed, reserved, borrows, aborted>>

-----------------------------------------------------------------------------
\* Sessions, the daemon and the user

\* SessionManager.start: the window is there before the session is known.
StartWindow(s) ==
  /\ phase[s] = "new"
  /\ open' = open \cup {s}
  /\ phase' = [phase EXCEPT ![s] = "opening"]
  /\ known' = known \cup {s}
  /\ UNCHANGED <<closed, where, borrowed, reserved, borrows, aborted, jobs>>

StartRegister(s) ==
  /\ phase[s] = "opening"
  /\ phase' = [phase EXCEPT ![s] = "live"]
  /\ UNCHANGED <<chrome, known, borrowed, reserved, borrows, aborted, jobs>>

\* The start is aborted: its window is closed, or reported if it cannot be.
StartAborted(s) ==
  /\ phase[s] = "opening"
  /\ phase' = [phase EXCEPT ![s] = "gone"]
  /\ CloseWith(s) \/ UNCHANGED chrome
  /\ UNCHANGED <<known, borrowed, reserved, borrows, aborted, jobs>>

\* attachSessionEventHandler: a window that was closed takes its session along.
WindowRemoved(s) ==
  /\ Live(s) /\ s \notin open
  /\ phase' = [phase EXCEPT ![s] = "gone"]
  /\ UNCHANGED <<chrome, known, borrowed, reserved, borrows, aborted, jobs>>

\* A cancel frame for a request that is at work; a stop takes no signal.
Abort(x) ==
  /\ x \notin aborted
  /\ IF x \in Borrows THEN Borrowing(x) ELSE Working(x)
  /\ aborted' = aborted \cup {x}
  /\ UNCHANGED <<chrome, sessions, borrowed, reserved, borrows, jobs>>

\* The connection is lost, and the daemon forgets its sessions; or it is
\* switched off, and the socket is open until the cleanup is through. The
\* cleanup lists the sessions, unless it is still at work. No handler is told.
Disconnect ==
  /\ MayDisconnect
  /\ known' \in {{}, known}
  /\ doomed' = IF doomed = {} THEN {s \in Sessions : Live(s)} ELSE doomed
  /\ UNCHANGED <<chrome, phase, borrowed, reserved, borrows, aborted, job>>

\* Bound: not the window of a session that is still starting.
UserClosesWindow(w) ==
  /\ w \in open /\ (w \in Sessions => phase[w] # "opening")
  /\ CloseWith(w)
  /\ UNCHANGED <<sessions, borrowed, reserved, borrows, aborted, jobs>>

UserClosesTab(t) ==
  /\ where[t] # Gone
  /\ where' = [where EXCEPT ![t] = Gone]
  /\ UNCHANGED <<open, closed, sessions, borrowed, reserved, borrows, aborted, jobs>>

\* Bound: the user drags tabs to windows of theirs only.
UserMovesTab(t, w) ==
  /\ where[t] # Gone /\ w \in open \cap UserWindows
  /\ where' = [where EXCEPT ![t] = w]
  /\ UNCHANGED <<open, closed, sessions, borrowed, reserved, borrows, aborted, jobs>>

-----------------------------------------------------------------------------
\* Specification

\* What a borrow does by itself or at the hands of timers and Chrome.
BorrowStep(b) ==
  \/ BorrowFetch(b) \/ BorrowDenied(b) \/ BorrowMove(b) \/ BorrowMoveFails(b)
  \/ BorrowRollback(b) \/ BorrowActivate(b) \/ BorrowCommit(b)

ReturnStep(j) ==
  \/ Lookup(j) \/ ChooseFallback(j) \/ ReturnAborted(j)
  \/ ReturnMove(j) \/ ReturnMoveFails(j) \/ ReturnDone(j)

StopStep(j) ==
  \/ StopNextTab(j) \/ StopDecide(j)
  \/ StopCloseWindow(j) \/ StopCannotClose(j) \/ StopForget(j)

SessionStep(s) ==
  StartWindow(s) \/ StartRegister(s) \/ StartAborted(s) \/ WindowRemoved(s)

UserStep ==
  \/ \E w \in Windows : UserClosesWindow(w)
  \/ \E t \in Tabs : UserClosesTab(t) \/ \E w \in UserWindows : UserMovesTab(t, w)

Next ==
  \/ \E b \in Borrows : BorrowBegin(b) \/ UserAllows(b) \/ BorrowStep(b)
  \/ \E j \in Returns : ReturnBegin(j)
  \/ \E j \in Stops : StopBegin(j)
  \/ CleanupNext
  \/ \E j \in Jobs : ReturnStep(j)
  \/ \E j \in Stops \cup {Cleanup} : StopStep(j)
  \/ \E s \in Sessions : SessionStep(s)
  \/ \E x \in Borrows \cup Returns : Abort(x)
  \/ Disconnect
  \/ UserStep

Spec == Init /\ [][Next]_vars

\* The confirmation has a timeout and Chrome settles every call.
FairSpec == Spec /\ \A b \in Borrows : WF_vars(BorrowStep(b))

-----------------------------------------------------------------------------
\* Properties

\* The types of the variables.
TypeOK ==
  /\ open \subseteq Windows
  /\ closed \subseteq Windows
  /\ where \in [Tabs -> Windows \cup {Gone}]
  /\ phase \in [Sessions -> {"new", "opening", "live", "gone"}]
  /\ known \subseteq Sessions
  /\ borrowed \in [Sessions -> [Tabs -> Windows \cup {None}]]
  /\ reserved \in [Tabs -> Sessions \cup {None}]
  /\ at \in [Borrows -> Over \cup {"new", "fetching", "asking", "moving", "moved", "activating"}]
  /\ home \in [Borrows -> Windows \cup {None}]
  /\ aborted \subseteq Borrows \cup Returns
  /\ job \in [Jobs -> [at : {"new", "lookup", "choose", "move", "moved", "next",
                             "detaching", "closing", "done"},
                       session : Sessions \cup {None}, tab : Tabs \cup {None},
                       dest : Windows \cup {None}, fallback : BOOLEAN, fresh : BOOLEAN,
                       todo : SUBSET Tabs, failed : BOOLEAN]]
  /\ doomed \subseteq Sessions

\* A tab is borrowed by one session at most, whatever their handlers do
\* between the check in tryReserveBorrow and the entry in borrowedTabs.
ExclusiveBorrower ==
  \A s, x \in Sessions, t \in Tabs :
    /\ Live(s) /\ Live(x)
    /\ borrowed[s][t] # None /\ borrowed[x][t] # None
    => s = x

\* A reservation is somebody's: a handler of that session is still at work on
\* that tab. One that outlived its handlers would lock the tab for the others.
ReservationHasHandler ==
  \A t \in Tabs : reserved[t] # None =>
    \E b \in Borrows : Borrowing(b) /\ TabOf[b] = t /\ SessionOf[b] = reserved[t]

\* Job j does not close the Agent Window on a tab that the session has
\* borrowed, or has moved there to borrow it.
KeepsBorrowedTabs(j) ==
  LET s == job[j].session IN
  StopCloseWindow(j) => \A t \in Tabs : where[t] = s =>
    /\ borrowed[s][t] = None
    /\ \A b \in Borrows : (SessionOf[b] = s /\ TabOf[b] = t)
                             => at[b] \notin {"moved", "activating"}

\* tool.session_stop returns what is borrowed before it closes the window, and
\* if it cannot return a tab it keeps the window (handleSessionStop).
StopKeepsBorrowedTabs == [][\A j \in Stops : KeepsBorrowedTabs(j)]_vars

\* So does the cleanup after a disconnect: "every local session must follow the
\* normal safe stop path as well: return borrowed tabs" (disconnect-cleanup.ts).
CleanupKeepsBorrowedTabs == [][KeepsBorrowedTabs(Cleanup)]_vars

\* A borrow that is cancelled when its tab has already moved has given the tab
\* back by the time it answers "cancelled": to a window that is not the Agent
\* Window. If it could not, it answers "cleanup_failed".
CancelledBorrowGivesBack ==
  [][\A b \in Borrows : (at[b] = "moved" /\ at'[b] = "refused")
       => where'[TabOf[b]] # SessionOf[b]]_vars

\* A reservation is temporary: nobody who waits for a user, for Chrome or for
\* another handler keeps a tab from the other sessions for ever.
ReservationEnds == \A t \in Tabs : reserved[t] # None ~> reserved[t] = None

-----------------------------------------------------------------------------
\* Refinement of TabLoans

Loans == INSTANCE TabLoans WITH
  life     <- [s \in Sessions |-> IF phase[s] = "opening" THEN "new" ELSE phase[s]],
  promised <- reserved,
  lent     <- [t \in Tabs |-> {s \in Sessions : Live(s) /\ borrowed[s][t] # None}]

\* Reservations, borrowed tabs and the ends of sessions together keep the promise:
\* a tab has one borrower, who had reserved it and had not been refused since.
ImplementsLoans == Loans!Spec
===============================================================================
