-------------------------------- MODULE HumanLoop --------------------------------
(***************************************************************************)
(* request_help: the agent pauses and the user is asked, by an overlay in  *)
(* every tab of the Agent Window, to do a step and to hand control back.   *)
(* The daemon sends the requests of a session one after the other.         *)
(*                                                                         *)
(* A page is what a tab shows while it has a content script. The worker    *)
(* sends HELP_REQUEST until a page acks it, a new page asks with           *)
(* HELP_QUERY, the end of a request is told to every page with HELP_CANCEL *)
(* and the user's answer comes back as HELP_FINISH.                        *)
(***************************************************************************)
EXTENDS AgentWindow, Naturals, FiniteSets

CONSTANTS
  MaxRequests, \* bound: requests of the session
  MaxFinishes, \* bound: HELP_FINISH messages on their way; others are lost
  MaxArms      \* bound: rearm loops and queries

Requests == 1 .. MaxRequests

ASSUME HelpAssumption ==
  MaxRequests \in Nat /\ {MaxFinishes, MaxArms} \subseteq Nat /\ None \notin Requests

VARIABLES
  req,      \* per request: where handleRequestHelp is
  outcome,  \* per request: how it has ended, until its cleanup is done
  primary,  \* per request: primaryTabId
  overlays, \* per request: overlayTabIds
  cleanup,  \* per request: where cleanupHelp is
  signal,   \* requests at work whose abort signal is set
  send,     \* per request and tab: the loop that sends HELP_REQUEST
  cancels,  \* HELP_CANCEL on its way: request and tab
  finishes, \* HELP_FINISH on its way: request and outcome
  shown,    \* per tab: the request whose overlay its document shows
  query,    \* per tab: the request that the service worker has found for its HELP_QUERY
  clicked,  \* what the user has clicked until then: request and outcome
  arms      \* rearm loops and queries so far

help  == <<req, outcome, primary, overlays, cleanup, signal>>
wire  == <<cancels, finishes>>
pages == <<shown, query>>
helpVars == <<help, send, wire, pages, clicked, arms>>

HelpInit ==
  /\ req = [r \in Requests |-> "new"] /\ outcome = [r \in Requests |-> "none"]
  /\ primary = [r \in Requests |-> None] /\ overlays = [r \in Requests |-> {}]
  /\ cleanup = [r \in Requests |-> "none"] /\ signal = {}
  /\ send = [r \in Requests |-> [t \in Tabs |-> "none"]]
  /\ cancels = {} /\ finishes = {}
  /\ shown = [t \in Tabs |-> None] /\ query = [t \in Tabs |-> None]
  /\ clicked = {} /\ arms = 0

-----------------------------------------------------------------------------
\* Helpers

\* activeHelpRequests: the requests that have not settled.
Active == {r \in Requests : req[r] = "active"}

\* The help object remembers a tab, as long as somebody will look.
Remember(r, t) ==
  overlays' = IF cleanup[r] = "done" THEN overlays ELSE [overlays EXCEPT ![r] = @ \cup {t}]

\* sendHelpFinish(): the message is sent when the page without the overlay has been
\* rendered; a page that goes, or is not visible, before that does not send it.
SendsFinish(r, how) ==
  \/ UNCHANGED finishes
  \/ /\ Cardinality(finishes) < MaxFinishes
     /\ finishes' = finishes \cup {[req |-> r, how |-> how]}

\* finishHelp(): the request settles; it is answered now, or when its cleanup
\* has ended.
Settle(r, how, waits) ==
  /\ req' = [req EXCEPT ![r] = IF waits THEN "settled" ELSE "answered"]
  /\ outcome' = [outcome EXCEPT ![r] = how]
  /\ cleanup' = [cleanup EXCEPT ![r] = "due"]
  /\ signal' = signal \ {r}

-----------------------------------------------------------------------------
\* Actions: the request

\* The tab is resolved and brought to the foreground, a notification is shown.
Begin(r, t) ==
  /\ req[r] = "new" /\ \A q \in 1 .. (r - 1) : req[q] = "answered"
  /\ req' = [req EXCEPT ![r] = "preparing"]
  /\ primary' = [primary EXCEPT ![r] = t]
  /\ UNCHANGED <<outcome, overlays, cleanup, signal, send, wire, pages, clicked, arms>>

\* The request is registered with its timeout. An abort of the meantime ends it.
Activate(r) ==
  /\ req[r] = "preparing"
  /\ IF r \in signal
     THEN Settle(r, "other", FALSE) /\ UNCHANGED send
     ELSE /\ req' = [req EXCEPT ![r] = "active"]
          /\ send' = [send EXCEPT ![r][primary[r]] = "sending"]
          /\ UNCHANGED <<outcome, cleanup, signal>>
  /\ UNCHANGED <<primary, overlays, wire, pages, clicked, arms>>

\* The daemon's cancel.
Abort(r) ==
  /\ req[r] \in {"preparing", "active"} /\ r \notin signal
  /\ IF r \in Active
     THEN Settle(r, "other", FALSE)
     ELSE signal' = signal \cup {r} /\ UNCHANGED <<req, outcome, cleanup>>
  /\ UNCHANGED <<primary, overlays, send, wire, pages, clicked, arms>>

\* Mutant of Timeout: the timer is started when an overlay has been shown.
TimeoutOnceShown(r) ==
  /\ r \in Active /\ overlays[r] # {} /\ Settle(r, "other", FALSE)
  /\ UNCHANGED <<primary, overlays, send, wire, pages, clicked, arms>>

Timeout(r) ==
  /\ r \in Active /\ Settle(r, "other", FALSE)
  /\ UNCHANGED <<primary, overlays, send, wire, pages, clicked, arms>>

\* The completion criteria have matched for long enough.
Completes(r) ==
  /\ r \in Active /\ Settle(r, "other", FALSE)
  /\ UNCHANGED <<primary, overlays, send, wire, pages, clicked, arms>>

\* Mutant of FinishArrives: it ends the request that the sender's tab shows.
FinishArrivesForTab(f) ==
  /\ f \in finishes /\ finishes' = finishes \ {f}
  /\ \/ \E r \in Active : Settle(r, f.how, TRUE)
     \/ Active = {} /\ UNCHANGED <<req, outcome, cleanup, signal>>
  /\ UNCHANGED <<primary, overlays, send, cancels, pages, clicked, arms>>

\* finishHelpFromContent(): the request that the message names ends, if it is
\* still active.
FinishArrives(f) ==
  /\ f \in finishes /\ finishes' = finishes \ {f}
  /\ IF f.req \in Active
     THEN Settle(f.req, f.how, TRUE)
     ELSE UNCHANGED <<req, outcome, cleanup, signal>>
  /\ UNCHANGED <<primary, overlays, send, cancels, pages, clicked, arms>>

\* cleanupHelp(), when the notification is gone.
CleanUp(r) ==
  /\ cleanup[r] = "due" /\ cleanup' = [cleanup EXCEPT ![r] = "sending"]
  /\ cancels' = cancels \cup ({r} \X (overlays[r] \cup {primary[r]}))
  /\ UNCHANGED <<req, outcome, primary, overlays, signal, send, finishes, pages, clicked, arms>>

\* HELP_CANCEL reaches the page, or there is none.
CancelArrives(r, t) ==
  /\ <<r, t>> \in cancels /\ cancels' = cancels \ {<<r, t>>}
  /\ shown' = [shown EXCEPT ![t] = IF @ = r THEN None ELSE @]
  /\ UNCHANGED <<help, send, finishes, query, clicked, arms>>

\* The request is history: nobody looks at its tabs and its result any more.
CleanedUp(r) ==
  /\ cleanup[r] = "sending" /\ \A t \in Tabs : <<r, t>> \notin cancels
  /\ cleanup' = [cleanup EXCEPT ![r] = "done"]
  /\ req' = [req EXCEPT ![r] = "answered"]
  /\ primary' = [primary EXCEPT ![r] = None] /\ overlays' = [overlays EXCEPT ![r] = {}]
  /\ outcome' = [outcome EXCEPT ![r] = "none"]
  /\ clicked' = {c \in clicked : c[1] # r}
  /\ UNCHANGED <<signal, send, wire, pages, arms>>

-----------------------------------------------------------------------------
\* Actions: showing the overlay

\* The rearm timer of a tab that was created, activated or loaded, or whose first
\* overlay was not acked. Those events may come at any time, and so may the timer;
\* that finishHelp() clears it makes no difference then.
Rearm(t) ==
  /\ arms < MaxArms /\ arms' = arms + 1
  /\ \E r \in Active :
       send[r][t] = "none" /\ send' = [send EXCEPT ![r][t] = "sending"]
  /\ UNCHANGED <<help, wire, pages, clicked>>

\* HELP_REQUEST reaches a page. The loop that sends it does not look at whether
\* the request has settled; the page tells the request whose overlay it replaces
\* that the user has cancelled it.
Shows(r, t) ==
  LET old == shown[t] IN
  /\ send[r][t] = "sending"
  /\ send' = [send EXCEPT ![r][t] = "acked"]
  /\ shown' = [shown EXCEPT ![t] = r]
  /\ IF old \in {None, r} THEN UNCHANGED finishes ELSE SendsFinish(old, "cancelled")
  /\ UNCHANGED <<help, cancels, query, clicked, arms>>

Acked(r, t) ==
  /\ send[r][t] = "acked" /\ send' = [send EXCEPT ![r][t] = "none"]
  /\ Remember(r, t)
  /\ UNCHANGED <<req, outcome, primary, cleanup, signal, wire, pages, clicked, arms>>

\* No attempt was acked: there was no content script whenever one was made.
NotShown(r, t) ==
  /\ send[r][t] = "sending" /\ send' = [send EXCEPT ![r][t] = "none"]
  /\ UNCHANGED <<help, wire, pages, clicked, arms>>

-----------------------------------------------------------------------------
\* Actions: the pages

\* The tab goes to another document; a query of the old one ends.
NewDocument(t) ==
  /\ shown' = [shown EXCEPT ![t] = None] /\ query' = [query EXCEPT ![t] = None]
  /\ UNCHANGED <<help, send, wire, clicked, arms>>

\* A document that has loaded, come back or lost its overlay's host asks a few
\* times for an active request.
QueryFinds(t) ==
  /\ query[t] = None
  /\ arms < MaxArms /\ arms' = arms + 1
  /\ \E r \in Active : query' = [query EXCEPT ![t] = r]
  /\ UNCHANGED <<help, send, wire, shown, clicked>>

\* Mutant of QueryReplies: the tab is not remembered.
QueryRepliesOnly(t) ==
  /\ query[t] \in Requests /\ query' = [query EXCEPT ![t] = None]
  /\ shown' = [shown EXCEPT ![t] = query[t]]
  /\ UNCHANGED <<help, send, wire, clicked, arms>>

\* The request's targets have been looked up: it may have settled by now. The
\* page mounts what it is told.
QueryReplies(t) ==
  LET r == query[t] IN
  /\ r \in Requests /\ query' = [query EXCEPT ![t] = None]
  /\ shown' = [shown EXCEPT ![t] = r]
  /\ Remember(r, t)
  /\ UNCHANGED <<req, outcome, primary, cleanup, signal, send, wire, clicked, arms>>

\* The user clicks Done or Cancel; "cancelled" is sent as well for an overlay that
\* a reset of the agent's overlays removes (an interrupt, a returned tab).
Clicks(t, how) ==
  LET r == shown[t] IN
  /\ r # None /\ shown' = [shown EXCEPT ![t] = None]
  /\ SendsFinish(r, how)
  /\ clicked' = IF cleanup[r] = "done" THEN clicked ELSE clicked \cup {<<r, how>>}
  /\ UNCHANGED <<help, send, cancels, query, arms>>

-----------------------------------------------------------------------------
\* Specification

RequestStep(r) ==
  \/ Activate(r) \/ Timeout(r) \/ CleanUp(r) \/ CleanedUp(r)
  \/ \E t \in Tabs : CancelArrives(r, t)

TabStep(t) ==
  \/ Rearm(t) \/ NewDocument(t) \/ QueryFinds(t) \/ QueryReplies(t)
  \/ \E how \in {"continued", "cancelled"} : Clicks(t, how)
  \/ \E r \in Requests : Begin(r, t) \/ Shows(r, t) \/ Acked(r, t) \/ NotShown(r, t)

HelpNext ==
  \/ \E r \in Requests : RequestStep(r) \/ Abort(r) \/ Completes(r)
  \/ \E t \in Tabs : TabStep(t)
  \/ \E f \in finishes : FinishArrives(f)

HelpSpec == HelpInit /\ [][HelpNext]_helpVars

\* The handler's awaits return, messages arrive and the timeout fires.
HelpFairSpec == HelpSpec /\ \A r \in Requests : WF_helpVars(RequestStep(r))

-----------------------------------------------------------------------------
\* Properties

Outcomes == {"continued", "cancelled", "other"}

\* The types of the variables.
HelpTypeOK ==
  /\ req \in [Requests -> {"new", "preparing", "active", "settled", "answered"}]
  /\ outcome \in [Requests -> Outcomes \cup {"none"}]
  /\ primary \in [Requests -> Tabs \cup {None}]
  /\ overlays \in [Requests -> SUBSET Tabs]
  /\ cleanup \in [Requests -> {"none", "due", "sending", "done"}]
  /\ signal \subseteq Requests /\ arms \in 0 .. MaxArms
  /\ send \in [Requests -> [Tabs -> {"none", "sending", "acked"}]]
  /\ cancels \subseteq Requests \X Tabs
  /\ finishes \subseteq [req : Requests, how : {"continued", "cancelled"}]
  /\ shown \in [Tabs -> Requests \cup {None}] /\ query \in [Tabs -> Requests \cup {None}]
  /\ clicked \subseteq Requests \X {"continued", "cancelled"}

\* The agent is told to continue only when the user has said so for this very
\* request: a late answer to an earlier one, from another tab, does not count.
ContinuedByUser == \A r \in Requests : outcome[r] = "continued" => <<r, "continued">> \in clicked

\* While a request is active, every tab whose page shows it is one that its end
\* will reach, or the shown's ack is still on its way: overlays of reloaded and of
\* new tabs do not outlive the request unseen.
ShownIsReached ==
  \A r \in Active, t \in Tabs :
    shown[t] = r => t \in overlays[r] \cup {primary[r]} \/ send[r][t] = "acked"

\* Every request is answered, also when no page ever shows it.
HelpIsAnswered ==
  \A r \in Requests : (req[r] = "preparing") ~> (req[r] = "answered")

\* "User declined / aborted via the overlay's Cancel button": no other event ends
\* a request as cancelled.
CancelledByUser == \A r \in Requests : outcome[r] = "cancelled" => <<r, "cancelled">> \in clicked

===============================================================================
