---------------------------- MODULE SessionLifecycle ----------------------------
(***************************************************************************)
(* How a session comes to be and goes away, on both sides of the socket:   *)
(* the daemon's registries of browsers, sessions and queues, the           *)
(* extension's SessionManager, and everything that tears sessions down:    *)
(* session.stop, the idle reaper, a closed Agent Window, the loss of the   *)
(* connection, its replacement by a reconnect, the liveness reaper and a   *)
(* restart of the extension's service worker.                              *)
(*                                                                         *)
(* One browser instance; connection g is the g-th BrowserClient of it.     *)
(* Session ids are drawn at random from 456,976: here each start draws its *)
(* own, so a start is its session's id.                                    *)
(***************************************************************************)
EXTENDS Naturals, Sequences

CONSTANTS
  Starts,     \* session.start RPCs, and the ids they draw
  Stops,      \* session.stop RPCs and idle reapers
  StopOf,     \* the session each of them stops
  IdleStops,  \* those of the idle reaper, which tries again
  MaxConns,   \* bound: connections of the browser
  MayReap,    \* whether the liveness reaper may find a browser silent
  InOrder     \* whether the daemon gets to handshakes in the order they were sent

ASSUME LifecycleAssumption ==
  /\ StopOf \in [Stops -> Starts]
  /\ IdleStops \subseteq Stops
  /\ MaxConns \in Nat \ {0}
  /\ MayReap \in BOOLEAN
  /\ InOrder \in BOOLEAN

Conns == 1..MaxConns
Tasks == 0..MaxConns      \* who tears down: connection g, or the reaper (0)

VARIABLES
  registered, \* BrowserRegistry: the connection it holds (0: none)
  rows,       \* SessionRegistry: reserved and committed sessions
  queue,      \* ToolQueueRegistry, per session
  conn,       \* per connection: the daemon's task for it
  reaper,     \* the liveness reaper's task
  doomed,     \* per task: sessions it removed whose queue it has yet to drop
  pc,         \* per start: where it is
  client,     \* per start: the connection it selected (0: none yet)
  grant,      \* per start: its pending slot
  stop,       \* per stop: where it is
  via,        \* per stop: the connection its request went to (0: none)
  verdict,    \* per stop: its pending slot
  down,       \* per connection: frames to the extension
  up,         \* per connection: frames to the daemon
  attached,   \* the connection the extension is on (0: none)
  window,     \* the extension's SessionManager, per session
  sweeping    \* sessions its disconnect cleanup has yet to stop

registries == <<rows, queue>>
connVars   == <<registered, conn, reaper, doomed>>
startVars  == <<pc, client, grant>>
stopVars   == <<stop, via, verdict>>
wires      == <<down, up>>
extVars    == <<attached, window, sweeping>>
vars == <<registries, connVars, startVars, stopVars, wires, extVars>>

Init ==
  /\ registered = 0
  /\ rows     = {}
  /\ queue    = [s \in Starts |-> "absent"]
  /\ conn     = [g \in Conns |-> "unused"]
  /\ reaper   = "idle"
  /\ doomed   = [g \in Tasks |-> {}]
  /\ pc       = [s \in Starts |-> "new"]
  /\ client   = [s \in Starts |-> 0]
  /\ grant    = [s \in Starts |-> "none"]
  /\ stop     = [t \in Stops |-> "new"]
  /\ via      = [t \in Stops |-> 0]
  /\ verdict  = [t \in Stops |-> "none"]
  /\ down     = [g \in Conns |-> <<>>]
  /\ up       = [g \in Conns |-> <<>>]
  /\ attached = 0
  /\ window   = [s \in Starts |-> "none"]
  /\ sweeping = {}

-----------------------------------------------------------------------------
\* Helpers

\* Frames name the start or the stop they belong to.
ToExtension(g, frame) ==
  down' = IF attached = g THEN [down EXCEPT ![g] = Append(@, frame)] ELSE down

\* transport.send: on the connection the extension is on, if any.
ToDaemon(frame) ==
  up' = IF attached = 0 THEN up ELSE [up EXCEPT ![attached] = Append(@, frame)]

\* A task removes sessions from the registry, and drops their queues after.
Forget(task, ss) ==
  /\ rows' = rows \ ss
  /\ doomed' = [doomed EXCEPT ![task] = @ \cup (ss \cap rows)]

\* The task that reads connection g takes the next frame only when idle.
Pumping(g) == conn[g] = "up" /\ doomed[g] = {}

\* A frame of stop t is on a wire.
UnderWay(t) ==
  \E g \in Conns : \E w \in {down[g], up[g]} :
    \E i \in DOMAIN w : w[i].op = "stop" /\ w[i].id = t

Started(s) == s \in rows /\ pc[s] \in {"committed", "started"}

-----------------------------------------------------------------------------
\* session.start (start_session)

\* select_with_connect_wait: the registered connection, or an error.
Select(s) ==
  /\ pc[s] = "new"
  /\ pc' = [pc EXCEPT ![s] = IF registered = 0 THEN "failed" ELSE "selected"]
  /\ client' = [client EXCEPT ![s] = registered]
  /\ UNCHANGED <<registries, connVars, grant, stopVars, wires, extVars>>

\* reserve_id: a placeholder row.
Reserve(s) ==
  /\ pc[s] = "selected"
  /\ pc' = [pc EXCEPT ![s] = "reserved"]
  /\ rows' = rows \cup {s}
  /\ UNCHANGED <<queue, connVars, client, grant, stopVars, wires, extVars>>

\* Every error path: the reservation is cancelled, the slot dropped.
Cancelled(s) ==
  /\ pc' = [pc EXCEPT ![s] = "failed"]
  /\ grant' = [grant EXCEPT ![s] = "none"]
  /\ rows' = rows \ {s}

\* The request goes on the selected client's sink, which is closed when the
\* task that owned it has returned.
Send(s) ==
  /\ pc[s] = "reserved"
  /\ IF conn[client[s]] = "done"
     THEN Cancelled(s) /\ UNCHANGED down
     ELSE /\ pc' = [pc EXCEPT ![s] = "waiting"]
          /\ grant' = [grant EXCEPT ![s] = "waiting"]
          /\ ToExtension(client[s], [op |-> "start", id |-> s])
          /\ UNCHANGED rows
  /\ UNCHANGED <<queue, connVars, client, stopVars, up, extVars>>

\* The extension's answer, or the timeout.
Answered(s) ==
  /\ pc[s] = "waiting"
  /\ \/ /\ grant[s] = "ok"
        /\ pc' = [pc EXCEPT ![s] = "granted"]
        /\ UNCHANGED <<grant, rows>>
     \/ /\ grant[s] # "ok"
        /\ Cancelled(s)
  /\ UNCHANGED <<queue, connVars, client, stopVars, wires, extVars>>

\* Mutant of Commit: the row is written back instead of looked up.
CommitReinserts(s) ==
  /\ pc[s] = "granted"
  /\ pc' = [pc EXCEPT ![s] = "committed"]
  /\ rows' = rows \cup {s}
  /\ UNCHANGED <<queue, connVars, client, grant, stopVars, wires, extVars>>

\* commit_reservation: the row may have vanished.
Commit(s) ==
  /\ pc[s] = "granted"
  /\ pc' = [pc EXCEPT ![s] = IF s \in rows THEN "committed" ELSE "failed"]
  /\ UNCHANGED <<registries, connVars, client, grant, stopVars, wires, extVars>>

\* queues.spawn, and the CLI has its session.
Spawn(s) ==
  /\ pc[s] = "committed"
  /\ pc' = [pc EXCEPT ![s] = "started"]
  /\ queue' = [queue EXCEPT ![s] = "accepting"]
  /\ UNCHANGED <<rows, connVars, client, grant, stopVars, wires, extVars>>

-----------------------------------------------------------------------------
\* session.stop and the idle reaper (stop_session)

\* The idle reaper picks sessions that were idle for longer than a start may
\* take; its ticks are too far apart for an earlier request to be under way.
\* What is not there, or has no browser, is an error to the CLI; the reaper
\* then forgets the session.
StopBegin(t) ==
  LET s == StopOf[t]
      missing == s \notin rows \/ registered = 0 \/ queue[s] = "absent"
  IN
  /\ stop[t] = "new"
  /\ t \in IdleStops => s \in rows /\ pc[s] \in {"started", "failed"} /\ ~UnderWay(t)
  /\ IF missing
     THEN /\ stop' = [stop EXCEPT ![t] = IF t \in IdleStops THEN "removing" ELSE "failed"]
          /\ UNCHANGED queue
     ELSE IF queue[s] = "closing"
     THEN /\ stop' = [stop EXCEPT ![t] = IF t \in IdleStops THEN "new" ELSE "failed"]
          /\ UNCHANGED queue
     ELSE /\ stop' = [stop EXCEPT ![t] = "queued"]
          /\ queue' = [queue EXCEPT ![s] = "closing"]
  /\ UNCHANGED <<rows, connVars, startVars, via, verdict, wires, extVars>>

\* The worker forwards it to the connection registered by then; a session
\* that lost its row or its browser meanwhile is as good as not found.
StopForward(t) ==
  LET s == StopOf[t] IN
  /\ stop[t] = "queued"
  /\ IF s \notin rows \/ registered = 0
     THEN /\ stop' = [stop EXCEPT ![t] = "removing"]
          /\ UNCHANGED <<via, verdict, down>>
     ELSE /\ stop' = [stop EXCEPT ![t] = "waiting"]
          /\ via' = [via EXCEPT ![t] = registered]
          /\ verdict' = [verdict EXCEPT ![t] = "waiting"]
          /\ ToExtension(registered, [op |-> "stop", id |-> t])
  /\ UNCHANGED <<registries, connVars, startVars, up, extVars>>

\* Mutant of StopReturn: return failures count as success.
StopReturnIgnoresFailures(t) ==
  /\ stop[t] = "waiting"
  /\ verdict' = [verdict EXCEPT ![t] = "none"]
  /\ stop' = [stop EXCEPT ![t] = "removing"]
  /\ UNCHANGED <<registries, connVars, startVars, via, wires, extVars>>

\* Mutant of StopReturn: not_found is an error like any other.
StopReturnKeepsUnknown(t) ==
  LET s == StopOf[t] IN
  /\ stop[t] = "waiting"
  /\ verdict' = [verdict EXCEPT ![t] = "none"]
  /\ IF verdict[t] = "ok"
     THEN /\ stop' = [stop EXCEPT ![t] = "removing"]
          /\ UNCHANGED queue
     ELSE /\ stop' = [stop EXCEPT ![t] = IF t \in IdleStops THEN "new" ELSE "failed"]
          /\ queue' = [queue EXCEPT ![s] = IF @ = "absent" THEN @ ELSE "accepting"]
  /\ via' = [via EXCEPT ![t] = IF stop'[t] = "removing" THEN @ ELSE 0]
  /\ UNCHANGED <<rows, connVars, startVars, wires, extVars>>

\* Success and not_found remove the session; anything else, the timeout
\* included, reopens the queue if there still is one.
StopReturn(t) ==
  LET s == StopOf[t] IN
  /\ stop[t] = "waiting"
  /\ verdict' = [verdict EXCEPT ![t] = "none"]
  /\ IF verdict[t] \in {"ok", "not_found"}
     THEN /\ stop' = [stop EXCEPT ![t] = "removing"]
          /\ UNCHANGED queue
     ELSE /\ stop' = [stop EXCEPT ![t] = IF t \in IdleStops THEN "new" ELSE "failed"]
          /\ queue' = [queue EXCEPT ![s] = IF @ = "absent" THEN @ ELSE "accepting"]
  /\ via' = [via EXCEPT ![t] = IF stop'[t] = "removing" THEN @ ELSE 0]
  /\ UNCHANGED <<rows, connVars, startVars, wires, extVars>>

\* sessions.remove, ...
StopRemove(t) ==
  /\ stop[t] = "removing"
  /\ stop' = [stop EXCEPT ![t] = "dropping"]
  /\ rows' = rows \ {StopOf[t]}
  /\ UNCHANGED <<queue, connVars, startVars, via, verdict, wires, extVars>>

\* ... drop_session_local.
StopDrop(t) ==
  /\ stop[t] = "dropping"
  /\ stop' = [stop EXCEPT ![t] = "ok"]
  /\ queue' = [queue EXCEPT ![StopOf[t]] = "absent"]
  /\ UNCHANGED <<rows, connVars, startVars, via, verdict, wires, extVars>>

-----------------------------------------------------------------------------
\* The daemon's task of a connection (drive_connection)

\* Mutant of HandshakePurge: the stale sessions are left to the old cleanup.
HandshakeKeepsRows(g) ==
  /\ conn[g] = "greeting"
  /\ conn' = [conn EXCEPT ![g] = "purging"]
  /\ UNCHANGED <<registered, reaper, rows, doomed, queue, startVars, stopVars, wires, extVars>>

\* The handshake: purge_browser before the registration, ...
HandshakePurge(g) ==
  /\ conn[g] = "greeting"
  /\ InOrder => \A h \in Conns : h < g => conn[h] \notin {"greeting", "purging"}
  /\ conn' = [conn EXCEPT ![g] = "purging"]
  /\ Forget(g, rows)
  /\ UNCHANGED <<registered, reaper, queue, startVars, stopVars, wires, extVars>>

\* (whoever removed a session drops its queue)
DropQueue(task, s) ==
  /\ s \in doomed[task]
  /\ doomed' = [doomed EXCEPT ![task] = @ \ {s}]
  /\ queue' = [queue EXCEPT ![s] = "absent"]
  /\ UNCHANGED <<rows, registered, conn, reaper, startVars, stopVars, wires, extVars>>

\* ... and the registration, which replaces an older one. When the extension has left,
\* the handshake's reply may fail: the task returns at once, without its cleanup, and
\* what it has registered stays.
Register(g) ==
  /\ conn[g] = "purging" /\ doomed[g] = {}
  /\ registered' = g
  /\ \/ conn' = [conn EXCEPT ![g] = "up"] /\ UNCHANGED up
     \/ attached # g /\ conn' = [conn EXCEPT ![g] = "done"] /\ up' = [up EXCEPT ![g] = <<>>]
  /\ UNCHANGED <<reaper, doomed, registries, startVars, stopVars, down, extVars>>

\* handle_inbound_text.  A response resolves a slot of this connection only; a
\* session.window_closed event forgets the session.
Pump(g) ==
  /\ Pumping(g) /\ up[g] # <<>>
  /\ up' = [up EXCEPT ![g] = Tail(@)]
  /\ LET f == Head(up[g]) IN
     \/ /\ f.op = "start"
        /\ grant' = [grant EXCEPT ![f.id] = IF @ = "waiting" /\ client[f.id] = g THEN f.body ELSE @]
        /\ UNCHANGED <<verdict, rows, doomed>>
     \/ /\ f.op = "stop"
        /\ verdict' = [verdict EXCEPT ![f.id] = IF @ = "waiting" /\ via[f.id] = g THEN f.body ELSE @]
        /\ UNCHANGED <<grant, rows, doomed>>
     \/ /\ f.op = "closed"
        /\ Forget(g, {f.id})
        /\ UNCHANGED <<grant, verdict>>
  /\ UNCHANGED <<queue, registered, conn, reaper, pc, client, stop, via, down, extVars>>

\* The read loop ends some time after the extension has left the connection;
\* what it had not read is lost.
SocketLost(g) ==
  /\ Pumping(g) /\ attached # g
  /\ conn' = [conn EXCEPT ![g] = "lost"]
  /\ up' = [up EXCEPT ![g] = <<>>]
  /\ UNCHANGED <<registered, reaper, doomed, registries, startVars, stopVars, down, extVars>>

\* Mutant of Unregister: no generation check.
UnregisterAny(g) ==
  /\ conn[g] = "lost"
  /\ registered' = 0
  /\ conn' = [conn EXCEPT ![g] = "unregistered"]
  /\ UNCHANGED <<reaper, doomed, registries, startVars, stopVars, wires, extVars>>

\* remove_if_generation_matches: a newer registration is left alone.
Unregister(g) ==
  /\ conn[g] = "lost"
  /\ IF registered = g
     THEN registered' = 0 /\ conn' = [conn EXCEPT ![g] = "unregistered"]
     ELSE conn' = [conn EXCEPT ![g] = "done"] /\ UNCHANGED registered
  /\ UNCHANGED <<reaper, doomed, registries, startVars, stopVars, wires, extVars>>

\* purge_browser, by the browser's id.
CleanupPurge(g) ==
  /\ conn[g] = "unregistered"
  /\ conn' = [conn EXCEPT ![g] = "cleaning"]
  /\ Forget(g, rows)
  /\ UNCHANGED <<registered, reaper, queue, startVars, stopVars, wires, extVars>>

\* The task returns, and with it the sink's receiver is gone.
TaskEnds(g) ==
  /\ conn[g] = "cleaning" /\ doomed[g] = {}
  /\ conn' = [conn EXCEPT ![g] = "done"]
  /\ UNCHANGED <<registered, reaper, doomed, registries, startVars, stopVars, wires, extVars>>

\* spawn_browser_liveness_reaper: the same two steps for a browser gone silent,
\* whose socket stays open. It passes over one that has never sent a heartbeat, as
\* one whose handshake was not answered.
ReapBrowser ==
  /\ MayReap /\ reaper = "idle" /\ doomed[0] = {}
  /\ registered # 0 /\ conn[registered] # "done"
  /\ registered' = 0
  /\ reaper' = "purging"
  /\ UNCHANGED <<conn, doomed, registries, startVars, stopVars, wires, extVars>>

ReapSessions ==
  /\ reaper = "purging"
  /\ reaper' = "idle"
  /\ Forget(0, rows)
  /\ UNCHANGED <<registered, conn, queue, startVars, stopVars, wires, extVars>>

-----------------------------------------------------------------------------
\* The extension

\* A socket opens and its handshake frame is sent.  The keepalive alarm may do
\* this before the disconnect cleanup is through.
ExtConnect(g) ==
  /\ attached = 0 /\ conn[g] = "unused"
  /\ \A h \in Conns : h < g => conn[h] # "unused"
  /\ attached' = g
  /\ conn' = [conn EXCEPT ![g] = "greeting"]
  /\ UNCHANGED <<registered, reaper, doomed, registries, startVars, stopVars, wires,
                 window, sweeping>>

\* The connection is lost or switched off: cleanupAfterDisconnect lists the
\* sessions to stop.  A cleanup under way is not started again.
ExtDisconnect ==
  /\ attached # 0
  /\ attached' = 0
  /\ sweeping' = IF sweeping = {} THEN {s \in Starts : window[s] = "open"} ELSE sweeping
  /\ down' = [down EXCEPT ![attached] = <<>>]
  /\ UNCHANGED <<registries, connVars, startVars, stopVars, up, window>>

\* handleSessionStop on one of them; a failure leaves the session in place.
ExtCleanup(s) ==
  /\ s \in sweeping
  /\ sweeping' = sweeping \ {s}
  /\ \E w \in {"none", window[s]} : window' = [window EXCEPT ![s] = w]
  /\ UNCHANGED <<registries, connVars, startVars, stopVars, wires, attached>>

\* The service worker is restarted: its maps are empty.
ExtRestart ==
  /\ attached' = 0 /\ sweeping' = {}
  /\ window' = [s \in Starts |-> "none"]
  /\ down' = [g \in Conns |-> <<>>]
  /\ attached # 0 \/ sweeping # {} \/ \E s \in Starts : window[s] # "none"
  /\ UNCHANGED <<registries, connVars, startVars, stopVars, up>>

\* A start begins to open a window; a stop closes it, or fails and keeps it
\* (returnBorrowedTab, chrome.windows.remove), or does not know the session.
ExtReceive ==
  /\ attached # 0 /\ down[attached] # <<>>
  /\ down' = [down EXCEPT ![attached] = Tail(@)]
  /\ LET f == Head(down[attached]) IN
     IF f.op = "start"
     THEN /\ window' = [window EXCEPT ![f.id] = "opening"]
          /\ UNCHANGED up
     ELSE LET s == StopOf[f.id] IN
          \E body \in IF window[s] = "open" THEN {"ok", "failed"} ELSE {"not_found"} :
            /\ window' = [window EXCEPT ![s] = IF body = "ok" THEN "none" ELSE @]
            /\ ToDaemon([op |-> "stop", id |-> f.id, body |-> body])
  /\ UNCHANGED <<registries, connVars, startVars, stopVars, attached, sweeping>>

\* The window is there (or not): the answer is sent on the connection of the
\* moment.  When there is none the dispatcher stops the session again, which
\* may fail and leave it.
ExtOpened(s) ==
  /\ window[s] = "opening"
  /\ \E w \in {"open", "none"} :
       /\ window' = [window EXCEPT ![s] = w]
       /\ ToDaemon([op |-> "start", id |-> s, body |-> IF w = "open" THEN "ok" ELSE "error"])
  /\ UNCHANGED <<registries, connVars, startVars, stopVars, down, attached, sweeping>>

\* The user closes the Agent Window.
UserClosesWindow(s) ==
  /\ window[s] = "open"
  /\ window' = [window EXCEPT ![s] = "none"]
  /\ ToDaemon([op |-> "closed", id |-> s])
  /\ UNCHANGED <<registries, connVars, startVars, stopVars, down, attached, sweeping>>

-----------------------------------------------------------------------------
StartSteps(s) == Select(s) \/ Reserve(s) \/ Send(s) \/ Answered(s) \/ Commit(s) \/ Spawn(s)

StopSteps(t) ==
  StopBegin(t) \/ StopForward(t) \/ StopReturn(t) \/ StopRemove(t) \/ StopDrop(t)

Connection(g) ==
  \/ HandshakePurge(g) \/ Register(g) \/ Pump(g)
  \/ SocketLost(g) \/ Unregister(g) \/ CleanupPurge(g) \/ TaskEnds(g)

Teardown ==
  \/ \E task \in Tasks, s \in Starts : DropQueue(task, s)
  \/ ReapBrowser
  \/ ReapSessions

Extension ==
  \/ \E g \in Conns : ExtConnect(g)
  \/ ExtDisconnect \/ ExtRestart \/ ExtReceive
  \/ \E s \in Starts : ExtCleanup(s) \/ ExtOpened(s) \/ UserClosesWindow(s)

Next ==
  \/ \E s \in Starts : StartSteps(s)
  \/ \E t \in Stops : StopSteps(t)
  \/ \E g \in Conns : Connection(g)
  \/ Teardown
  \/ Extension

Spec == Init /\ [][Next]_vars

\* The daemon's tasks and timers run, the idle reaper ticks, an extension that
\* is attached reads its frames, and a browser that has left is noticed, by its
\* socket or by its silence; a stop does not time out for ever on a connection
\* that answers.  That a window ever opens, or that a user, a CLI
\* or an extension does anything else, is not assumed.
Fairness ==
  /\ \A s \in Starts : WF_vars(pc[s] # "new" /\ StartSteps(s))
  /\ \A t \in Stops : WF_vars((stop[t] # "new" \/ t \in IdleStops) /\ StopSteps(t))
  /\ \A g \in Conns : WF_vars(HandshakePurge(g) \/ Register(g) \/ Pump(g)
                                \/ Unregister(g) \/ CleanupPurge(g) \/ TaskEnds(g))
  /\ \A task \in Tasks, s \in Starts : WF_vars(DropQueue(task, s))
  /\ \A g \in Conns : WF_vars(registered = g /\ attached # g /\ (SocketLost(g) \/ ReapBrowser))
  /\ WF_vars(ReapSessions)
  /\ WF_vars(ExtReceive)
  /\ \A t \in IdleStops : /\ SF_vars(stop[t] = "waiting" /\ ExtReceive)
                          /\ SF_vars(stop[t] = "waiting" /\ \E g \in Conns : Pump(g))

FairSpec == Spec /\ Fairness

-----------------------------------------------------------------------------
\* Properties

DownFrames == [op : {"start"}, id : Starts] \cup [op : {"stop"}, id : Stops]
UpFrames ==
  [op : {"start"}, id : Starts, body : {"ok", "error"}]
    \cup [op : {"stop"}, id : Stops, body : {"ok", "failed", "not_found"}]
    \cup [op : {"closed"}, id : Starts]

\* Every variable keeps its shape, and a queue is never open for a session that
\* was not started.
TypeOK ==
  /\ registered \in Tasks
  /\ rows     \in SUBSET Starts
  /\ queue    \in [Starts -> {"absent", "accepting", "closing"}]
  /\ conn     \in [Conns -> {"unused", "greeting", "purging", "up", "lost",
                             "unregistered", "cleaning", "done"}]
  /\ reaper   \in {"idle", "purging"}
  /\ doomed   \in [Tasks -> SUBSET Starts]
  /\ pc       \in [Starts -> {"new", "selected", "reserved", "waiting", "granted",
                              "committed", "started", "failed"}]
  /\ client   \in [Starts -> Tasks]
  /\ grant    \in [Starts -> {"none", "waiting", "ok", "error"}]
  /\ stop     \in [Stops -> {"new", "queued", "waiting", "removing", "dropping",
                             "ok", "failed"}]
  /\ via      \in [Stops -> Tasks]
  /\ verdict  \in [Stops -> {"none", "waiting", "ok", "failed", "not_found"}]
  /\ down     \in [Conns -> Seq(DownFrames)]
  /\ up       \in [Conns -> Seq(UpFrames)]
  /\ attached \in Tasks
  /\ window   \in [Starts -> {"none", "opening", "open"}]
  /\ sweeping \in SUBSET Starts
  /\ \A s \in Starts : queue[s] # "absent" => pc[s] = "started"

\* ws.rs:288-294: no session of an older connection is listed under the browser
\* once a newer one is registered, whatever the old cleanup, a start under way
\* on the old client or a late answer do.
RowsAreOfTheConnection ==
  \A s \in Starts : Started(s) /\ registered # 0 => client[s] = registered

\* The same when handshakes overtake each other: no listed session is of an older
\* connection than the registered one.
RowsAreNotOlder ==
  \A s \in Starts : Started(s) /\ registered # 0 => ~(client[s] < registered)

\* sessions.rs:126-128: a start that failed leaves no placeholder and no worker.
FailedStartLeavesNothing ==
  \A s \in Starts : pc[s] = "failed" => s \notin rows /\ queue[s] = "absent"

\* A session the CLI was given can be used: while it is listed it has a queue.
ListedSessionHasQueue ==
  \A s \in rows : pc[s] = "started" => queue[s] # "absent"

\* A stop that succeeded leaves no row and no worker and, when the extension
\* answered it, no session there either, now or later: a "not_found" is not that
\* of a start whose window is still to come.
StopMeansStopped ==
  \A t \in Stops : stop[t] = "ok" =>
    /\ StopOf[t] \notin rows /\ queue[StopOf[t]] = "absent"
    /\ via[t] # 0 => window[StopOf[t]] # "open"

\* browsers.rs:234-241: a registration is replaced by another, or it goes
\* because its own socket was lost or it was found silent, never because the
\* cleanup of an older connection comes late.
RegistrationGoesWithItsSocket ==
  [][registered # 0 /\ registered' = 0
       => conn[registered] = "lost" \/ reaper' = "purging"]_vars

\* A session that is listed without an Agent Window behind it is found by the
\* idle reaper and goes.
StaleSessionGoes ==
  \A s \in Starts : s \in rows ~> s \notin rows \/ window[s] = "open"

-----------------------------------------------------------------------------
\* Statements of the code's comments that do not hold

\* ws.rs:397-400: the cleanup of an old connection leaves a newer registration
\* "and its (possibly fresh) sessions alone": a session whose start succeeded
\* on the connection in use, and whose window is open, is listed.
FreshSessionsSurvive ==
  \A s \in Starts :
    /\ pc[s] = "started" /\ window[s] = "open"
    /\ attached = client[s] /\ registered = client[s]
    => s \in rows

\* dispatcher.ts:261-266: the extension must not "leak an orphan window": when
\* a start has failed for the CLI, nothing is under way any more and the
\* connection is in use, its window is not open.
NoOrphanWindow ==
  \A s \in Starts :
    /\ pc[s] = "failed" /\ window[s] = "open"
    => ~(attached # 0 /\ registered = attached /\ up[attached] = <<>> /\ sweeping = {})

=============================================================================
