------------------------------- MODULE Connection -------------------------------
(***************************************************************************)
(* The extension's link to the daemon: WSTransport, the handshake that     *)
(* ConnectionController runs on every socket, its recovery from a loss,    *)
(* the user's switch, and the timers that reconnect.                       *)
(*                                                                         *)
(* The extension is single-threaded: a step is a task of the event loop    *)
(* with the promise continuations it releases. The transport's state is    *)
(* its socket's: none is "disconnected". explicitlyClosed is not kept:     *)
(* disconnect() drops the socket and the timer, the two things it guards.  *)
(***************************************************************************)
EXTENDS Naturals

CONSTANTS
  Sockets,   \* WebSocket objects; one may be reused when its last event is in
  MaxFaults, \* bound: losses, refusals, evictions and daemon crashes
  None       \* no socket

ASSUME ConnectionAssumption == None \notin Sockets /\ MaxFaults \in Nat

VARIABLES
  attached,  \* ConnectionController.attach() has registered its listener
  enabled,   \* connectionEnabled
  socket,    \* WSTransport.socket
  phase,     \* per socket: how far the browser and the daemon are with it
  timer,     \* WSTransport.reconnectTimer is set
  shake,     \* the socket of the handshake of the current connectionGeneration
  handshake, \* the socket whose HandshakeResult the controller holds
  shown,     \* currentState of the controller; the heartbeat beats while "live"
  retry,     \* handshakeRetryTimer is set
  recovery,  \* disconnectRecovery: where it is
  disabling, \* applyDisabledState() awaits its cleanup
  cleaning,  \* createDisconnectCleanup().inFlight
  sessions,  \* kinds of sessions the extension has
  daemon,    \* does the daemon run
  faults     \* faults so far

link     == <<socket, phase, timer>>
shaking  == <<shake, handshake, retry>>
cleanup  == <<cleaning, sessions>>
waiters  == <<recovery, disabling>>
control  == <<attached, enabled, shown>>
world    == <<daemon, faults>>
vars == <<link, shaking, cleanup, waiters, control, world>>

Init ==
  /\ attached = FALSE /\ enabled = TRUE /\ shown = "disconnected"
  /\ socket = None /\ phase = [g \in Sockets |-> "free"] /\ timer = FALSE
  /\ shake = None /\ handshake = None /\ retry = FALSE
  /\ recovery = "none" /\ disabling = FALSE
  /\ cleaning = FALSE /\ sessions = {}
  /\ daemon \in BOOLEAN /\ faults = 0

-----------------------------------------------------------------------------
\* Helpers

Connected == socket # None /\ phase[socket] # "opening"

Fault == faults < MaxFaults /\ faults' = faults + 1

\* Mutant of Connect: a second caller does not share the pending attempt.
ConnectAgain(on) ==
  IF Connected
  THEN UNCHANGED <<socket, phase, timer, shown>>
  ELSE \E g \in Sockets :
         /\ phase[g] = "free"
         /\ phase' = [phase EXCEPT ![g] = "opening"]
         /\ socket' = g /\ timer' = FALSE
         /\ shown' = IF attached' /\ on THEN "connecting" ELSE shown

\* WSTransport.connect() and the listener's "connecting". A pending connect
\* shares its promise with later callers: nothing happens while there is a
\* socket.
Connect(on) ==
  IF socket # None
  THEN /\ timer' = (timer /\ Connected)
       /\ UNCHANGED <<socket, phase, shown>>
  ELSE \E g \in Sockets :
         /\ phase[g] = "free"
         /\ phase' = [phase EXCEPT ![g] = "opening"]
         /\ socket' = g /\ timer' = FALSE
         /\ shown' = IF attached' /\ on THEN "connecting" ELSE shown

\* WSTransport.disconnect(); its listeners are in the actions. A pending
\* connect() is rejected, and with it the recovery that waits for it.
Disconnect ==
  /\ socket' = None /\ timer' = FALSE
  /\ phase' = IF socket = None THEN phase ELSE [phase EXCEPT ![socket] = "closing"]

\* Mutant of ForgetHandshake: the handshake in flight is not cancelled.
ForgetResultOnly == handshake' = None /\ UNCHANGED shake

\* cancelHandshake(), and the result goes too.
ForgetHandshake == shake' = None /\ handshake' = None

\* What a session is when its connection is gone and nobody stops it.
Orphaned(S) == IF "current" \in S THEN (S \ {"current"}) \cup {"left"} ELSE S

\* cleanupSessions() lists the sessions; a caller that finds one in flight
\* shares it.
StartCleanup ==
  /\ cleaning' = TRUE
  /\ sessions' = IF cleaning THEN Orphaned(sessions)
                 ELSE IF sessions = {} THEN {} ELSE {"cleaning"}

\* The listener on "disconnected" when the loss was not deliberate:
\* recoverFromDisconnect() stops the transport and waits for the cleanup,
\* unless a recovery is under way.
Recover ==
  IF recovery = "none"
  THEN recovery' = "cleanup" /\ StartCleanup
  ELSE UNCHANGED <<recovery, cleaning>> /\ sessions' = Orphaned(sessions)

\* disconnect() with what its listener does: if the switch is on, it recovers.
\* A recovery that waits for the connect() that is rejected ends, and does not
\* start again.
DisconnectAndTell ==
  /\ Disconnect
  /\ IF socket # None THEN ForgetHandshake ELSE UNCHANGED <<shake, handshake>>
  /\ IF socket # None /\ enabled /\ recovery # "connecting"
     THEN Recover
     ELSE /\ recovery' = IF recovery = "connecting" THEN "none" ELSE recovery
          /\ UNCHANGED cleaning /\ sessions' = Orphaned(sessions)

\* Continuations that a finished cleanup has released run before any task.
Released == ~cleaning /\ (recovery = "cleanup" \/ disabling)

\* A cleanup without sessions has nothing to wait for.
Settled == ~Released /\ (cleaning => "cleaning" \in sessions)

-----------------------------------------------------------------------------
\* Actions: sockets

\* "open" of the current socket resolves the pending connect() and starts the
\* handshake; a stale one is ignored.
Opened(g) ==
  /\ phase[g] = "opening" /\ daemon
  /\ socket = g
  /\ recovery' = IF recovery = "connecting" THEN "none" ELSE recovery
  /\ IF attached /\ enabled
     THEN /\ phase' = [phase EXCEPT ![g] = "asked"]
          /\ shake' = g /\ shown' = "connecting"
     ELSE phase' = [phase EXCEPT ![g] = "open"] /\ UNCHANGED <<shake, shown>>
  /\ UNCHANGED <<socket, timer, handshake, retry, cleanup, disabling, attached, enabled, world>>

\* "close" of the current socket: the transport schedules a reconnect, which a
\* recovery that starts now cancels.
Lost(g) ==
  /\ socket = g /\ socket' = None
  /\ \/ ~daemon /\ UNCHANGED faults
     \/ phase[g] = "open" /\ UNCHANGED faults   \* HANDSHAKE_FIRST_FRAME_TIMEOUT
     \/ daemon /\ Fault
  /\ phase' = [phase EXCEPT ![g] = "free"]
  /\ IF attached THEN ForgetHandshake ELSE UNCHANGED <<shake, handshake>>
  /\ IF attached /\ enabled
     THEN shown' = "disconnected" /\ timer' = (recovery # "none") /\ Recover
     ELSE timer' = TRUE /\ sessions' = Orphaned(sessions) /\ UNCHANGED <<shown, recovery, cleaning>>
  /\ UNCHANGED <<retry, disabling, attached, enabled, daemon>>

\* "close" of a socket that disconnect() has dropped is ignored.
Closed(g) ==
  /\ phase[g] = "closing"
  /\ phase' = [phase EXCEPT ![g] = "free"]
  /\ UNCHANGED <<socket, timer, shaking, cleanup, waiters, control, world>>

\* WSTransport.reconnectTimer.
ReconnectTimer ==
  /\ timer
  /\ UNCHANGED <<attached, enabled>> /\ Connect(enabled)
  /\ UNCHANGED <<shaking, cleanup, waiters, world>>

\* The keepalive alarm, the browser's start and the user's return from idle.
Alarm ==
  /\ enabled /\ ~Connected
  /\ UNCHANGED <<attached, enabled>> /\ Connect(enabled)
  /\ UNCHANGED <<shaking, cleanup, waiters, world>>

-----------------------------------------------------------------------------
\* Actions: handshake

\* The daemon registers the browser and answers, and may send requests.
DaemonAccepts(g) ==
  /\ phase[g] = "asked" /\ daemon
  /\ phase' = [phase EXCEPT ![g] = "served"]
  /\ UNCHANGED <<socket, timer, shaking, cleanup, waiters, control, world>>

\* runHandshake() with a result that is good enough.
HandshakeOk ==
  /\ shake # None /\ phase[shake] = "served"
  /\ handshake' = shake /\ shake' = None
  /\ retry' = FALSE /\ shown' = "live"
  /\ UNCHANGED <<link, cleanup, waiters, attached, enabled, world>>

\* Mutant of HandshakeBounce: the half-open socket is kept.
HandshakeBounceKeepsSocket(g, again) ==
  /\ shake = g /\ Fault
  /\ ForgetHandshake
  /\ shown' = "disconnected"
  /\ retry' = (retry \/ again)
  /\ UNCHANGED <<link, cleanup, waiters, attached, enabled, daemon>>

\* The end of a handshake on socket g that failed: the peer is too old, or
\* there was an error or no answer for 10 s, after which a retry is scheduled.
\* suppressDisconnectRecovery keeps the listener from recovering.
HandshakeBounce(g, again) ==
  /\ shake = g /\ Fault
  /\ Disconnect /\ ForgetHandshake
  /\ shown' = "disconnected" /\ sessions' = Orphaned(sessions)
  /\ retry' = (retry \/ again)
  /\ UNCHANGED <<cleaning, waiters, attached, enabled, daemon>>

HandshakeRejected(g) == phase[g] = "served" /\ HandshakeBounce(g, FALSE)
HandshakeFails(g)    == HandshakeBounce(g, TRUE)

\* handshakeRetryTimer.
HandshakeRetry ==
  /\ retry /\ retry' = FALSE
  /\ UNCHANGED <<attached, enabled>>
  /\ IF enabled THEN Connect(enabled) ELSE UNCHANGED <<link, shown>>
  /\ UNCHANGED <<shake, handshake, cleanup, waiters, world>>

-----------------------------------------------------------------------------
\* Actions: the switch, recovery and cleanup

\* attach() has read the stored switch and registers its listener.
Attach(on) ==
  /\ ~attached /\ attached' = TRUE
  /\ enabled' = on
  /\ IF on
     THEN Connect(on) /\ UNCHANGED <<shake, handshake, retry, cleanup, disabling>>
     ELSE /\ ForgetHandshake /\ retry' = FALSE
          /\ disabling' = TRUE /\ StartCleanup
          /\ UNCHANGED <<link, shown>>
  /\ UNCHANGED <<recovery, world>>

\* setConnectionEnabled(false). Bound: one disable awaits its cleanup.
UserDisables ==
  /\ attached /\ enabled /\ enabled' = FALSE
  /\ ~disabling /\ disabling' = TRUE
  /\ ForgetHandshake /\ retry' = FALSE
  /\ cleaning' = TRUE
  /\ sessions' = IF cleaning THEN sessions ELSE IF sessions = {} THEN {} ELSE {"cleaning"}
  /\ UNCHANGED <<link, recovery, attached, shown, world>>

\* setConnectionEnabled(true).
UserEnables ==
  /\ attached /\ ~enabled /\ enabled' = TRUE /\ UNCHANGED attached
  /\ Connect(TRUE)
  /\ UNCHANGED <<shaking, cleanup, waiters, world>>

\* The sessions on the list are stopped, and those who waited are released.
CleanupEnds ==
  /\ cleaning /\ cleaning' = FALSE
  /\ sessions' = sessions \ {"cleaning"}
  /\ UNCHANGED <<link, shaking, waiters, control, world>>

\* Mutant of RecoveryConnects: the switch is not read again.
RecoveryConnectsAnyway ==
  /\ recovery = "cleanup" /\ ~cleaning
  /\ UNCHANGED <<attached, enabled>>
  /\ Connect(enabled)
  /\ recovery' = IF Connected THEN "none" ELSE "connecting"
  /\ UNCHANGED <<shaking, cleanup, disabling, world>>

\* recoverFromDisconnect() after its cleanup.
RecoveryConnects ==
  /\ recovery = "cleanup" /\ ~cleaning
  /\ UNCHANGED <<attached, enabled>>
  /\ IF enabled
     THEN Connect(enabled) /\ recovery' = IF Connected THEN "none" ELSE "connecting"
     ELSE recovery' = "none" /\ UNCHANGED <<link, shown>>
  /\ UNCHANGED <<shaking, cleanup, disabling, world>>

\* applyDisabledState() after its cleanup, whatever the switch is by now.
DisableDisconnects ==
  /\ disabling /\ ~cleaning /\ disabling' = FALSE
  /\ DisconnectAndTell /\ shown' = "disconnected"
  /\ UNCHANGED <<retry, attached, enabled, world>>

\* The dispatcher cannot send an answer and drops the transport.
DispatcherDrops ==
  /\ attached /\ ~Connected /\ sessions # {} /\ Fault
  /\ DisconnectAndTell
  /\ shown' = IF socket # None /\ enabled THEN "disconnected" ELSE shown
  /\ UNCHANGED <<retry, disabling, attached, enabled, daemon>>

-----------------------------------------------------------------------------
\* Actions: the world

\* A session.start comes over a socket that the daemon has registered, behind
\* its answer to the handshake.
SessionStarts ==
  /\ socket # None /\ phase[socket] = "served" /\ shake # socket
  /\ sessions' = sessions \cup {"current"}
  /\ UNCHANGED <<link, shaking, cleaning, waiters, control, world>>

DaemonStarts ==
  /\ ~daemon /\ daemon' = TRUE
  /\ UNCHANGED <<link, shaking, cleanup, waiters, control, faults>>

DaemonStops ==
  /\ daemon /\ daemon' = FALSE /\ Fault
  /\ UNCHANGED <<link, shaking, cleanup, waiters, control>>

\* Chrome evicts the service worker: timers, sockets and sessions are gone.
Evicted ==
  /\ Fault
  /\ attached' = FALSE /\ enabled' = TRUE /\ shown' = "disconnected"
  /\ socket' = None /\ phase' = [g \in Sockets |-> "free"] /\ timer' = FALSE
  /\ shake' = None /\ handshake' = None /\ retry' = FALSE
  /\ recovery' = "none" /\ disabling' = FALSE
  /\ cleaning' = FALSE /\ sessions' = {}
  /\ UNCHANGED daemon

-----------------------------------------------------------------------------
\* Specification

SocketStep(g) == Opened(g) \/ Lost(g) \/ DaemonAccepts(g)

Continuation == CleanupEnds \/ RecoveryConnects \/ DisableDisconnects

Task ==
  \/ \E g \in Sockets : SocketStep(g) \/ HandshakeRejected(g) \/ HandshakeFails(g)
  \/ HandshakeOk \/ HandshakeRetry \/ ReconnectTimer \/ Alarm
  \/ \E on \in BOOLEAN : Attach(on)
  \/ UserDisables \/ UserEnables
  \/ DispatcherDrops \/ SessionStarts \/ DaemonStarts \/ DaemonStops \/ Evicted

Next == Continuation \/ (\E g \in Sockets : Closed(g)) \/ (Settled /\ Task)

Spec == Init /\ [][Next]_vars

\* The event loop runs what is due; the alarm is periodic, and a handshake is
\* answered or times out. Nobody has to start a daemon or flip the switch.
FairSpec ==
  /\ Spec
  /\ WF_vars(Continuation) /\ WF_vars(\E g \in Sockets : Closed(g))
  /\ WF_vars(Settled /\ \E on \in BOOLEAN : Attach(on))
  /\ WF_vars(Settled /\ \E g \in Sockets : SocketStep(g))
  /\ WF_vars(Settled /\ HandshakeOk)
  /\ WF_vars(Settled /\ Alarm)

-----------------------------------------------------------------------------
\* Properties

\* The types of the variables.
TypeOK ==
  /\ {attached, enabled, timer, retry, disabling, cleaning, daemon} \subseteq BOOLEAN
  /\ socket \in Sockets \cup {None}
  /\ phase \in [Sockets -> {"free", "opening", "open", "asked", "served", "closing"}]
  /\ shake \in Sockets \cup {None} /\ handshake \in Sockets \cup {None}
  /\ shown \in {"disconnected", "connecting", "live"}
  /\ recovery \in {"none", "cleanup", "connecting"}
  /\ sessions \subseteq {"current", "cleaning", "left"}
  /\ faults \in 0 .. MaxFaults

\* Whoever reconnects - the transport's timer, the retry of a handshake, the
\* recovery, the alarm, the switch - there is one socket that is not closing.
OneLiveSocket ==
  \A g \in Sockets : phase[g] \in {"opening", "open", "asked", "served"} => socket = g

\* A handshake in flight and the result that is kept are of the socket in use:
\* nothing of an earlier one survives to bounce or to vouch for it.
NoStaleHandshake ==
  /\ shake # None => socket = shake /\ phase[shake] \in {"asked", "served"}
  /\ handshake # None => socket = handshake /\ phase[handshake] = "served"

\* Once the user's switch is off and the cleanup through, nothing is connected
\* and no timer or recovery that was under way will connect.
OffMeansOff ==
  (attached /\ ~enabled /\ ~disabling)
    => socket = None /\ ~timer /\ ~retry /\ recovery # "connecting"

\* While the switch stays on and a daemon runs, the extension gets connected,
\* however losses, recoveries, bounces and switching have interleaved before.
Reconnects == <>[](enabled /\ daemon) => <>[](handshake # None)

\* When a connection is gone, a cleanup stops its sessions: "every local
\* session must follow the normal safe stop path" (disconnect-cleanup.ts).
NoForgottenSession == "left" \in sessions => cleaning

===============================================================================
