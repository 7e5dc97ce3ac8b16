----------------------------- MODULE ConnectionProofs -----------------------------
(***************************************************************************)
(* One socket at a time, no handshake of an earlier socket, and nothing    *)
(* that connects once the user has switched the link off: for every number *)
(* of sockets and faults.                                                  *)
(*                                                                         *)
(* The three hold together. A handshake is dropped with its socket because *)
(* whoever drops a socket was its only owner, and the switch stays off     *)
(* because what could connect (a timer, a retry, a recovery, a handshake   *)
(* that bounces) was cancelled when it was turned off, or looks at it.     *)
(***************************************************************************)
EXTENDS Connection, TLAPS

Phases == {"free", "opening", "open", "asked", "served", "closing"}
InUse == {"opening", "open", "asked", "served"}

\* The types of what the three are about.
LinkTypes ==
  /\ {attached, enabled, timer, retry, disabling} \subseteq BOOLEAN
  /\ socket \in Sockets \cup {None} /\ phase \in [Sockets -> Phases]
  /\ shake \in Sockets \cup {None} /\ handshake \in Sockets \cup {None}
  /\ recovery \in {"none", "cleanup", "connecting"}

\* A socket is used by the transport alone, until its last event or until it is dropped.
Sole == \A g \in Sockets : phase[g] \in InUse <=> socket = g

\* Without the controller there is no handshake; while the switch is off neither is there,
\* nor will one be retried.
Quiet ==
  /\ ~attached => shake = None /\ handshake = None
  /\ attached /\ ~enabled => shake = None /\ handshake = None /\ ~retry

LinkInv == LinkTypes /\ Sole /\ Quiet /\ NoStaleHandshake /\ OffMeansOff

LEMMA LinkInit == Init => LinkInv
BY ConnectionAssumption DEF Init, LinkInv, LinkTypes, Sole, Quiet, NoStaleHandshake, OffMeansOff, Phases, InUse

-----------------------------------------------------------------------------
\* What the steps have in common

\* A step that touches neither sockets, handshakes, the switch nor what connects later.
LEMMA NothingMoves ==
  ASSUME LinkInv, UNCHANGED <<attached, enabled, disabling, socket, phase, timer, shake, handshake, retry>>,
         recovery' \in {"none", recovery}
  PROVE  LinkInv'
BY DEF LinkInv, LinkTypes, Sole, Quiet, NoStaleHandshake, OffMeansOff

\* connect(), when the switch is on or the controller is not there yet.
LEMMA ConnectKeeps ==
  ASSUME LinkInv, NEW on, Connect(on), attached' \in BOOLEAN, enabled' \in BOOLEAN, attached => attached', attached' => enabled',
         UNCHANGED <<shake, handshake, disabling>>, retry' \in {retry, FALSE},
         recovery' \in {"none", "cleanup", "connecting"}
  PROVE  LinkInv'
<1>1. CASE socket # None
  BY <1>1 DEF Connect, LinkInv, LinkTypes, Sole, Quiet, NoStaleHandshake, OffMeansOff
<1>2. CASE socket = None
  <2>1. PICK g \in Sockets : phase[g] = "free" /\ phase' = [phase EXCEPT ![g] = "opening"] /\ socket' = g /\ timer' = FALSE
    BY <1>2 DEF Connect
  <2>2. LinkTypes' /\ Sole'
    BY <1>2, <2>1, ConnectionAssumption DEF LinkInv, LinkTypes, Sole, InUse, Phases
  <2>3. shake = None /\ handshake = None
    BY <1>2 DEF LinkInv, NoStaleHandshake
  <2> QED BY <2>2, <2>3 DEF LinkInv, LinkTypes, Quiet, NoStaleHandshake, OffMeansOff
<1> QED BY <1>1, <1>2

\* disconnect() together with the handshake of the socket.
LEMMA DisconnectKeeps ==
  ASSUME LinkInv, Disconnect, ForgetHandshake \/ (socket = None /\ UNCHANGED <<shake, handshake>>),
         UNCHANGED <<attached, enabled>>, disabling' \in BOOLEAN, retry' \in BOOLEAN, attached /\ ~enabled => ~retry',
         recovery' \in {"none", "cleanup", recovery}, attached /\ ~enabled => recovery' # "connecting"
  PROVE  LinkInv'
<1>1. socket' = None /\ ~timer' /\ shake' = None /\ handshake' = None
  BY DEF Disconnect, ForgetHandshake, LinkInv, NoStaleHandshake
<1>2. LinkTypes' /\ Sole'
  BY <1>1, ConnectionAssumption DEF Disconnect, LinkInv, LinkTypes, Sole, InUse, Phases
<1> QED BY <1>1, <1>2 DEF LinkInv, LinkTypes, Quiet, NoStaleHandshake, OffMeansOff

-----------------------------------------------------------------------------
\* The steps

LEMMA SocketKeeps == ASSUME LinkInv, NEW g \in Sockets, Opened(g) \/ Lost(g) \/ DaemonAccepts(g) \/ Closed(g) PROVE LinkInv'
<1> USE ConnectionAssumption DEF LinkInv, LinkTypes, Sole, Quiet, NoStaleHandshake, OffMeansOff, Phases, InUse
<1>1. CASE Opened(g)
  <2>1. shake = None /\ handshake = None
    BY <1>1 DEF Opened
  <2> QED BY <1>1, <2>1 DEF Opened, cleanup
<1>2. CASE Lost(g)
  <2>1. /\ socket = g /\ socket' = None /\ phase' = [phase EXCEPT ![g] = "free"] /\ timer' \in BOOLEAN
        /\ UNCHANGED <<retry, disabling, attached, enabled>>
    BY <1>2 DEF Lost
  <2>2. shake' = None /\ handshake' = None
    BY <1>2 DEF Lost, ForgetHandshake
  <2>3. recovery' \in {recovery, "cleanup"}
    BY <1>2 DEF Lost, Recover
  <2> QED BY <2>1, <2>2, <2>3
<1>3. CASE DaemonAccepts(g)
  BY <1>3 DEF DaemonAccepts, shaking, cleanup, waiters, control
<1>4. CASE Closed(g)
  BY <1>4 DEF Closed, shaking, cleanup, waiters, control
<1> QED BY <1>1, <1>2, <1>3, <1>4

\* Those who connect: timers, the alarm, the retry, the recovery and the switch.
LEMMA ConnectorsKeep ==
  ASSUME LinkInv, ReconnectTimer \/ Alarm \/ HandshakeRetry \/ RecoveryConnects \/ UserEnables
  PROVE  LinkInv'
<1> USE DEF shaking, cleanup, waiters, link
<1>0. attached' \in BOOLEAN /\ enabled' \in BOOLEAN /\ attached' = attached
  BY DEF ReconnectTimer, Alarm, HandshakeRetry, RecoveryConnects, UserEnables, LinkInv, LinkTypes
<1>1. attached' \in BOOLEAN /\ enabled' \in BOOLEAN /\ (attached => attached')
  BY <1>0
<1>2. CASE ReconnectTimer
  \* The timer is not set once the switch is off, unless the disable still has to disconnect.
  <2>1. CASE attached /\ ~enabled
    <3>1. disabling /\ shake = None /\ handshake = None /\ UNCHANGED <<attached, enabled, disabling, shake, handshake, retry, recovery>>
      BY <1>2, <2>1 DEF ReconnectTimer, LinkInv, LinkTypes, OffMeansOff, Quiet
    <3>2. LinkTypes' /\ Sole'
      BY <1>2, <3>1, ConnectionAssumption DEF ReconnectTimer, Connect, LinkInv, LinkTypes, Sole, InUse, Phases
    <3> QED BY <3>1, <3>2 DEF LinkInv, LinkTypes, Quiet, NoStaleHandshake, OffMeansOff
  <2>2. CASE attached => enabled
    BY <1>2, <2>2, <1>1, ConnectKeeps DEF ReconnectTimer, LinkInv, LinkTypes
  <2> QED BY <2>1, <2>2 DEF LinkInv, LinkTypes
<1>3. CASE Alarm
  <2>1. /\ Connect(enabled) /\ (attached' => enabled') /\ UNCHANGED <<shake, handshake, disabling>>
        /\ retry' \in {retry, FALSE} /\ recovery' \in {"none", "cleanup", "connecting"}
    BY <1>3 DEF Alarm, LinkInv, LinkTypes
  <2> QED BY <1>1, <2>1, ConnectKeeps
<1>4. CASE HandshakeRetry
  <2>1. CASE enabled
    <3>1. /\ Connect(enabled) /\ (attached' => enabled') /\ UNCHANGED <<shake, handshake, disabling>>
          /\ retry' \in {retry, FALSE} /\ recovery' \in {"none", "cleanup", "connecting"}
      BY <1>4, <2>1 DEF HandshakeRetry, LinkInv, LinkTypes
    <3> QED BY <1>1, <3>1, ConnectKeeps
  <2>2. CASE ~enabled
    BY <1>4, <2>2 DEF HandshakeRetry, LinkInv, LinkTypes, Sole, Quiet, NoStaleHandshake, OffMeansOff
  <2> QED BY <2>1, <2>2
<1>5. CASE RecoveryConnects
  <2>1. CASE enabled
    <3>1. /\ Connect(enabled) /\ (attached' => enabled') /\ UNCHANGED <<shake, handshake, disabling>>
          /\ retry' \in {retry, FALSE} /\ recovery' \in {"none", "cleanup", "connecting"}
      BY <1>5, <2>1 DEF RecoveryConnects
    <3> QED BY <1>1, <3>1, ConnectKeeps
  <2>2. CASE ~enabled
    BY <1>5, <2>2, NothingMoves DEF RecoveryConnects
  <2> QED BY <2>1, <2>2
<1>6. CASE UserEnables
  <2>1. /\ Connect(TRUE) /\ (attached' => enabled') /\ UNCHANGED <<shake, handshake, disabling>>
        /\ retry' \in {retry, FALSE} /\ recovery' \in {"none", "cleanup", "connecting"}
    BY <1>6 DEF UserEnables, LinkInv, LinkTypes
  <2> QED BY <1>1, <2>1, ConnectKeeps
<1> QED BY <1>2, <1>3, <1>4, <1>5, <1>6

\* The handshake's end, good or bad.
LEMMA HandshakesKeep ==
  ASSUME LinkInv, HandshakeOk \/ \E g \in Sockets : HandshakeRejected(g) \/ HandshakeFails(g)
  PROVE  LinkInv'
<1>1. CASE HandshakeOk
  BY <1>1, ConnectionAssumption DEF HandshakeOk, link, cleanup, waiters, LinkInv, LinkTypes, Sole, Quiet, NoStaleHandshake, OffMeansOff
<1>2. ASSUME NEW g \in Sockets, NEW again \in BOOLEAN, HandshakeBounce(g, again) PROVE LinkInv'
  <2>1. shake # None /\ Disconnect /\ ForgetHandshake /\ retry' = (retry \/ again) /\ UNCHANGED <<attached, enabled, waiters>>
    BY <1>2, ConnectionAssumption DEF HandshakeBounce
  <2>2. ~(attached /\ ~enabled)
    BY <2>1 DEF LinkInv, Quiet
  <2>3. disabling' \in BOOLEAN /\ retry' \in BOOLEAN /\ recovery' = recovery
    BY <2>1 DEF waiters, LinkInv, LinkTypes
  <2> QED BY <2>1, <2>2, <2>3, DisconnectKeeps
<1> QED BY <1>1, <1>2 DEF HandshakeRejected, HandshakeFails

\* The end of a disable, and the dispatcher that drops the link.
LEMMA DroppingKeeps == ASSUME LinkInv, DisableDisconnects \/ DispatcherDrops PROVE LinkInv'
<1>1. /\ Disconnect /\ (ForgetHandshake \/ (socket = None /\ UNCHANGED <<shake, handshake>>))
      /\ UNCHANGED <<attached, enabled, retry>> /\ disabling' \in BOOLEAN
  BY DEF DisableDisconnects, DispatcherDrops, DisconnectAndTell, LinkInv, LinkTypes
<1>2. retry' \in BOOLEAN /\ (attached /\ ~enabled => ~retry')
  BY <1>1 DEF LinkInv, LinkTypes, Quiet
<1>3. recovery' \in {"none", "cleanup"}
  BY DEF DisableDisconnects, DispatcherDrops, DisconnectAndTell, Recover, LinkInv, LinkTypes
<1> QED BY <1>1, <1>2, <1>3, DisconnectKeeps

\* The controller begins, the user switches off, and everything else.
LEMMA ControlKeeps ==
  ASSUME LinkInv, (\E on \in BOOLEAN : Attach(on)) \/ UserDisables \/ Evicted \/ CleanupEnds \/ SessionStarts \/ DaemonStarts
                  \/ DaemonStops \/ UNCHANGED vars
  PROVE  LinkInv'
<1> USE DEF link, shaking, cleanup, waiters, control
<1>1. CASE Attach(TRUE)
  BY <1>1, ConnectKeeps DEF Attach, LinkInv, LinkTypes
<1>2. CASE Attach(FALSE) \/ UserDisables
  BY <1>2 DEF Attach, UserDisables, ForgetHandshake, LinkInv, LinkTypes, Sole, Quiet, NoStaleHandshake, OffMeansOff
<1>3. CASE Evicted
  BY <1>3, ConnectionAssumption DEF Evicted, LinkInv, LinkTypes, Sole, Quiet, NoStaleHandshake, OffMeansOff, Phases, InUse
<1>4. CASE CleanupEnds \/ SessionStarts \/ DaemonStarts \/ DaemonStops \/ UNCHANGED vars
  BY <1>4, NothingMoves DEF CleanupEnds, SessionStarts, DaemonStarts, DaemonStops, vars, LinkInv, LinkTypes
<1> QED BY <1>1, <1>2, <1>3, <1>4

LEMMA LinkNext == LinkInv /\ [Next]_vars => LinkInv'
BY SocketKeeps, ConnectorsKeep, HandshakesKeep, DroppingKeeps, ControlKeeps DEF Next, Continuation, Task, SocketStep

-----------------------------------------------------------------------------
\* The results

\* Whoever reconnects, there is one socket in use.
THEOREM OneSocket == Spec => []OneLiveSocket
<1>1. LinkInv => OneLiveSocket
  BY DEF LinkInv, Sole, OneLiveSocket, InUse
<1> QED BY <1>1, LinkInit, LinkNext, PTL DEF Spec

\* No handshake, and no result of one, outlives its socket.
THEOREM HandshakeOfSocket == Spec => []NoStaleHandshake
<1>1. LinkInv => NoStaleHandshake
  BY DEF LinkInv
<1> QED BY <1>1, LinkInit, LinkNext, PTL DEF Spec

\* Off is off: nothing that was under way connects again.
THEOREM OffStaysOff == Spec => []OffMeansOff
<1>1. LinkInv => OffMeansOff
  BY DEF LinkInv
<1> QED BY <1>1, LinkInit, LinkNext, PTL DEF Spec
===============================================================================
