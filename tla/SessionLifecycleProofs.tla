------------------------ MODULE SessionLifecycleProofs ------------------------
(***************************************************************************)
(* Theorems about SessionLifecycle, for any sets of starts and stops and   *)
(* any number of connections.                                              *)
(***************************************************************************)
EXTENDS SessionLifecycle, TLAPS

-----------------------------------------------------------------------------
\* Frames on a wire

Carried(q) == {q[i] : i \in DOMAIN q}

\* What a push and a read do to the frames on a wire.
LEMMA CarriedAppend ==
  ASSUME NEW S, NEW q \in Seq(S), NEW f \in S
  PROVE  Carried(Append(q, f)) \subseteq Carried(q) \cup {f}
BY DEF Carried

LEMMA CarriedTail ==
  ASSUME NEW S, NEW q \in Seq(S), q # <<>>
  PROVE  /\ Head(q) \in Carried(q) /\ Head(q) \in S
         /\ Tail(q) \in Seq(S)
         /\ Carried(Tail(q)) \subseteq Carried(q)
<1>1. Len(q) \in Nat /\ Len(q) > 0 /\ DOMAIN q = 1..Len(q) /\ Head(q) = q[1]
  OBVIOUS
<1>2. Tail(q) \in Seq(S) /\ Len(Tail(q)) = Len(q) - 1
  OBVIOUS
<1>3. \A i \in DOMAIN Tail(q) : i + 1 \in DOMAIN q /\ Tail(q)[i] = q[i + 1]
  BY <1>1, <1>2
<1>4. QED
  BY <1>1, <1>2, <1>3 DEF Carried

LEMMA CarriedNone == Carried(<<>>) = {}
BY DEF Carried

-----------------------------------------------------------------------------
\* Type correctness

\* One more frame on one of the wires; a connection that is none changes nothing.
LEMMA PushType ==
  ASSUME NEW S, NEW D, NEW w \in [D -> Seq(S)], NEW g, NEW f \in S
  PROVE  [w EXCEPT ![g] = Append(@, f)] \in [D -> Seq(S)]
<1>1. CASE g \in D
  <2>1. Append(w[g], f) \in Seq(S)
    BY <1>1
  <2>2. QED
    BY <1>1, <2>1
<1>2. CASE g \notin D
  BY <1>2
<1>3. QED
  BY <1>1, <1>2

LEMMA ToExtensionType ==
  ASSUME TypeOK, NEW g, NEW f \in DownFrames, ToExtension(g, f)
  PROVE  down' \in [Conns -> Seq(DownFrames)]
<1>1. down \in [Conns -> Seq(DownFrames)]
  BY DEF TypeOK
<1>2. [down EXCEPT ![g] = Append(@, f)] \in [Conns -> Seq(DownFrames)]
  BY <1>1, PushType
<1>3. QED
  BY <1>1, <1>2 DEF ToExtension

LEMMA ToDaemonType ==
  ASSUME TypeOK, NEW f \in UpFrames, ToDaemon(f)
  PROVE  up' \in [Conns -> Seq(UpFrames)]
<1>1. up \in [Conns -> Seq(UpFrames)]
  BY DEF TypeOK
<1>2. [up EXCEPT ![attached] = Append(@, f)] \in [Conns -> Seq(UpFrames)]
  BY <1>1, PushType
<1>3. QED
  BY <1>1, <1>2 DEF ToDaemon

LEMMA FrameTypes ==
  /\ \A s \in Starts : [op |-> "start", id |-> s] \in DownFrames
  /\ \A t \in Stops : [op |-> "stop", id |-> t] \in DownFrames
  /\ \A s \in Starts, w \in {"ok", "error"} : [op |-> "start", id |-> s, body |-> w] \in UpFrames
  /\ \A t \in Stops, w \in {"ok", "failed", "not_found"} :
       [op |-> "stop", id |-> t, body |-> w] \in UpFrames
  /\ \A s \in Starts : [op |-> "closed", id |-> s] \in UpFrames
BY DEF DownFrames, UpFrames

LEMMA FrameFields ==
  /\ \A f \in DownFrames : /\ f.op \in {"start", "stop"}
                           /\ f.op = "start" => f.id \in Starts
                           /\ f.op = "stop" => f.id \in Stops
  /\ \A f \in UpFrames : /\ f.op \in {"start", "stop", "closed"}
                         /\ f.op = "start" => f.id \in Starts /\ f.body \in {"ok", "error"}
                         /\ f.op = "stop" =>
                              f.id \in Stops /\ f.body \in {"ok", "failed", "not_found"}
                         /\ f.op = "closed" => f.id \in Starts
BY DEF DownFrames, UpFrames

LEMMA TypeInit == Init => TypeOK
BY LifecycleAssumption DEF Init, TypeOK, Conns, Tasks

\* What the steps of a start and of a stop do to their own variables.
LEMMA MoveType ==
  ASSUME TypeOK, NEW s \in Starts, pc[s] # "started",
         NEW p \in {"selected", "waiting", "granted", "committed", "failed"},
         pc' = [pc EXCEPT ![s] = p], UNCHANGED queue
  PROVE  /\ pc' \in [Starts -> {"new", "selected", "reserved", "waiting", "granted",
                                "committed", "started", "failed"}]
         /\ \A d \in Starts : queue'[d] # "absent" => pc'[d] = "started"
BY DEF TypeOK

LEMMA CancelledType ==
  ASSUME TypeOK, NEW s \in Starts, pc[s] # "started", Cancelled(s), UNCHANGED queue
  PROVE  /\ pc' \in [Starts -> {"new", "selected", "reserved", "waiting", "granted",
                                "committed", "started", "failed"}]
         /\ \A d \in Starts : queue'[d] # "absent" => pc'[d] = "started"
         /\ grant' \in [Starts -> {"none", "waiting", "ok", "error"}]
         /\ rows' \in SUBSET Starts
<1>1. pc' = [pc EXCEPT ![s] = "failed"]
  BY DEF Cancelled
<1>2. grant' \in [Starts -> {"none", "waiting", "ok", "error"}] /\ rows' \in SUBSET Starts
  BY DEF Cancelled, TypeOK
<1>3. QED
  BY <1>1, <1>2, MoveType

LEMMA GrantType ==
  ASSUME TypeOK, NEW s \in Starts, grant' = [grant EXCEPT ![s] = "waiting"]
  PROVE  grant' \in [Starts -> {"none", "waiting", "ok", "error"}]
<1>1. grant \in [Starts -> {"none", "waiting", "ok", "error"}]
  BY DEF TypeOK
<1>2. QED
  BY <1>1

\* The steps of session.start keep the types.
LEMMA TypeStart ==
  ASSUME TypeOK, NEW s \in Starts, StartSteps(s)
  PROVE  TypeOK'
<1> USE DEF TypeOK, registries, connVars, startVars, stopVars, wires, extVars
<1>1. CASE Select(s)
  BY <1>1 DEF Select
<1>2. CASE Reserve(s)
  BY <1>2 DEF Reserve
<1>3. CASE Send(s)
  <2>1. CASE conn[client[s]] = "done"
    BY <1>3, <2>1, CancelledType DEF Send
  <2>2. CASE conn[client[s]] # "done"
    <3>1. down' \in [Conns -> Seq(DownFrames)]
      BY <1>3, <2>2, ToExtensionType, FrameTypes DEF Send
    <3>2. pc' = [pc EXCEPT ![s] = "waiting"] /\ UNCHANGED queue /\ pc[s] # "started"
      BY <1>3, <2>2 DEF Send
    <3>3. grant' \in [Starts -> {"none", "waiting", "ok", "error"}]
      BY <1>3, <2>2, GrantType DEF Send
    <3>4. QED
      BY <1>3, <2>2, <3>1, <3>2, <3>3, MoveType DEF Send
  <2>3. QED
    BY <2>1, <2>2
<1>4. CASE Answered(s)
  <2>1. CASE pc' = [pc EXCEPT ![s] = "granted"] /\ UNCHANGED <<grant, rows>>
    BY <1>4, <2>1, MoveType DEF Answered
  <2>2. CASE Cancelled(s)
    BY <1>4, <2>2, CancelledType DEF Answered
  <2>3. QED
    BY <1>4, <2>1, <2>2 DEF Answered
<1>5. CASE Commit(s)
  BY <1>5 DEF Commit
<1>6. CASE Spawn(s)
  BY <1>6 DEF Spawn
<1>7. QED
  BY <1>1, <1>2, <1>3, <1>4, <1>5, <1>6 DEF StartSteps

StopPhases == {"new", "queued", "waiting", "removing", "dropping", "ok", "failed"}

LEMMA StopPhaseType ==
  ASSUME TypeOK, NEW t \in Stops,
         \E p \in StopPhases : stop' = [stop EXCEPT ![t] = p]
  PROVE  stop' \in [Stops -> StopPhases]
BY DEF TypeOK, StopPhases

\* A queue that is there stays, is closed or is reopened.
LEMMA QueueKeptType ==
  ASSUME TypeOK, NEW s \in Starts, UNCHANGED pc,
         \/ UNCHANGED queue
         \/ \E c \in {"absent", "accepting", "closing"} :
              /\ queue[s] # "absent" \/ c = "absent"
              /\ queue' = [queue EXCEPT ![s] = c]
  PROVE  /\ queue' \in [Starts -> {"absent", "accepting", "closing"}]
         /\ \A d \in Starts : queue'[d] # "absent" => pc'[d] = "started"
<1>1. queue \in [Starts -> {"absent", "accepting", "closing"}]
  BY DEF TypeOK
<1>2. queue' \in [Starts -> {"absent", "accepting", "closing"}]
  BY <1>1
<1>3. \A d \in Starts : queue'[d] # "absent" => queue[d] # "absent"
  BY <1>1
<1>4. QED
  BY <1>2, <1>3 DEF TypeOK

\* So do those of a stop.
LEMMA TypeStop ==
  ASSUME TypeOK, NEW t \in Stops, StopSteps(t)
  PROVE  TypeOK'
<1> USE LifecycleAssumption
<1>0. StopOf[t] \in Starts
  OBVIOUS
<1>1. CASE StopBegin(t)
  <2>1. \E p \in StopPhases : stop' = [stop EXCEPT ![t] = p]
    BY <1>1 DEF StopBegin, StopPhases
  <2>2. \/ UNCHANGED queue
        \/ queue[StopOf[t]] # "absent" /\ queue' = [queue EXCEPT ![StopOf[t]] = "closing"]
    BY <1>1 DEF StopBegin
  <2>3. UNCHANGED <<rows, connVars, startVars, via, verdict, wires, extVars>>
    BY <1>1 DEF StopBegin
  <2>4. QED
    BY <1>0, <2>1, <2>2, <2>3, StopPhaseType, QueueKeptType
      DEF TypeOK, StopPhases, connVars, startVars, wires, extVars
<1>2. CASE StopForward(t)
  <2>1. UNCHANGED <<registries, connVars, startVars, up, extVars>>
    BY <1>2 DEF StopForward
  <2>2. \E p \in StopPhases : stop' = [stop EXCEPT ![t] = p]
    BY <1>2 DEF StopForward, StopPhases
  <2>3. /\ via' \in [Stops -> Tasks]
        /\ verdict' \in [Stops -> {"none", "waiting", "ok", "failed", "not_found"}]
    <3>1. \/ UNCHANGED <<via, verdict>>
          \/ /\ via' = [via EXCEPT ![t] = registered]
             /\ verdict' = [verdict EXCEPT ![t] = "waiting"]
      BY <1>2 DEF StopForward
    <3>2. /\ registered \in Tasks /\ via \in [Stops -> Tasks]
          /\ verdict \in [Stops -> {"none", "waiting", "ok", "failed", "not_found"}]
      BY DEF TypeOK
    <3>3. QED
      BY <3>1, <3>2
  <2>4. \/ UNCHANGED down
        \/ ToExtension(registered, [op |-> "stop", id |-> t])
    BY <1>2 DEF StopForward
  <2>5. down' \in [Conns -> Seq(DownFrames)]
    <3>1. [op |-> "stop", id |-> t] \in DownFrames
      BY FrameTypes
    <3>2. QED
      BY <2>4, <3>1, ToExtensionType DEF TypeOK
  <2>6. QED
    BY <2>1, <2>2, <2>3, <2>5, StopPhaseType
      DEF TypeOK, StopPhases, registries, connVars, startVars, extVars
<1>3. CASE StopReturn(t)
  <2>1. UNCHANGED <<rows, connVars, startVars, wires, extVars>>
    BY <1>3 DEF StopReturn
  <2>2. \E p \in StopPhases : stop' = [stop EXCEPT ![t] = p]
    BY <1>3 DEF StopReturn, StopPhases
  <2>3. verdict' \in [Stops -> {"none", "waiting", "ok", "failed", "not_found"}]
    BY <1>3 DEF StopReturn, TypeOK
  <2>4. via' \in [Stops -> Tasks]
    <3>1. \E c \in {via[t], 0} : via' = [via EXCEPT ![t] = c]
      BY <1>3 DEF StopReturn
    <3>2. 0 \in Tasks /\ via \in [Stops -> Tasks]
      BY DEF Tasks, TypeOK
    <3>3. QED
      BY <3>1, <3>2
  <2>5. \/ UNCHANGED queue
        \/ queue' = [queue EXCEPT ![StopOf[t]] = IF @ = "absent" THEN @ ELSE "accepting"]
    BY <1>3 DEF StopReturn
  <2>6. QED
    BY <1>0, <2>1, <2>2, <2>3, <2>4, <2>5, StopPhaseType, QueueKeptType
      DEF TypeOK, StopPhases, connVars, startVars, wires, extVars
<1>4. CASE StopRemove(t)
  BY <1>4 DEF StopRemove, TypeOK, connVars, startVars, wires, extVars
<1>5. CASE StopDrop(t)
  BY <1>5 DEF StopDrop, TypeOK, connVars, startVars, wires, extVars
<1>6. QED
  BY <1>1, <1>2, <1>3, <1>4, <1>5 DEF StopSteps

\* A task that forgets sessions keeps the registries typed.
LEMMA ForgetType ==
  ASSUME TypeOK, NEW task \in Tasks, NEW ss, Forget(task, ss)
  PROVE  rows' \in SUBSET Starts /\ doomed' \in [Tasks -> SUBSET Starts]
BY DEF Forget, TypeOK

\* So do those of a connection's task.
LEMMA TypeConnection ==
  ASSUME TypeOK, NEW g \in Conns, Connection(g)
  PROVE  TypeOK'
<1> USE DEF TypeOK, registries, connVars, startVars, stopVars, wires, extVars
<1>0. g \in Tasks
  BY LifecycleAssumption DEF Conns, Tasks
<1>1. CASE HandshakePurge(g)
  BY <1>0, <1>1, ForgetType DEF HandshakePurge
<1>2. CASE Register(g)
  <2>1. UNCHANGED <<reaper, doomed, registries, startVars, stopVars, down, extVars>>
        /\ registered' = g
    BY <1>2 DEF Register
  <2>2. \E c \in {"up", "done"} : conn' = [conn EXCEPT ![g] = c]
    BY <1>2 DEF Register
  <2>3. up' \in [Conns -> Seq(UpFrames)]
    <3>1. up' = up \/ up' = [up EXCEPT ![g] = <<>>]
      BY <1>2 DEF Register
    <3>2. <<>> \in Seq(UpFrames)
      OBVIOUS
    <3>3. QED
      BY <3>1, <3>2
  <2>4. conn' \in [Conns -> {"unused", "greeting", "purging", "up", "lost",
                             "unregistered", "cleaning", "done"}]
    BY <2>2
  <2>5. registered' \in Tasks
    BY <1>0, <2>1
  <2>6. QED
    BY <2>1, <2>3, <2>4, <2>5
<1>3. CASE Pump(g)
  <2> DEFINE f == Head(up[g])
  <2>1. f \in UpFrames /\ Tail(up[g]) \in Seq(UpFrames)
    BY <1>3, CarriedTail DEF Pump
  <2>2. up' \in [Conns -> Seq(UpFrames)]
    BY <1>3, <2>1 DEF Pump
  <2>3. CASE f.op = "start"
    BY <1>3, <2>1, <2>2, <2>3, FrameFields DEF Pump
  <2>4. CASE f.op = "stop"
    <3>1. f.body \in {"ok", "failed", "not_found"}
      BY <2>1, <2>4, FrameFields
    <3>2. /\ verdict' = [verdict EXCEPT ![f.id] =
                            IF @ = "waiting" /\ via[f.id] = g THEN f.body ELSE @]
          /\ UNCHANGED <<grant, rows, doomed>>
      BY <1>3, <2>4 DEF Pump
    <3>3. verdict' \in [Stops -> {"none", "waiting", "ok", "failed", "not_found"}]
      BY <3>1, <3>2
    <3>4. UNCHANGED <<queue, registered, conn, reaper, pc, client, stop, via, down, extVars>>
      BY <1>3 DEF Pump
    <3>5. QED
      BY <2>2, <3>2, <3>3, <3>4
  <2>5. CASE f.op = "closed"
    BY <1>0, <1>3, <2>1, <2>2, <2>5, ForgetType DEF Pump
  <2>6. QED
    BY <1>3, <2>3, <2>4, <2>5 DEF Pump
<1>4. CASE SocketLost(g)
  BY <1>4 DEF SocketLost
<1>5. CASE Unregister(g)
  <2>1. 0 \in Tasks
    BY LifecycleAssumption DEF Tasks
  <2>2. registered' \in Tasks
    BY <1>5, <2>1 DEF Unregister
  <2>3. \E c \in {"unregistered", "done"} : conn' = [conn EXCEPT ![g] = c]
    BY <1>5 DEF Unregister
  <2>4. UNCHANGED <<reaper, doomed, registries, startVars, stopVars, wires, extVars>>
    BY <1>5 DEF Unregister
  <2>5. QED
    BY <2>2, <2>3, <2>4
<1>6. CASE CleanupPurge(g)
  BY <1>0, <1>6, ForgetType DEF CleanupPurge
<1>7. CASE TaskEnds(g)
  BY <1>7 DEF TaskEnds
<1>8. QED
  BY <1>1, <1>2, <1>3, <1>4, <1>5, <1>6, <1>7 DEF Connection

\* So do the other teardowns.
LEMMA TypeTeardown == TypeOK /\ Teardown => TypeOK'
<1> SUFFICES ASSUME TypeOK, Teardown PROVE TypeOK'
  OBVIOUS
<1> USE DEF TypeOK, registries, connVars, startVars, stopVars, wires, extVars
<1>0. 0 \in Tasks
  BY LifecycleAssumption DEF Tasks
<1>1. ASSUME NEW task \in Tasks, NEW s \in Starts, DropQueue(task, s)
      PROVE  TypeOK'
  BY <1>1 DEF DropQueue
<1>2. CASE ReapBrowser
  BY <1>0, <1>2 DEF ReapBrowser
<1>3. CASE ReapSessions
  BY <1>0, <1>3, ForgetType DEF ReapSessions
<1>4. QED
  BY <1>1, <1>2, <1>3 DEF Teardown

\* So does everything the extension does.
LEMMA TypeExtension == TypeOK /\ Extension => TypeOK'
<1> SUFFICES ASSUME TypeOK, Extension PROVE TypeOK'
  OBVIOUS
<1> USE DEF TypeOK, registries, connVars, startVars, stopVars, wires, extVars
<1>1. ASSUME NEW g \in Conns, ExtConnect(g)
      PROVE  TypeOK'
  BY <1>1, LifecycleAssumption DEF ExtConnect, Conns, Tasks
<1>2. CASE ExtDisconnect
  <2>1. attached' \in Tasks
    BY <1>2, LifecycleAssumption DEF ExtDisconnect, Tasks
  <2>2. sweeping' \in SUBSET Starts
    BY <1>2 DEF ExtDisconnect
  <2>3. <<>> \in Seq(DownFrames)
    OBVIOUS
  <2>4. down' \in [Conns -> Seq(DownFrames)]
    BY <1>2, <2>3 DEF ExtDisconnect
  <2>5. UNCHANGED <<registries, connVars, startVars, stopVars, up, window>>
    BY <1>2 DEF ExtDisconnect
  <2>6. QED
    BY <2>1, <2>2, <2>4, <2>5
<1>3. CASE ExtRestart
  BY <1>3, LifecycleAssumption DEF ExtRestart, Tasks
<1>4. CASE ExtReceive
  <2> DEFINE f == Head(down[attached])
  <2>1. attached \in Conns
    BY <1>4, LifecycleAssumption DEF ExtReceive, Conns, Tasks
  <2>2. f \in DownFrames /\ Tail(down[attached]) \in Seq(DownFrames)
    BY <1>4, <2>1, CarriedTail DEF ExtReceive
  <2>3. down' \in [Conns -> Seq(DownFrames)]
    BY <1>4, <2>2 DEF ExtReceive
  <2>4. CASE f.op = "start"
    <3>1. window' = [window EXCEPT ![f.id] = "opening"] /\ UNCHANGED up
      BY <1>4, <2>4 DEF ExtReceive
    <3>2. window' \in [Starts -> {"none", "opening", "open"}]
      BY <3>1
    <3>3. UNCHANGED <<registries, connVars, startVars, stopVars, attached, sweeping>>
      BY <1>4 DEF ExtReceive
    <3>4. QED
      BY <2>3, <3>1, <3>2, <3>3
  <2>5. CASE f.op # "start"
    <3>1. f.id \in Stops /\ StopOf[f.id] \in Starts
      BY <2>2, <2>5, FrameFields, LifecycleAssumption
    <3>2. PICK body \in {"ok", "failed", "not_found"} :
            /\ window' = [window EXCEPT ![StopOf[f.id]] = IF body = "ok" THEN "none" ELSE @]
            /\ ToDaemon([op |-> "stop", id |-> f.id, body |-> body])
      BY <1>4, <2>5 DEF ExtReceive
    <3>3. up' \in [Conns -> Seq(UpFrames)]
      BY <3>1, <3>2, ToDaemonType, FrameTypes
    <3>4. window' \in [Starts -> {"none", "opening", "open"}]
      BY <3>1, <3>2
    <3>5. QED
      BY <1>4, <2>3, <3>3, <3>4 DEF ExtReceive
  <2>6. QED
    BY <2>4, <2>5
<1>5. ASSUME NEW s \in Starts, ExtCleanup(s)
      PROVE  TypeOK'
  <2>1. window' \in [Starts -> {"none", "opening", "open"}]
    <3>1. PICK w \in {"none", window[s]} : window' = [window EXCEPT ![s] = w]
      BY <1>5 DEF ExtCleanup
    <3>2. w \in {"none", "opening", "open"}
      BY <3>1
    <3>3. QED
      BY <3>1, <3>2
  <2>2. sweeping' \in SUBSET Starts
    BY <1>5 DEF ExtCleanup
  <2>3. UNCHANGED <<registries, connVars, startVars, stopVars, wires, attached>>
    BY <1>5 DEF ExtCleanup
  <2>4. QED
    BY <2>1, <2>2, <2>3
<1>6. ASSUME NEW s \in Starts, ExtOpened(s)
      PROVE  TypeOK'
  <2>1. up' \in [Conns -> Seq(UpFrames)]
    BY <1>6, ToDaemonType, FrameTypes DEF ExtOpened
  <2>2. QED
    BY <1>6, <2>1 DEF ExtOpened
<1>7. ASSUME NEW s \in Starts, UserClosesWindow(s)
      PROVE  TypeOK'
  <2>1. up' \in [Conns -> Seq(UpFrames)]
    BY <1>7, ToDaemonType, FrameTypes DEF UserClosesWindow
  <2>2. QED
    BY <1>7, <2>1 DEF UserClosesWindow
<1>8. QED
  BY <1>1, <1>2, <1>3, <1>4, <1>5, <1>6, <1>7 DEF Extension

LEMMA TypeNext == TypeOK /\ [Next]_vars => TypeOK'
<1>1. TypeOK /\ UNCHANGED vars => TypeOK'
  BY DEF vars, TypeOK, registries, connVars, startVars, stopVars, wires, extVars
<1>2. QED
  BY <1>1, TypeStart, TypeStop, TypeConnection, TypeTeardown, TypeExtension DEF Next

\* Every variable keeps its shape, and no session that was not started has an
\* open queue, however the steps of its start, its stops and the connections
\* of its browser interleave.
THEOREM LifecycleTypes == Spec => []TypeOK
BY TypeInit, TypeNext, PTL DEF Spec

-----------------------------------------------------------------------------
\* What a step may do to a registration

\* A registration is replaced by another, or it goes because its own socket was
\* lost or it was found silent: the late cleanup of an older connection never
\* takes the registration of a newer one away.
THEOREM LateCleanupSparesRegistration == Spec => RegistrationGoesWithItsSocket
<1>1. ASSUME TypeOK, [Next]_vars, registered # 0, registered' = 0
      PROVE  conn[registered] = "lost" \/ reaper' = "purging"
  <2> USE <1>1
  <2>1. ASSUME NEW s \in Starts, StartSteps(s)
        PROVE  UNCHANGED registered
    BY <2>1 DEF StartSteps, Select, Reserve, Send, Answered, Commit, Spawn, connVars
  <2>2. ASSUME NEW t \in Stops, StopSteps(t)
        PROVE  UNCHANGED registered
    BY <2>2 DEF StopSteps, StopBegin, StopForward, StopReturn, StopRemove, StopDrop, connVars
  <2>3. ASSUME NEW g \in Conns, Connection(g)
        PROVE  conn[registered] = "lost"
    <3>1. CASE Register(g)
      BY <3>1, LifecycleAssumption DEF Register, Conns
    <3>2. CASE Unregister(g)
      BY <3>2 DEF Unregister
    <3>3. CASE HandshakePurge(g) \/ Pump(g) \/ SocketLost(g) \/ CleanupPurge(g) \/ TaskEnds(g)
      BY <3>3 DEF HandshakePurge, Pump, SocketLost, CleanupPurge, TaskEnds
    <3>4. QED
      BY <2>3, <3>1, <3>2, <3>3 DEF Connection
  <2>4. CASE Teardown
    BY <2>4 DEF Teardown, DropQueue, ReapBrowser, ReapSessions
  <2>5. CASE Extension
    BY <2>5 DEF Extension, ExtConnect, ExtDisconnect, ExtRestart, ExtReceive, ExtCleanup,
                ExtOpened, UserClosesWindow, connVars
  <2>6. CASE UNCHANGED vars
    BY <2>6 DEF vars, connVars
  <2>7. QED
    BY <2>1, <2>2, <2>3, <2>4, <2>5, <2>6 DEF Next
<1>2. TypeOK /\ [Next]_vars
        => [registered # 0 /\ registered' = 0
              => conn[registered] = "lost" \/ reaper' = "purging"]_vars
  BY <1>1
<1>3. QED
  BY <1>2, LifecycleTypes, PTL DEF Spec, RegistrationGoesWithItsSocket

-----------------------------------------------------------------------------
\* What a step may do to a row, to a start and to a queue

Listing == {"reserved", "waiting", "granted", "committed", "started"}

\* A row comes with the reservation of its start, ...
ReservedInv == \A s \in rows : pc[s] \in Listing

\* ... and once a task has removed it no step brings it back, so the queue that
\* is then dropped is that of no listed session.
RemovedInv ==
  /\ \A task \in Tasks : \A s \in doomed[task] : s \notin rows /\ pc[s] \notin {"new", "selected"}
  /\ \A t \in Stops :
       /\ stop[t] \in {"queued", "waiting", "removing", "dropping"}
            => pc[StopOf[t]] \notin {"new", "selected"}
       /\ stop[t] = "dropping" => StopOf[t] \notin rows

\* The two together are inductive, with the promise about queues.
ListingInv == TypeOK /\ ReservedInv /\ RemovedInv /\ ListedSessionHasQueue

\* How far a start may go in one step, and what that means for its row.
StartMove(s) ==
  /\ \/ pc'[s] = pc[s]
     \/ pc[s] = "new" /\ pc'[s] \in {"selected", "failed"} /\ rows' = rows
     \/ pc[s] = "selected" /\ pc'[s] = "reserved"
     \/ /\ pc[s] \in Listing /\ pc'[s] \in (Listing \ {"reserved"}) \cup {"failed"}
        /\ pc'[s] = "failed" => s \notin rows'
  /\ s \in rows' => s \in rows \/ (pc[s] = "selected" /\ pc'[s] = "reserved")

LEMMA StartMoves ==
  ASSUME TypeOK, [Next]_vars, NEW d \in Starts
  PROVE  StartMove(d)
<1> USE DEF StartMove
<1>0. pc \in [Starts -> {"new", "selected", "reserved", "waiting", "granted",
                         "committed", "started", "failed"}] /\ rows \in SUBSET Starts
  BY DEF TypeOK
<1>1. ASSUME NEW s \in Starts, StartSteps(s)
      PROVE  StartMove(d)
  <2>1. CASE Select(s)
    BY <1>0, <2>1 DEF Select, registries
  <2>2. CASE Reserve(s)
    BY <1>0, <2>2 DEF Reserve
  <2>3. CASE Send(s) \/ Answered(s)
    <3>1. pc[s] \in {"reserved", "waiting"}
      BY <2>3 DEF Send, Answered
    <3>2. \/ \E p \in {"waiting", "granted"} : pc' = [pc EXCEPT ![s] = p] /\ UNCHANGED rows
          \/ Cancelled(s)
      BY <2>3 DEF Send, Answered
    <3>3. QED
      BY <1>0, <3>1, <3>2 DEF Cancelled, Listing
  <2>4. CASE Commit(s)
    BY <1>0, <2>4 DEF Commit, registries, Listing
  <2>5. CASE Spawn(s)
    BY <1>0, <2>5 DEF Spawn, Listing
  <2>6. QED
    BY <1>1, <2>1, <2>2, <2>3, <2>4, <2>5 DEF StartSteps
<1>2. ASSUME UNCHANGED pc, rows' \subseteq rows
      PROVE  StartMove(d)
  BY <1>2
<1>3. ASSUME NEW t \in Stops, StopSteps(t)
      PROVE  UNCHANGED pc /\ rows' \subseteq rows
  BY <1>3 DEF StopSteps, StopBegin, StopForward, StopReturn, StopRemove, StopDrop,
              startVars, registries
<1>4. ASSUME NEW g \in Conns, Connection(g)
      PROVE  UNCHANGED pc /\ rows' \subseteq rows
  BY <1>4 DEF Connection, HandshakePurge, Register, Pump, SocketLost, Unregister,
              CleanupPurge, TaskEnds, Forget, startVars, registries
<1>5. ASSUME Teardown
      PROVE  UNCHANGED pc /\ rows' \subseteq rows
  BY <1>5 DEF Teardown, DropQueue, ReapBrowser, ReapSessions, Forget, startVars, registries
<1>6. ASSUME Extension
      PROVE  UNCHANGED pc /\ rows' \subseteq rows
  BY <1>6 DEF Extension, ExtConnect, ExtDisconnect, ExtRestart, ExtReceive, ExtCleanup,
              ExtOpened, UserClosesWindow, startVars, registries
<1>7. ASSUME UNCHANGED vars
      PROVE  UNCHANGED pc /\ rows' \subseteq rows
  BY <1>7 DEF vars, startVars, registries
<1>8. QED
  BY <1>1, <1>2, <1>3, <1>4, <1>5, <1>6, <1>7 DEF Next

\* A queue is taken away only by a task that has removed its session before.
LEMMA QueueMoves ==
  ASSUME TypeOK, [Next]_vars, NEW d \in Starts, queue[d] # "absent", queue'[d] = "absent"
  PROVE  /\ pc'[d] = pc[d] /\ rows' = rows
         /\ \/ \E task \in Tasks : d \in doomed[task]
            \/ \E t \in Stops : stop[t] = "dropping" /\ StopOf[t] = d
<1>0. queue \in [Starts -> {"absent", "accepting", "closing"}] /\ StopOf \in [Stops -> Starts]
  BY LifecycleAssumption DEF TypeOK
<1>1. ASSUME NEW s \in Starts, StartSteps(s)
      PROVE  FALSE
  BY <1>0, <1>1 DEF StartSteps, Select, Reserve, Send, Answered, Commit, Spawn, registries
<1>2. ASSUME NEW t \in Stops, StopSteps(t)
      PROVE  stop[t] = "dropping" /\ StopOf[t] = d /\ UNCHANGED <<pc, rows>>
  <2>1. CASE StopBegin(t) \/ StopForward(t) \/ StopReturn(t) \/ StopRemove(t)
    <3>1. \/ UNCHANGED queue
          \/ queue' = [queue EXCEPT ![StopOf[t]] = "closing"]
          \/ queue' = [queue EXCEPT ![StopOf[t]] = IF @ = "absent" THEN @ ELSE "accepting"]
      BY <2>1 DEF StopBegin, StopForward, StopReturn, StopRemove, registries
    <3>2. QED
      BY <1>0, <3>1
  <2>2. CASE StopDrop(t)
    BY <1>0, <2>2 DEF StopDrop, startVars
  <2>3. QED
    BY <1>2, <2>1, <2>2 DEF StopSteps
<1>3. ASSUME NEW g \in Conns, Connection(g)
      PROVE  FALSE
  BY <1>3 DEF Connection, HandshakePurge, Register, Pump, SocketLost, Unregister,
              CleanupPurge, TaskEnds, registries
<1>4. CASE Teardown
  <2>1. ASSUME NEW task \in Tasks, NEW s \in Starts, DropQueue(task, s)
        PROVE  d \in doomed[task] /\ UNCHANGED <<pc, rows>>
    BY <1>0, <2>1 DEF DropQueue, startVars
  <2>2. ASSUME ReapBrowser \/ ReapSessions
        PROVE  FALSE
    BY <2>2 DEF ReapBrowser, ReapSessions, registries
  <2>3. QED
    BY <1>4, <2>1, <2>2 DEF Teardown
<1>5. ASSUME Extension
      PROVE  FALSE
  BY <1>5 DEF Extension, ExtConnect, ExtDisconnect, ExtRestart, ExtReceive, ExtCleanup,
              ExtOpened, UserClosesWindow, registries
<1>6. ASSUME UNCHANGED vars
      PROVE  FALSE
  BY <1>6 DEF vars, registries
<1>7. QED
  BY <1>1, <1>2, <1>3, <1>4, <1>5, <1>6 DEF Next

\* What a task is to drop was a row until it removed it.
LEMMA DoomedMoves ==
  ASSUME TypeOK, [Next]_vars, NEW task \in Tasks, NEW d \in doomed'[task]
  PROVE  \/ d \in doomed[task]
         \/ d \in rows /\ d \notin rows' /\ pc' = pc
<1>0. doomed \in [Tasks -> SUBSET Starts]
  BY DEF TypeOK
<1> DEFINE Doomed == \/ d \in doomed[task]
                     \/ d \in rows /\ d \notin rows' /\ pc' = pc
<1>1. ASSUME NEW s \in Starts, StartSteps(s)
      PROVE  UNCHANGED doomed
  BY <1>1 DEF StartSteps, Select, Reserve, Send, Answered, Commit, Spawn, connVars
<1>2. ASSUME NEW t \in Stops, StopSteps(t)
      PROVE  UNCHANGED doomed
  BY <1>2 DEF StopSteps, StopBegin, StopForward, StopReturn, StopRemove, StopDrop, connVars
<1>3. ASSUME NEW other \in Tasks, NEW ss, Forget(other, ss), UNCHANGED pc
      PROVE  Doomed
  BY <1>0, <1>3 DEF Forget
<1>4. ASSUME NEW g \in Conns, Connection(g)
      PROVE  Doomed
  <2>0. g \in Tasks
    BY LifecycleAssumption DEF Conns, Tasks
  <2>1. \/ UNCHANGED doomed
        \/ UNCHANGED pc /\ \E ss : Forget(g, ss)
    BY <1>4 DEF Connection, HandshakePurge, Register, Pump, SocketLost, Unregister,
                CleanupPurge, TaskEnds, startVars
  <2>2. QED
    BY <1>3, <2>0, <2>1
<1>5. CASE Teardown
  <2>1. ASSUME NEW other \in Tasks, NEW s \in Starts, DropQueue(other, s)
        PROVE  Doomed
    BY <1>0, <2>1 DEF DropQueue
  <2>2. CASE ReapBrowser
    BY <2>2 DEF ReapBrowser
  <2>3. CASE ReapSessions
    <3>1. 0 \in Tasks
      BY LifecycleAssumption DEF Tasks
    <3>2. QED
      BY <1>3, <2>3, <3>1 DEF ReapSessions, startVars
  <2>4. QED
    BY <1>5, <2>1, <2>2, <2>3 DEF Teardown
<1>6. ASSUME Extension
      PROVE  UNCHANGED doomed
  BY <1>6 DEF Extension, ExtConnect, ExtDisconnect, ExtRestart, ExtReceive, ExtCleanup,
              ExtOpened, UserClosesWindow, connVars
<1>7. CASE UNCHANGED vars
  BY <1>7 DEF vars, connVars
<1>8. QED
  BY <1>1, <1>2, <1>4, <1>5, <1>6, <1>7 DEF Next

\* A stop is about a session that was started, and drops it after its row.
LEMMA StopMoves ==
  ASSUME TypeOK, [Next]_vars, NEW u \in Stops,
         stop'[u] \in {"queued", "waiting", "removing", "dropping"}
  PROVE  /\ \/ stop[u] \in {"queued", "waiting", "removing", "dropping"}
            \/ pc[StopOf[u]] \in {"started", "failed"} /\ pc' = pc
         /\ stop'[u] = "dropping" =>
              stop[u] = "dropping" \/ (StopOf[u] \notin rows' /\ pc' = pc)
<1> DEFINE Active == {"queued", "waiting", "removing", "dropping"}
           Moved == /\ \/ stop[u] \in Active
                       \/ pc[StopOf[u]] \in {"started", "failed"} /\ pc' = pc
                    /\ stop'[u] = "dropping" =>
                         stop[u] = "dropping" \/ (StopOf[u] \notin rows' /\ pc' = pc)
<1>0. stop \in [Stops -> StopPhases] /\ StopOf \in [Stops -> Starts]
  BY LifecycleAssumption DEF TypeOK, StopPhases
<1>1. ASSUME NEW s \in Starts, StartSteps(s)
      PROVE  UNCHANGED stop
  BY <1>1 DEF StartSteps, Select, Reserve, Send, Answered, Commit, Spawn, stopVars
<1>2. ASSUME NEW t \in Stops, StopSteps(t)
      PROVE  Moved
  <2>1. CASE StopBegin(t)
    <3>1. /\ stop' = [stop EXCEPT ![t] = stop'[t]]
          /\ stop'[t] \in Active => stop'[t] # "dropping" /\ pc[StopOf[t]] \in {"started", "failed"}
      BY <1>0, <2>1 DEF StopBegin, TypeOK
    <3>2. QED
      BY <1>0, <2>1, <3>1 DEF StopBegin, startVars
  <2>2. CASE StopForward(t) \/ StopReturn(t)
    <3>1. /\ stop[t] \in Active
          /\ \E p \in StopPhases \ {"dropping"} : stop' = [stop EXCEPT ![t] = p]
      BY <2>2 DEF StopForward, StopReturn, StopPhases
    <3>2. QED
      BY <1>0, <3>1
  <2>3. CASE StopRemove(t)
    BY <1>0, <2>3 DEF StopRemove, startVars
  <2>4. CASE StopDrop(t)
    BY <1>0, <2>4 DEF StopDrop
  <2>5. QED
    BY <1>2, <2>1, <2>2, <2>3, <2>4 DEF StopSteps
<1>3. ASSUME NEW g \in Conns, Connection(g)
      PROVE  UNCHANGED stop
  BY <1>3 DEF Connection, HandshakePurge, Register, Pump, SocketLost, Unregister,
              CleanupPurge, TaskEnds, stopVars
<1>4. ASSUME Teardown
      PROVE  UNCHANGED stop
  BY <1>4 DEF Teardown, DropQueue, ReapBrowser, ReapSessions, stopVars
<1>5. ASSUME Extension
      PROVE  UNCHANGED stop
  BY <1>5 DEF Extension, ExtConnect, ExtDisconnect, ExtRestart, ExtReceive, ExtCleanup,
              ExtOpened, UserClosesWindow, stopVars
<1>6. ASSUME UNCHANGED vars
      PROVE  UNCHANGED stop
  BY <1>6 DEF vars, stopVars
<1>7. QED
  BY <1>1, <1>2, <1>3, <1>4, <1>5, <1>6 DEF Next

\* A start that becomes "started" has its queue.
LEMMA SpawnMakesQueue ==
  ASSUME TypeOK, [Next]_vars, NEW d \in Starts, pc[d] # "started", pc'[d] = "started"
  PROVE  queue'[d] # "absent"
<1>0. pc \in [Starts -> {"new", "selected", "reserved", "waiting", "granted",
                         "committed", "started", "failed"}]
      /\ queue \in [Starts -> {"absent", "accepting", "closing"}]
  BY DEF TypeOK
<1>1. ASSUME NEW s \in Starts, StartSteps(s)
      PROVE  queue'[d] # "absent"
  <2>1. CASE Spawn(s)
    BY <1>0, <2>1 DEF Spawn
  <2>2. ASSUME ~Spawn(s)
        PROVE  FALSE
    <3>1. \E p \in {"selected", "reserved", "waiting", "granted", "committed", "failed"} :
             pc' = [pc EXCEPT ![s] = p]
      BY <1>1, <2>2 DEF StartSteps, Select, Reserve, Send, Answered, Commit, Cancelled
    <3>2. QED
      BY <1>0, <3>1
  <2>3. QED
    BY <2>1, <2>2
<1>2. ASSUME UNCHANGED pc
      PROVE  FALSE
  BY <1>2
<1>3. ASSUME NEW t \in Stops, StopSteps(t)
      PROVE  UNCHANGED pc
  BY <1>3 DEF StopSteps, StopBegin, StopForward, StopReturn, StopRemove, StopDrop, startVars
<1>4. ASSUME NEW g \in Conns, Connection(g)
      PROVE  UNCHANGED pc
  BY <1>4 DEF Connection, HandshakePurge, Register, Pump, SocketLost, Unregister,
              CleanupPurge, TaskEnds, startVars
<1>5. ASSUME Teardown
      PROVE  UNCHANGED pc
  BY <1>5 DEF Teardown, DropQueue, ReapBrowser, ReapSessions, startVars
<1>6. ASSUME Extension
      PROVE  UNCHANGED pc
  BY <1>6 DEF Extension, ExtConnect, ExtDisconnect, ExtRestart, ExtReceive, ExtCleanup,
              ExtOpened, UserClosesWindow, startVars
<1>7. ASSUME UNCHANGED vars
      PROVE  UNCHANGED pc
  BY <1>7 DEF vars, startVars
<1>8. QED
  BY <1>1, <1>2, <1>3, <1>4, <1>5, <1>6, <1>7 DEF Next

-----------------------------------------------------------------------------
\* Rows, queues and starts

LEMMA ListingInit == Init => ListingInv
<1>1. ASSUME Init
      PROVE  ReservedInv /\ RemovedInv /\ ListedSessionHasQueue
  BY <1>1 DEF Init, ReservedInv, RemovedInv, ListedSessionHasQueue
<1>2. QED
  BY <1>1, TypeInit DEF ListingInv

LEMMA ListingNext == ListingInv /\ [Next]_vars => ListingInv'
<1> SUFFICES ASSUME ListingInv, [Next]_vars PROVE ListingInv'
  OBVIOUS
<1>0. TypeOK /\ ReservedInv /\ RemovedInv /\ ListedSessionHasQueue /\ TypeOK'
  BY TypeNext DEF ListingInv
<1>1. /\ rows \in SUBSET Starts /\ rows' \in SUBSET Starts
      /\ doomed' \in [Tasks -> SUBSET Starts]
      /\ StopOf \in [Stops -> Starts]
  BY <1>0, LifecycleAssumption DEF TypeOK
<1>2. \A d \in Starts : StartMove(d)
  BY <1>0, StartMoves
<1>3. ASSUME NEW d \in Starts, pc[d] \notin {"new", "selected"}
      PROVE  pc'[d] \notin {"new", "selected"} /\ (d \notin rows => d \notin rows')
  BY <1>2, <1>3 DEF StartMove, Listing
<1>4. ReservedInv'
  <2>1. ASSUME NEW d \in rows'
        PROVE  pc'[d] \in Listing
    <3>1. StartMove(d) /\ (d \in rows => pc[d] \in Listing)
      BY <1>0, <1>1, <1>2, <2>1 DEF ReservedInv
    <3>2. QED
      BY <2>1, <3>1 DEF StartMove, Listing
  <2>2. QED
    BY <2>1 DEF ReservedInv
<1>5. ASSUME NEW task \in Tasks, NEW d \in doomed'[task]
      PROVE  d \notin rows' /\ pc'[d] \notin {"new", "selected"}
  <2>1. d \in Starts
    BY <1>1, <1>5
  <2>2. CASE d \in doomed[task]
    BY <1>0, <1>3, <2>1, <2>2 DEF RemovedInv
  <2>3. CASE d \in rows /\ d \notin rows' /\ pc' = pc
    BY <1>0, <2>3 DEF ReservedInv, Listing
  <2>4. QED
    BY <1>0, <2>2, <2>3, DoomedMoves
<1>6. ASSUME NEW t \in Stops, stop'[t] \in {"queued", "waiting", "removing", "dropping"}
      PROVE  /\ pc'[StopOf[t]] \notin {"new", "selected"}
             /\ stop'[t] = "dropping" => StopOf[t] \notin rows'
  <2>1. StopOf[t] \in Starts
    BY <1>1
  <2>2. pc[StopOf[t]] \notin {"new", "selected"}
    BY <1>0, <1>6, StopMoves DEF RemovedInv
  <2>3. ASSUME stop'[t] = "dropping", StopOf[t] \in rows'
        PROVE  FALSE
    BY <1>0, <1>3, <1>6, <2>1, <2>2, <2>3, StopMoves DEF RemovedInv
  <2>4. QED
    BY <1>3, <2>1, <2>2, <2>3
<1>7. ListedSessionHasQueue'
  <2>1. ASSUME NEW d \in rows', pc'[d] = "started", queue'[d] = "absent"
        PROVE  FALSE
    <3>0. d \in Starts
      BY <1>1
    <3>1. CASE queue[d] # "absent"
      BY <1>0, <2>1, <3>0, <3>1, QueueMoves DEF RemovedInv
    <3>2. CASE queue[d] = "absent"
      <4>1. d \in rows
        BY <1>2, <2>1, <3>0 DEF StartMove
      <4>2. pc[d] # "started"
        BY <1>0, <3>2, <4>1 DEF ListedSessionHasQueue
      <4>3. QED
        BY <1>0, <2>1, <3>0, <4>2, SpawnMakesQueue
    <3>3. QED
      BY <3>1, <3>2
  <2>2. QED
    BY <2>1 DEF ListedSessionHasQueue
<1>8. QED
  BY <1>0, <1>4, <1>5, <1>6, <1>7 DEF ListingInv, RemovedInv

\* A session the CLI was given can be used: while it is listed it has a queue.
\* Whatever order the stop, the purges, the reapers and the window-closed event
\* take their two steps in, the queue goes after the row and never with a row
\* left behind.
THEOREM ListedSessionsHaveQueues == Spec => []ListedSessionHasQueue
<1>1. ListingInv => ListedSessionHasQueue
  BY DEF ListingInv
<1>2. QED
  BY <1>1, ListingInit, ListingNext, PTL DEF Spec

\* A start that failed leaves no placeholder and no worker, on every one of its
\* error paths and however a teardown interferes.
THEOREM FailedStartsLeaveNothing == Spec => []FailedStartLeavesNothing
<1>1. ListingInv => FailedStartLeavesNothing
  BY DEF ListingInv, ReservedInv, Listing, TypeOK, FailedStartLeavesNothing
<1>2. QED
  BY <1>1, ListingInit, ListingNext, PTL DEF Spec

-----------------------------------------------------------------------------
\* The order of connections

Unborn(g) == conn[g] \in {"unused", "greeting"}
Met(g)    == conn[g] \notin {"unused", "greeting", "purging"}

\* Sockets are opened one after the other, the extension is on the latest of them,
\* and what is registered has been met.
ConnInv ==
  /\ \A g, h \in Conns : g < h /\ conn[h] # "unused" => conn[g] # "unused"
  /\ attached # 0 => /\ conn[attached] # "unused"
                     /\ \A h \in Conns : attached < h => conn[h] = "unused"
  /\ registered # 0 => Met(registered)

\* The registered connection is the latest that was met, ...
NewestInv == registered # 0 => \A h \in Conns : registered < h => ~Met(h)

\* ... as long as no handshake is completed after that of a newer connection.
NoneOvertaken == \A g, h \in Conns : Register(g) /\ g < h => ~Met(h)

\* Where the daemon's task of a connection may go in one step.
ConnMove(g) ==
  \/ conn'[g] = conn[g]
  \/ conn[g] = "unused" /\ conn'[g] = "greeting"
  \/ conn[g] = "greeting" /\ conn'[g] = "purging" /\ rows' = {}
  \/ conn[g] = "purging" /\ conn'[g] \in {"up", "done"}
  \/ Met(g) /\ Met(g)'

\* Only these steps change where the daemon's task of a connection is.
LEMMA ConnSteps ==
  ASSUME TypeOK, [Next]_vars, NEW g \in Conns, conn'[g] # conn[g]
  PROVE  \/ ExtConnect(g) \/ HandshakePurge(g) \/ Register(g)
         \/ Met(g) /\ Met(g)'
<1>0. conn \in [Conns -> {"unused", "greeting", "purging", "up", "lost",
                          "unregistered", "cleaning", "done"}]
  BY DEF TypeOK
<1> DEFINE Step == \/ ExtConnect(g) \/ HandshakePurge(g) \/ Register(g)
                   \/ Met(g) /\ Met(g)'
<1>1. ASSUME NEW s \in Starts, StartSteps(s)
      PROVE  UNCHANGED conn
  BY <1>1 DEF StartSteps, Select, Reserve, Send, Answered, Commit, Spawn, connVars
<1>2. ASSUME NEW t \in Stops, StopSteps(t)
      PROVE  UNCHANGED conn
  BY <1>2 DEF StopSteps, StopBegin, StopForward, StopReturn, StopRemove, StopDrop, connVars
<1>3. ASSUME NEW h \in Conns, Connection(h)
      PROVE  Step
  <2>1. CASE HandshakePurge(h) \/ Register(h)
    <3>1. \E c \in {"purging", "up", "done"} : conn' = [conn EXCEPT ![h] = c]
      BY <2>1 DEF HandshakePurge, Register
    <3>2. g = h
      BY <1>0, <3>1
    <3>3. QED
      BY <2>1, <3>2
  <2>2. CASE Pump(h)
    BY <2>2 DEF Pump
  <2>3. CASE SocketLost(h) \/ Unregister(h) \/ CleanupPurge(h) \/ TaskEnds(h)
    <3>1. /\ conn[h] \in {"up", "lost", "unregistered", "cleaning"}
          /\ \E c \in {"lost", "unregistered", "cleaning", "done"} :
               conn' = [conn EXCEPT ![h] = c]
      BY <2>3 DEF SocketLost, Pumping, Unregister, CleanupPurge, TaskEnds
    <3>2. QED
      BY <1>0, <3>1 DEF Met
  <2>4. QED
    BY <1>3, <2>1, <2>2, <2>3 DEF Connection
<1>4. ASSUME Teardown
      PROVE  UNCHANGED conn
  BY <1>4 DEF Teardown, DropQueue, ReapBrowser, ReapSessions
<1>5. CASE Extension
  <2>1. ASSUME NEW h \in Conns, ExtConnect(h)
        PROVE  Step
    <3>1. g = h
      BY <1>0, <2>1 DEF ExtConnect
    <3>2. QED
      BY <2>1, <3>1
  <2>2. ASSUME \A h \in Conns : ~ExtConnect(h)
        PROVE  UNCHANGED conn
    BY <1>5, <2>2 DEF Extension, ExtDisconnect, ExtRestart, ExtReceive, ExtCleanup,
                      ExtOpened, UserClosesWindow, connVars
  <2>3. QED
    BY <2>1, <2>2
<1>6. ASSUME UNCHANGED vars
      PROVE  UNCHANGED conn
  BY <1>6 DEF vars, connVars
<1>7. QED
  BY <1>1, <1>2, <1>3, <1>4, <1>5, <1>6 DEF Next

LEMMA ConnMoves ==
  ASSUME TypeOK, [Next]_vars, NEW g \in Conns
  PROVE  ConnMove(g)
<1>0. conn \in [Conns -> {"unused", "greeting", "purging", "up", "lost",
                          "unregistered", "cleaning", "done"}]
  BY DEF TypeOK
<1>1. CASE ExtConnect(g)
  BY <1>0, <1>1 DEF ExtConnect, ConnMove
<1>2. CASE HandshakePurge(g)
  BY <1>0, <1>2 DEF HandshakePurge, Forget, ConnMove
<1>3. CASE Register(g)
  BY <1>0, <1>3 DEF Register, ConnMove
<1>4. QED
  BY <1>1, <1>2, <1>3, ConnSteps DEF ConnMove

\* A task leaves "unused", "greeting" and "purging" by one action each.
LEMMA ConnectOpens ==
  ASSUME TypeOK, [Next]_vars, NEW g \in Conns, conn[g] = "unused", conn'[g] # "unused"
  PROVE  ExtConnect(g)
BY ConnSteps DEF HandshakePurge, Register, ExtConnect, Met

LEMMA RegisterRegisters ==
  ASSUME TypeOK, [Next]_vars, NEW g \in Conns, conn[g] = "purging", conn'[g] # "purging"
  PROVE  registered' = g
BY ConnSteps DEF HandshakePurge, Register, ExtConnect, Met

\* Where the registration and the extension's side of the socket may go.
LEMMA RegistrationMoves ==
  ASSUME TypeOK, [Next]_vars
  PROVE  /\ registered' \in {registered, 0}
            \/ \E g \in Conns : Register(g) /\ registered' = g
         /\ attached' \in {attached, 0}
            \/ \E g \in Conns : ExtConnect(g)
<1> DEFINE Kept == registered' \in {registered, 0} /\ attached' \in {attached, 0}
<1>1. ASSUME NEW s \in Starts, StartSteps(s)
      PROVE  Kept
  BY <1>1 DEF StartSteps, Select, Reserve, Send, Answered, Commit, Spawn, connVars, extVars
<1>2. ASSUME NEW t \in Stops, StopSteps(t)
      PROVE  Kept
  BY <1>2 DEF StopSteps, StopBegin, StopForward, StopReturn, StopRemove, StopDrop,
              connVars, extVars
<1>3. ASSUME NEW g \in Conns, Connection(g)
      PROVE  /\ attached' = attached
             /\ registered' \in {registered, 0} \/ (Register(g) /\ registered' = g)
  <2>1. CASE Register(g)
    BY <2>1 DEF Register, extVars
  <2>2. CASE HandshakePurge(g) \/ Pump(g) \/ SocketLost(g) \/ Unregister(g)
                \/ CleanupPurge(g) \/ TaskEnds(g)
    BY <2>2 DEF HandshakePurge, Pump, SocketLost, Unregister, CleanupPurge, TaskEnds, extVars
  <2>3. QED
    BY <1>3, <2>1, <2>2 DEF Connection
<1>4. ASSUME Teardown
      PROVE  Kept
  BY <1>4 DEF Teardown, DropQueue, ReapBrowser, ReapSessions, extVars
<1>5. ASSUME Extension
      PROVE  /\ registered' = registered
             /\ attached' \in {attached, 0} \/ \E g \in Conns : ExtConnect(g)
  BY <1>5 DEF Extension, ExtConnect, ExtDisconnect, ExtRestart, ExtReceive, ExtCleanup,
              ExtOpened, UserClosesWindow, connVars
<1>6. ASSUME UNCHANGED vars
      PROVE  Kept
  BY <1>6 DEF vars, connVars, extVars
<1>7. QED
  BY <1>1, <1>2, <1>3, <1>4, <1>5, <1>6 DEF Next

LEMMA ConnInit == Init => ConnInv
BY DEF Init, ConnInv, Unborn, Met

LEMMA ConnNext ==
  ASSUME TypeOK, ConnInv, [Next]_vars
  PROVE  ConnInv'
<1>0. /\ conn \in [Conns -> {"unused", "greeting", "purging", "up", "lost",
                             "unregistered", "cleaning", "done"}]
      /\ attached \in Tasks /\ registered \in Tasks
      /\ \A g \in Conns : g \in Nat
      /\ \A g \in Tasks : g # 0 => g \in Conns
  BY LifecycleAssumption DEF TypeOK, Conns, Tasks
<1>1. \A g \in Conns : ConnMove(g)
  BY ConnMoves
<1>2. \A g \in Conns : /\ conn[g] # "unused" => conn'[g] # "unused"
                       /\ Met(g) => Met(g)'
  BY <1>1 DEF ConnMove, Met
<1>3. ASSUME NEW g \in Conns, conn[g] = "unused", conn'[g] # "unused"
      PROVE  ExtConnect(g)
  BY <1>3, ConnectOpens
<1>4. ASSUME NEW g \in Conns, NEW h \in Conns, g < h, conn'[h] # "unused"
      PROVE  conn'[g] # "unused"
  <2>1. CASE conn[h] # "unused"
    BY <1>2, <1>4, <2>1 DEF ConnInv
  <2>2. CASE conn[h] = "unused"
    BY <1>2, <1>3, <1>4, <2>2 DEF ExtConnect
  <2>3. QED
    BY <2>1, <2>2
<1>5. ASSUME attached' # 0
      PROVE  /\ conn'[attached'] # "unused"
             /\ \A h \in Conns : attached' < h => conn'[h] = "unused"
  <2>1. CASE attached' = attached
    <3>1. attached \in Conns
      BY <1>0, <1>5, <2>1
    <3>2. conn'[attached] # "unused"
      BY <1>2, <1>5, <2>1, <3>1 DEF ConnInv
    <3>3. \A h \in Conns : attached < h => conn'[h] = "unused"
      BY <1>3, <1>5, <2>1 DEF ConnInv, ExtConnect
    <3>4. QED
      BY <2>1, <3>2, <3>3
  <2>2. ASSUME NEW g \in Conns, ExtConnect(g)
        PROVE  /\ conn'[attached'] # "unused"
               /\ \A h \in Conns : attached' < h => conn'[h] = "unused"
    <3>1. attached' = g /\ conn' = [conn EXCEPT ![g] = "greeting"] /\ conn[g] = "unused"
      BY <2>2 DEF ExtConnect
    <3>2. \A h \in Conns : g < h => conn[h] = "unused"
      BY <3>1 DEF ConnInv
    <3>3. QED
      BY <1>0, <3>1, <3>2
  <2>3. QED
    BY <1>5, <2>1, <2>2, RegistrationMoves
<1>6. ASSUME registered' # 0
      PROVE  Met(registered)'
  <2>1. CASE registered' = registered
    BY <1>0, <1>2, <1>6, <2>1 DEF ConnInv, Met
  <2>2. ASSUME NEW g \in Conns, Register(g), registered' = g
        PROVE  Met(registered)'
    BY <1>0, <2>2 DEF Register, Met
  <2>3. QED
    BY <1>6, <2>1, <2>2, RegistrationMoves
<1>7. QED
  BY <1>4, <1>5, <1>6 DEF ConnInv

LEMMA NewestNext ==
  ASSUME TypeOK, ConnInv, NewestInv, [Next]_vars, UNCHANGED vars \/ NoneOvertaken
  PROVE  NewestInv'
<1>0. /\ conn \in [Conns -> {"unused", "greeting", "purging", "up", "lost",
                             "unregistered", "cleaning", "done"}]
      /\ registered \in Tasks /\ \A g \in Conns : g \in Nat
      /\ \A g \in Tasks : g # 0 => g \in Conns
  BY LifecycleAssumption DEF TypeOK, Conns, Tasks
<1> SUFFICES ASSUME registered' # 0, NEW h \in Conns, registered' < h, Met(h)'
             PROVE  FALSE
  BY DEF NewestInv
<1>1. ConnMove(h)
  BY ConnMoves
<1>2. CASE registered' = registered
  <2>1. conn[h] = "purging" /\ conn'[h] # "purging"
    BY <1>1, <1>2 DEF ConnMove, NewestInv, Met
  <2>2. registered' = h
    BY <2>1, RegisterRegisters
  <2>3. QED
    BY <1>0, <1>2, <2>2
<1>3. ASSUME NEW g \in Conns, Register(g), registered' = g
      PROVE  FALSE
  <2>1. conn[g] = "purging" /\ \E c \in {"up", "done"} : conn' = [conn EXCEPT ![g] = c]
    BY <1>3 DEF Register
  <2>2. conn'[h] = conn[h]
    BY <1>0, <1>3, <2>1
  <2>3. CASE UNCHANGED vars
    BY <1>0, <2>1, <2>3 DEF vars, connVars
  <2>4. CASE NoneOvertaken
    BY <1>3, <2>2, <2>4 DEF NoneOvertaken, Met
  <2>5. QED
    BY <2>3, <2>4
<1>4. QED
  BY <1>2, <1>3, RegistrationMoves

-----------------------------------------------------------------------------
\* The frames of a start

StartFrame(f, s) == f.op = "start" /\ f.id = s

\* The request of start s, and an answer to it, is on a wire.
Going(s)     == \E g \in Conns : \E f \in Carried(down[g]) : StartFrame(f, s)
Coming(g, s) == g \in Conns /\ \E f \in Carried(up[g]) : StartFrame(f, s)

\* What the extension receives is a frame of the wire it is attached to.
LEMMA Received ==
  ASSUME TypeOK, ExtReceive
  PROVE  /\ attached \in Conns
         /\ Head(down[attached]) \in DownFrames
         /\ Head(down[attached]) \in Carried(down[attached])
<1>1. attached # 0 /\ down[attached] # <<>>
  BY DEF ExtReceive
<1>2. attached \in Tasks /\ down \in [Conns -> Seq(DownFrames)]
  BY DEF TypeOK
<1>3. attached \in Conns
  BY <1>1, <1>2, LifecycleAssumption DEF Tasks, Conns
<1>4. QED
  BY <1>1, <1>2, <1>3, CarriedTail

LEMMA PushedDown ==
  ASSUME TypeOK, NEW c, NEW x \in DownFrames, down' = [down EXCEPT ![c] = Append(@, x)],
         NEW g \in Conns, NEW f \in Carried(down'[g])
  PROVE  f \in Carried(down[g]) \/ (f = x /\ g = c)
<1>0. down \in [Conns -> Seq(DownFrames)]
  BY DEF TypeOK
<1>1. CASE g = c
  <2>1. down'[g] = Append(down[g], x)
    BY <1>0, <1>1
  <2>2. Carried(down'[g]) \subseteq Carried(down[g]) \cup {x}
    BY <1>0, <2>1, CarriedAppend
  <2>3. QED
    BY <1>1, <2>2
<1>2. CASE g # c
  BY <1>0, <1>2
<1>3. QED
  BY <1>1, <1>2

LEMMA PushedUp ==
  ASSUME TypeOK, NEW c, NEW x \in UpFrames, up' = [up EXCEPT ![c] = Append(@, x)],
         NEW g \in Conns, NEW f \in Carried(up'[g])
  PROVE  f \in Carried(up[g]) \/ (f = x /\ g = c)
<1>0. up \in [Conns -> Seq(UpFrames)]
  BY DEF TypeOK
<1>1. CASE g = c
  <2>1. up'[g] = Append(up[g], x)
    BY <1>0, <1>1
  <2>2. Carried(up'[g]) \subseteq Carried(up[g]) \cup {x}
    BY <1>0, <2>1, CarriedAppend
  <2>3. QED
    BY <1>1, <2>2
<1>2. CASE g # c
  BY <1>0, <1>2
<1>3. QED
  BY <1>1, <1>2

LEMMA ReadCarried ==
  ASSUME NEW S, NEW w \in [Conns -> Seq(S)], NEW c \in Conns, w[c] # <<>>, NEW g \in Conns,
         NEW f \in Carried([w EXCEPT ![c] = Tail(@)][g])
  PROVE  f \in Carried(w[g])
<1>1. CASE g = c
  <2>1. [w EXCEPT ![c] = Tail(@)][g] = Tail(w[g])
    BY <1>1
  <2>2. f \in Carried(Tail(w[g]))
    BY <2>1
  <2>3. QED
    BY <1>1, <2>2, CarriedTail
<1>2. CASE g # c
  BY <1>2
<1>3. QED
  BY <1>1, <1>2

\* A request is put on a wire by the Send of its start.
LEMMA DownMoves ==
  ASSUME TypeOK, [Next]_vars, NEW g \in Conns, NEW f \in Carried(down'[g]), f.op = "start"
  PROVE  \/ f \in Carried(down[g])
         \/ f.id \in Starts /\ pc[f.id] = "reserved" /\ pc'[f.id] = "waiting"
<1> DEFINE Old == f \in Carried(down[g])
<1>0. /\ down \in [Conns -> Seq(DownFrames)]
      /\ pc \in [Starts -> {"new", "selected", "reserved", "waiting", "granted",
                            "committed", "started", "failed"}]
  BY DEF TypeOK
<1>1. ASSUME NEW s \in Starts, StartSteps(s)
      PROVE  Old \/ (f.id \in Starts /\ pc[f.id] = "reserved" /\ pc'[f.id] = "waiting")
  <2>1. ASSUME ~UNCHANGED down
        PROVE  /\ down' = [down EXCEPT ![client[s]] = Append(@, [op |-> "start", id |-> s])]
               /\ pc[s] = "reserved" /\ pc' = [pc EXCEPT ![s] = "waiting"]
    BY <1>1, <2>1 DEF StartSteps, Select, Reserve, Send, Answered, Commit, Spawn, wires,
                      ToExtension
  <2>2. CASE UNCHANGED down
    BY <2>2
  <2>3. CASE ~UNCHANGED down
    <3>1. [op |-> "start", id |-> s] \in DownFrames
      BY FrameTypes
    <3>2. Old \/ f = [op |-> "start", id |-> s]
      BY <2>1, <2>3, <3>1, PushedDown
    <3>3. QED
      BY <1>0, <2>1, <2>3, <3>2
  <2>4. QED
    BY <2>2, <2>3
<1>2. ASSUME NEW t \in Stops, StopSteps(t)
      PROVE  Old
  <2>1. \/ UNCHANGED down
        \/ ToExtension(registered, [op |-> "stop", id |-> t])
    BY <1>2 DEF StopSteps, StopBegin, StopForward, StopReturn, StopRemove, StopDrop, wires
  <2>2. [op |-> "stop", id |-> t] \in DownFrames
    BY FrameTypes
  <2>3. \/ down' = down
        \/ down' = [down EXCEPT ![registered] = Append(@, [op |-> "stop", id |-> t])]
    BY <2>1 DEF ToExtension
  <2>4. Old \/ f = [op |-> "stop", id |-> t]
    BY <2>2, <2>3, PushedDown
  <2>5. QED
    BY <2>4
<1>3. ASSUME NEW h \in Conns, Connection(h)
      PROVE  UNCHANGED down
  BY <1>3 DEF Connection, HandshakePurge, Register, Pump, SocketLost, Unregister,
              CleanupPurge, TaskEnds, wires
<1>4. ASSUME Teardown
      PROVE  UNCHANGED down
  BY <1>4 DEF Teardown, DropQueue, ReapBrowser, ReapSessions, wires
<1>5. CASE Extension
  <2>1. \/ UNCHANGED down
        \/ \A h \in Conns : down'[h] \in {down[h], <<>>}
        \/ attached # 0 /\ down[attached] # <<>> /\ down' = [down EXCEPT ![attached] = Tail(@)]
    <3>1. CASE ExtDisconnect
      BY <1>0, <3>1 DEF ExtDisconnect
    <3>2. CASE ExtRestart
      BY <1>0, <3>2 DEF ExtRestart
    <3>3. CASE ExtReceive
      BY <3>3 DEF ExtReceive
    <3>4. CASE \/ \E h \in Conns : ExtConnect(h)
               \/ \E s \in Starts : ExtCleanup(s) \/ ExtOpened(s) \/ UserClosesWindow(s)
      BY <3>4 DEF ExtConnect, ExtCleanup, ExtOpened, UserClosesWindow, wires
    <3>5. QED
      BY <1>5, <3>1, <3>2, <3>3, <3>4 DEF Extension
  <2>2. attached # 0 => attached \in Conns
    BY LifecycleAssumption DEF TypeOK, Conns, Tasks
  <2>3. QED
    BY <1>0, <2>1, <2>2, ReadCarried, CarriedNone
<1>6. ASSUME UNCHANGED vars
      PROVE  UNCHANGED down
  BY <1>6 DEF vars, wires
<1>7. QED
  BY <1>1, <1>2, <1>3, <1>4, <1>5, <1>6 DEF Next

\* A session's entry in the extension comes from its start's request, and has a
\* window only after it was opening.
LEMMA WindowMoves ==
  ASSUME TypeOK, [Next]_vars, NEW d \in Starts
  PROVE  /\ window'[d] = "opening" =>
              \/ window[d] = "opening"
              \/ ExtReceive /\ StartFrame(Head(down[attached]), d)
         /\ window'[d] = "open" => window[d] \in {"opening", "open"}
<1> DEFINE Moved == /\ window'[d] = "opening" =>
                         \/ window[d] = "opening"
                         \/ ExtReceive /\ StartFrame(Head(down[attached]), d)
                    /\ window'[d] = "open" => window[d] \in {"opening", "open"}
<1>0. window \in [Starts -> {"none", "opening", "open"}] /\ StopOf \in [Stops -> Starts]
  BY LifecycleAssumption DEF TypeOK
<1>1. ASSUME NEW s \in Starts, StartSteps(s)
      PROVE  UNCHANGED window
  BY <1>1 DEF StartSteps, Select, Reserve, Send, Answered, Commit, Spawn, extVars
<1>2. ASSUME NEW t \in Stops, StopSteps(t)
      PROVE  UNCHANGED window
  BY <1>2 DEF StopSteps, StopBegin, StopForward, StopReturn, StopRemove, StopDrop, extVars
<1>3. ASSUME NEW h \in Conns, Connection(h)
      PROVE  UNCHANGED window
  BY <1>3 DEF Connection, HandshakePurge, Register, Pump, SocketLost, Unregister,
              CleanupPurge, TaskEnds, extVars
<1>4. ASSUME Teardown
      PROVE  UNCHANGED window
  BY <1>4 DEF Teardown, DropQueue, ReapBrowser, ReapSessions, extVars
<1>5. CASE Extension
  <2>1. CASE ExtReceive
    <3> DEFINE f == Head(down[attached])
    <3>1. CASE f.op = "start"
      <4>1. window' = [window EXCEPT ![f.id] = "opening"]
        BY <2>1, <3>1 DEF ExtReceive
      <4>2. window'[d] = window[d] \/ (f.id = d /\ window'[d] = "opening")
        BY <1>0, <4>1
      <4>3. QED
        BY <2>1, <3>1, <4>2 DEF StartFrame
    <3>2. CASE f.op # "start"
      <4>1. \E body : window' = [window EXCEPT ![StopOf[f.id]] = IF body = "ok" THEN "none" ELSE @]
        BY <2>1, <3>2 DEF ExtReceive
      <4>2. window'[d] \in {window[d], "none"}
        BY <1>0, <4>1
      <4>3. QED
        BY <4>2
    <3>3. QED
      BY <3>1, <3>2
  <2>2. CASE \/ ExtDisconnect \/ ExtRestart
             \/ \E h \in Conns : ExtConnect(h)
    BY <1>0, <2>2 DEF ExtDisconnect, ExtRestart, ExtConnect
  <2>3. ASSUME NEW s \in Starts, ExtCleanup(s) \/ ExtOpened(s) \/ UserClosesWindow(s)
        PROVE  Moved
    <3>1. \E w : /\ window' = [window EXCEPT ![s] = w]
                 /\ w \in {"none", window[s]} \/ (window[s] = "opening" /\ w = "open")
      BY <2>3 DEF ExtCleanup, ExtOpened, UserClosesWindow
    <3>2. QED
      BY <1>0, <3>1
  <2>4. QED
    BY <1>5, <2>1, <2>2, <2>3 DEF Extension
<1>6. ASSUME UNCHANGED vars
      PROVE  UNCHANGED window
  BY <1>6 DEF vars, extVars
<1>7. QED
  BY <1>1, <1>2, <1>3, <1>4, <1>5, <1>6 DEF Next

\* The request that opens a window is under way until then.
LEMMA OpeningGoes ==
  ASSUME TypeOK, NEW d \in Starts, ExtReceive, StartFrame(Head(down[attached]), d)
  PROVE  Going(d)
<1>1. attached \in Conns /\ down[attached] \in Seq(DownFrames) /\ down[attached] # <<>>
  BY LifecycleAssumption DEF ExtReceive, TypeOK, Conns, Tasks
<1>2. Head(down[attached]) \in Carried(down[attached])
  BY <1>1, CarriedTail
<1>3. QED
  BY <1>1, <1>2 DEF Going

\* An answer goes on the connection of the moment, when the window is there.
LEMMA UpMoves ==
  ASSUME TypeOK, [Next]_vars, NEW g \in Conns, NEW f \in Carried(up'[g]), f.op = "start"
  PROVE  \/ f \in Carried(up[g])
         \/ /\ f.id \in Starts /\ ExtOpened(f.id)
            /\ g = attached /\ UNCHANGED <<conn, pc, client, rows>>
<1> DEFINE Old == f \in Carried(up[g])
<1>0. up \in [Conns -> Seq(UpFrames)]
  BY DEF TypeOK
<1>1. ASSUME NEW s \in Starts, StartSteps(s)
      PROVE  UNCHANGED up
  BY <1>1 DEF StartSteps, Select, Reserve, Send, Answered, Commit, Spawn, wires
<1>2. ASSUME NEW t \in Stops, StopSteps(t)
      PROVE  UNCHANGED up
  BY <1>2 DEF StopSteps, StopBegin, StopForward, StopReturn, StopRemove, StopDrop, wires
<1>3. ASSUME NEW h \in Conns, Connection(h)
      PROVE  Old
  <2>1. CASE Pump(h)
    BY <1>0, <2>1, ReadCarried DEF Pump
  <2>2. CASE SocketLost(h) \/ Register(h)
    <3>1. up' = up \/ up' = [up EXCEPT ![h] = <<>>]
      BY <2>2 DEF SocketLost, Register
    <3>2. QED
      BY <1>0, <3>1, CarriedNone
  <2>3. CASE HandshakePurge(h) \/ Unregister(h) \/ CleanupPurge(h) \/ TaskEnds(h)
    BY <2>3 DEF HandshakePurge, Unregister, CleanupPurge, TaskEnds, wires
  <2>4. QED
    BY <1>3, <2>1, <2>2, <2>3 DEF Connection
<1>4. ASSUME Teardown
      PROVE  UNCHANGED up
  BY <1>4 DEF Teardown, DropQueue, ReapBrowser, ReapSessions, wires
<1>5. ASSUME NEW x \in UpFrames, ToDaemon(x)
      PROVE  Old \/ (f = x /\ g = attached)
  <2>1. CASE up' = up
    BY <2>1
  <2>2. CASE up' = [up EXCEPT ![attached] = Append(@, x)]
    BY <2>2, PushedUp
  <2>3. QED
    BY <1>5, <2>1, <2>2 DEF ToDaemon
<1>6. CASE Extension
  <2>1. CASE ExtReceive
    <3> DEFINE x == Head(down[attached])
    <3>1. x \in DownFrames
      BY <2>1, Received
    <3>2. CASE x.op = "start"
      BY <2>1, <3>2 DEF ExtReceive
    <3>3. CASE x.op # "start"
      <4>1. PICK body \in {"ok", "failed", "not_found"} :
              ToDaemon([op |-> "stop", id |-> x.id, body |-> body])
        BY <2>1, <3>3 DEF ExtReceive
      <4>2. [op |-> "stop", id |-> x.id, body |-> body] \in UpFrames
        BY <3>1, <3>3, FrameFields, FrameTypes
      <4>3. f # [op |-> "stop", id |-> x.id, body |-> body]
        OBVIOUS
      <4>4. QED
        BY <1>5, <4>1, <4>2, <4>3
    <3>4. QED
      BY <3>2, <3>3
  <2>2. ASSUME NEW s \in Starts, ExtOpened(s)
        PROVE  \/ Old
               \/ /\ f.id \in Starts /\ ExtOpened(f.id)
                  /\ g = attached /\ UNCHANGED <<conn, pc, client, rows>>
    <3>1. PICK body \in {"ok", "error"} : ToDaemon([op |-> "start", id |-> s, body |-> body])
      BY <2>2 DEF ExtOpened
    <3>2. [op |-> "start", id |-> s, body |-> body] \in UpFrames
      BY FrameTypes
    <3>3. Old \/ (f = [op |-> "start", id |-> s, body |-> body] /\ g = attached)
      BY <1>5, <3>1, <3>2
    <3>4. UNCHANGED <<conn, pc, client, rows>>
      BY <2>2 DEF ExtOpened, registries, connVars, startVars
    <3>5. QED
      BY <2>2, <3>3, <3>4
  <2>3. ASSUME NEW s \in Starts, UserClosesWindow(s)
        PROVE  Old
    <3>1. [op |-> "closed", id |-> s] \in UpFrames /\ f # [op |-> "closed", id |-> s]
      BY FrameTypes
    <3>2. QED
      BY <1>5, <2>3, <3>1 DEF UserClosesWindow
  <2>4. CASE \/ ExtDisconnect \/ ExtRestart
             \/ \E h \in Conns : ExtConnect(h)
             \/ \E s \in Starts : ExtCleanup(s)
    BY <2>4 DEF ExtDisconnect, ExtRestart, ExtConnect, ExtCleanup, wires
  <2>5. QED
    BY <1>6, <2>1, <2>2, <2>3, <2>4 DEF Extension
<1>7. ASSUME UNCHANGED vars
      PROVE  UNCHANGED up
  BY <1>7 DEF vars, wires
<1>8. QED
  BY <1>1, <1>2, <1>3, <1>4, <1>6, <1>7 DEF Next

-----------------------------------------------------------------------------
\* What a start knows, and from whom

\* A start's client is chosen once, its slot is filled by an answer on that
\* client's wire only, and it is granted only by a slot so filled.
LEMMA AnswerMoves ==
  ASSUME TypeOK, [Next]_vars, NEW d \in Starts
  PROVE  /\ client'[d] = client[d] \/ (pc[d] = "new" /\ client'[d] = registered /\ conn' = conn)
         /\ \/ grant'[d] = grant[d]
            \/ pc'[d] \in {"waiting", "failed"} /\ grant'[d] # "ok"
            \/ grant[d] = "waiting" /\ Coming(client[d], d)
         /\ pc'[d] \in {"granted", "committed", "started"} =>
              pc[d] \in {"granted", "committed", "started"} \/ grant[d] = "ok"
<1> DEFINE ClientOk == client'[d] = client[d] \/ (pc[d] = "new" /\ client'[d] = registered /\ conn' = conn)
           GrantOk == \/ grant'[d] = grant[d]
                      \/ pc'[d] \in {"waiting", "failed"} /\ grant'[d] # "ok"
                      \/ grant[d] = "waiting" /\ Coming(client[d], d)
           PcOk == pc'[d] \in {"granted", "committed", "started"} =>
                     pc[d] \in {"granted", "committed", "started"} \/ grant[d] = "ok"
<1>0. /\ pc \in [Starts -> {"new", "selected", "reserved", "waiting", "granted",
                            "committed", "started", "failed"}]
      /\ grant \in [Starts -> {"none", "waiting", "ok", "error"}]
      /\ client \in [Starts -> Tasks]
      /\ up \in [Conns -> Seq(UpFrames)]
  BY DEF TypeOK
<1>1. ASSUME NEW s \in Starts, StartSteps(s)
      PROVE  ClientOk /\ GrantOk /\ PcOk
  <2>1. CASE Select(s)
    BY <1>0, <2>1 DEF Select, connVars
  <2>2. CASE Send(s) \/ Answered(s)
    <3>1. /\ client' = client
          /\ \/ \E p \in {"waiting", "granted"} :
                  /\ pc' = [pc EXCEPT ![s] = p]
                  /\ p = "waiting" => grant' = [grant EXCEPT ![s] = "waiting"]
                  /\ p = "granted" => grant[s] = "ok" /\ grant' = grant
             \/ pc' = [pc EXCEPT ![s] = "failed"] /\ grant' = [grant EXCEPT ![s] = "none"]
      BY <2>2 DEF Send, Answered, Cancelled
    <3>2. QED
      BY <1>0, <3>1
  <2>3. CASE Reserve(s) \/ Commit(s) \/ Spawn(s)
    <3>1. /\ client' = client /\ grant' = grant
          /\ \E p \in {"reserved", "committed", "started", "failed"} :
               /\ pc' = [pc EXCEPT ![s] = p]
               /\ p \in {"committed", "started"} => pc[s] \in {"granted", "committed"}
      BY <2>3 DEF Reserve, Commit, Spawn
    <3>2. QED
      BY <1>0, <3>1
  <2>4. QED
    BY <1>1, <2>1, <2>2, <2>3 DEF StartSteps
<1>2. ASSUME NEW t \in Stops, StopSteps(t)
      PROVE  UNCHANGED <<pc, client, grant>>
  BY <1>2 DEF StopSteps, StopBegin, StopForward, StopReturn, StopRemove, StopDrop, startVars
<1>3. ASSUME NEW g \in Conns, Connection(g)
      PROVE  ClientOk /\ GrantOk /\ PcOk
  <2>1. CASE Pump(g)
    <3> DEFINE f == Head(up[g])
    <3>1. UNCHANGED <<pc, client>>
      BY <2>1 DEF Pump
    <3>2. f \in Carried(up[g])
      BY <1>0, <2>1, CarriedTail DEF Pump
    <3>3. CASE f.op = "start"
      <4>1. grant' = [grant EXCEPT ![f.id] =
                        IF @ = "waiting" /\ client[f.id] = g THEN f.body ELSE @]
        BY <2>1, <3>3 DEF Pump
      <4>2. ASSUME grant'[d] # grant[d]
            PROVE  f.id = d /\ grant[d] = "waiting" /\ client[d] = g
        BY <1>0, <4>1, <4>2
      <4>3. QED
        BY <3>1, <3>2, <3>3, <4>2 DEF Coming, StartFrame
    <3>4. CASE f.op # "start"
      BY <2>1, <3>1, <3>4 DEF Pump
    <3>5. QED
      BY <3>3, <3>4
  <2>2. ASSUME ~Pump(g)
        PROVE  UNCHANGED <<pc, client, grant>>
    BY <1>3, <2>2 DEF Connection, HandshakePurge, Register, SocketLost, Unregister,
                      CleanupPurge, TaskEnds, startVars
  <2>3. QED
    BY <2>1, <2>2
<1>4. ASSUME Teardown
      PROVE  UNCHANGED <<pc, client, grant>>
  BY <1>4 DEF Teardown, DropQueue, ReapBrowser, ReapSessions, startVars
<1>5. ASSUME Extension
      PROVE  UNCHANGED <<pc, client, grant>>
  BY <1>5 DEF Extension, ExtConnect, ExtDisconnect, ExtRestart, ExtReceive, ExtCleanup,
              ExtOpened, UserClosesWindow, startVars
<1>6. ASSUME UNCHANGED vars
      PROVE  UNCHANGED <<pc, client, grant>>
  BY <1>6 DEF vars, startVars
<1>7. QED
  BY <1>1, <1>2, <1>3, <1>4, <1>5, <1>6 DEF Next

\* Before its request goes out nothing of a start is anywhere.
FreshInv ==
  \A s \in Starts : pc[s] \in {"new", "selected", "reserved"} =>
    /\ grant[s] = "none" /\ window[s] = "none"
    /\ ~Going(s) /\ \A g \in Conns : ~Coming(g, s)

\* A start's client had been met by the daemon.
StartInv == FreshInv /\ \A s \in Starts : client[s] # 0 => Met(client[s])

\* The extension was, on the connection of start s, told and has answered.
Contact(s) ==
  \/ grant[s] = "ok"
  \/ pc[s] \in {"granted", "committed", "started"}
  \/ Coming(client[s], s)

\* A row whose start the extension has answered is from before every connection
\* the daemon is still to meet: the purge of a handshake takes the older ones.
RowInv ==
  \A s \in rows : Contact(s) => \A g \in Conns : client[s] < g => Unborn(g)

LEMMA FreshInit == Init => FreshInv
<1> SUFFICES ASSUME Init PROVE FreshInv
  OBVIOUS
<1>1. \A g \in Conns : Carried(down[g]) = {} /\ Carried(up[g]) = {}
  BY CarriedNone DEF Init
<1>2. \A s \in Starts : ~Going(s) /\ \A g \in Conns : ~Coming(g, s)
  BY <1>1 DEF Going, Coming
<1>3. QED
  BY <1>2 DEF Init, FreshInv

LEMMA StartInit == Init => StartInv
BY FreshInit DEF Init, StartInv

LEMMA FreshNext ==
  ASSUME TypeOK, FreshInv, [Next]_vars
  PROVE  FreshInv'
<1> SUFFICES ASSUME NEW s \in Starts, pc'[s] \in {"new", "selected", "reserved"}
             PROVE  /\ grant'[s] = "none" /\ window'[s] = "none"
                    /\ ~Going(s)' /\ \A g \in Conns : ~Coming(g, s)'
  BY DEF FreshInv
<1>1. pc[s] \in {"new", "selected", "reserved"}
  BY StartMoves DEF StartMove, Listing
<1>2. /\ grant[s] = "none" /\ window[s] = "none"
      /\ ~Going(s) /\ \A g \in Conns : ~Coming(g, s)
  BY <1>1 DEF FreshInv
<1>3. grant'[s] = "none"
  BY <1>2, AnswerMoves
<1>4. window'[s] = "none"
  <2>1. window' \in [Starts -> {"none", "opening", "open"}]
    BY TypeNext DEF TypeOK
  <2>2. window'[s] \notin {"opening", "open"}
    BY <1>2, WindowMoves, OpeningGoes
  <2>3. QED
    BY <2>1, <2>2
<1>5. ~Going(s)'
  BY <1>2, DownMoves DEF Going, StartFrame
<1>6. \A g \in Conns : ~Coming(g, s)'
  BY <1>2, UpMoves DEF Coming, StartFrame, ExtOpened
<1>7. QED
  BY <1>3, <1>4, <1>5, <1>6

LEMMA StartNext ==
  ASSUME TypeOK, ConnInv, StartInv, [Next]_vars
  PROVE  StartInv'
<1> SUFFICES ASSUME NEW s \in Starts, client'[s] # 0
             PROVE  Met(client[s])'
  BY FreshNext DEF StartInv
<1>0. client \in [Starts -> Tasks] /\ \A g \in Tasks : g # 0 => g \in Conns
  BY LifecycleAssumption DEF TypeOK, Tasks, Conns
<1>1. \A g \in Conns : Met(g) => Met(g)'
  BY ConnMoves DEF ConnMove, Met
<1>2. CASE client'[s] = client[s]
  BY <1>0, <1>1, <1>2 DEF StartInv, Met
<1>3. CASE client'[s] = registered /\ conn' = conn
  BY <1>3 DEF ConnInv, Met
<1>4. QED
  BY <1>2, <1>3, AnswerMoves

\* An answer that is there after a step was there before it, or it is sent now,
\* on the connection the extension is on.
LEMMA ContactMoves ==
  ASSUME TypeOK, [Next]_vars, NEW s \in Starts, client'[s] = client[s], Contact(s)'
  PROVE  Contact(s) \/ (client[s] = attached /\ attached # 0 /\ conn' = conn)
<1>1. CASE grant'[s] = "ok"
  BY <1>1, AnswerMoves DEF Contact
<1>2. CASE pc'[s] \in {"granted", "committed", "started"}
  BY <1>2, AnswerMoves DEF Contact
<1>3. CASE Coming(client[s], s)'
  <2>1. PICK f \in Carried(up'[client[s]]) : StartFrame(f, s)
    BY <1>3 DEF Coming
  <2>2. client[s] \in Conns /\ client[s] # 0
    BY <1>3, LifecycleAssumption DEF Coming, Conns
  <2>3. QED
    BY <2>1, <2>2, UpMoves DEF Contact, Coming, StartFrame
<1>4. QED
  BY <1>1, <1>2, <1>3 DEF Contact

LEMMA RowNext ==
  ASSUME TypeOK, ReservedInv, ConnInv, StartInv, StartInv', RowInv, [Next]_vars
  PROVE  RowInv'
<1> SUFFICES ASSUME NEW s \in rows', Contact(s)', NEW g \in Conns, client'[s] < g
             PROVE  Unborn(g)'
  BY DEF RowInv
<1>0. s \in Starts /\ rows \in SUBSET Starts
  BY TypeNext DEF TypeOK
<1>1. Unborn(g) => Unborn(g)'
  BY ConnMoves DEF ConnMove, Unborn, Met
<1>2. CASE s \notin rows
  <2>1. pc'[s] = "reserved"
    BY <1>0, <1>2, StartMoves DEF StartMove
  <2>2. ~Contact(s)'
    BY <1>0, <2>1 DEF StartInv, FreshInv, Contact, Coming
  <2>3. QED
    BY <2>2
<1>3. CASE s \in rows
  <2>1. client'[s] = client[s]
    BY <1>0, <1>3, AnswerMoves DEF ReservedInv, Listing
  <2>2. CASE Contact(s)
    BY <1>1, <1>3, <2>1, <2>2 DEF RowInv
  <2>3. CASE client[s] = attached /\ attached # 0 /\ conn' = conn
    BY <2>1, <2>3 DEF ConnInv, Unborn
  <2>4. QED
    BY <1>0, <2>1, <2>2, <2>3, ContactMoves
<1>4. QED
  BY <1>2, <1>3

RowsInv == ListingInv /\ ConnInv /\ StartInv /\ RowInv

LEMMA RowsInit == Init => RowsInv
BY ListingInit, ConnInit, StartInit DEF Init, RowInv, RowsInv

LEMMA RowsNext == RowsInv /\ [Next]_vars => RowsInv'
<1> SUFFICES ASSUME RowsInv, [Next]_vars PROVE RowsInv'
  OBVIOUS
<1>1. TypeOK /\ ReservedInv /\ ConnInv /\ StartInv /\ RowInv
  BY DEF RowsInv, ListingInv
<1>2. ListingInv'
  BY ListingNext DEF RowsInv
<1>3. ConnInv'
  BY <1>1, ConnNext
<1>4. StartInv'
  BY <1>1, StartNext
<1>5. RowInv'
  BY <1>1, <1>4, RowNext
<1>6. QED
  BY <1>2, <1>3, <1>4, <1>5 DEF RowsInv

LEMMA RowsTellNotOlder == RowsInv => RowsAreNotOlder
<1> SUFFICES ASSUME RowsInv, NEW s \in Starts, Started(s), registered # 0
             PROVE  ~(client[s] < registered)
  BY DEF RowsAreNotOlder
<1>1. registered \in Conns /\ Met(registered)
  BY LifecycleAssumption DEF RowsInv, ListingInv, TypeOK, ConnInv, Tasks, Conns
<1>2. QED
  BY <1>1 DEF RowsInv, Started, RowInv, Contact, Unborn, Met

\* No session of an older connection is listed once a newer one is registered, in
\* whatever order the handshakes are met: neither the cleanup task of the old
\* connection nor a start under way on its client nor a late answer brings one in.
THEOREM RowsAreNeverOlder == Spec => []RowsAreNotOlder
BY RowsInit, RowsNext, RowsTellNotOlder, PTL DEF Spec

\* Nor is one of a newer connection, unless a handshake is completed after that of
\* a newer connection and its registration replaces the newer one: this is all that
\* can list a session under a registration it was not started on.
THEOREM RowsFollowTheConnection ==
  Spec /\ [][NoneOvertaken]_vars => []RowsAreOfTheConnection
<1>1. Init => NewestInv
  BY DEF Init, NewestInv
<1>2. RowsInv /\ NewestInv /\ [Next]_vars /\ [NoneOvertaken]_vars => NewestInv'
  BY NewestNext DEF RowsInv, ListingInv
<1>3. RowsInv /\ NewestInv => RowsAreOfTheConnection
  <2> SUFFICES ASSUME RowsInv, NewestInv, NEW s \in Starts, Started(s), registered # 0
               PROVE  client[s] = registered
    BY DEF RowsAreOfTheConnection
  <2>1. /\ client[s] \in Tasks /\ registered \in Conns
        /\ \A c \in Tasks : c \in Nat /\ (c # 0 => c \in Conns)
        /\ \A c \in Conns : c \in Nat
    BY LifecycleAssumption DEF RowsInv, ListingInv, TypeOK, Tasks, Conns
  <2>2. ~(client[s] < registered)
    BY RowsTellNotOlder DEF RowsAreNotOlder
  <2>3. ~(registered < client[s])
    BY <2>1 DEF RowsInv, StartInv, NewestInv
  <2>4. QED
    BY <2>1, <2>2, <2>3
<1>4. QED
  BY <1>1, <1>2, <1>3, RowsInit, RowsNext, PTL DEF Spec

-----------------------------------------------------------------------------
\* A start settles before it counts as started

\* The extension has answered start s.
Told(s) ==
  \/ \E g \in Conns : Coming(g, s)
  \/ grant[s] = "ok"
  \/ pc[s] \in {"granted", "committed", "started"}

\* A request is on the wires once.
OnceInv ==
  \A s \in Starts : \A g, h \in Conns : \A i \in DOMAIN down[g], j \in DOMAIN down[h] :
    StartFrame(down[g][i], s) /\ StartFrame(down[h][j], s) => g = h /\ i = j

\* Who was answered is neither asked again nor about to open a window.
SettleInv ==
  \A s \in Starts :
    /\ window[s] # "none" \/ Told(s) => ~Going(s)
    /\ Told(s) => window[s] # "opening"

\* What a step does to the requests under way: one is sent by its start, the one
\* at the head is read, some are lost.
LEMMA DownSteps ==
  ASSUME TypeOK, [Next]_vars
  PROVE  \/ \A g \in Conns : down'[g] \in {down[g], <<>>}
         \/ \E s \in Starts :
              /\ pc[s] = "reserved"
              /\ down' = [down EXCEPT ![client[s]] = Append(@, [op |-> "start", id |-> s])]
         \/ \E t \in Stops :
              /\ stop[t] = "queued"
              /\ down' = [down EXCEPT ![registered] = Append(@, [op |-> "stop", id |-> t])]
         \/ ExtReceive
<1> DEFINE Step == \/ \A g \in Conns : down'[g] \in {down[g], <<>>}
                   \/ \E s \in Starts :
                        /\ pc[s] = "reserved"
                        /\ down' = [down EXCEPT ![client[s]] = Append(@, [op |-> "start", id |-> s])]
                   \/ \E t \in Stops :
                        /\ stop[t] = "queued"
                        /\ down' = [down EXCEPT ![registered] = Append(@, [op |-> "stop", id |-> t])]
                   \/ ExtReceive
<1>0. down \in [Conns -> Seq(DownFrames)]
  BY DEF TypeOK
<1>1. ASSUME NEW s \in Starts, StartSteps(s)
      PROVE  Step
  BY <1>1 DEF StartSteps, Select, Reserve, Send, Answered, Commit, Spawn, wires, ToExtension
<1>2. ASSUME NEW t \in Stops, StopSteps(t)
      PROVE  Step
  BY <1>2 DEF StopSteps, StopBegin, StopForward, StopReturn, StopRemove, StopDrop, wires,
              ToExtension
<1>3. ASSUME NEW g \in Conns, Connection(g)
      PROVE  UNCHANGED down
  BY <1>3 DEF Connection, HandshakePurge, Register, Pump, SocketLost, Unregister,
              CleanupPurge, TaskEnds, wires
<1>4. ASSUME Teardown
      PROVE  UNCHANGED down
  BY <1>4 DEF Teardown, DropQueue, ReapBrowser, ReapSessions, wires
<1>5. CASE Extension
  <2>1. CASE ExtDisconnect
    BY <1>0, <2>1 DEF ExtDisconnect
  <2>2. CASE ExtRestart
    BY <1>0, <2>2 DEF ExtRestart
  <2>3. CASE ExtReceive
    BY <2>3
  <2>4. CASE \/ \E h \in Conns : ExtConnect(h)
             \/ \E s \in Starts : ExtCleanup(s) \/ ExtOpened(s) \/ UserClosesWindow(s)
    BY <2>4 DEF ExtConnect, ExtCleanup, ExtOpened, UserClosesWindow, wires
  <2>5. QED
    BY <1>5, <2>1, <2>2, <2>3, <2>4 DEF Extension
<1>6. ASSUME UNCHANGED vars
      PROVE  UNCHANGED down
  BY <1>6 DEF vars, wires
<1>7. QED
  BY <1>1, <1>2, <1>3, <1>4, <1>5, <1>6 DEF Next

\* A wire that gets a frame which is no request of s has the same requests of s.
LEMMA OnceAppend ==
  ASSUME TypeOK, OnceInv, NEW c, NEW x \in DownFrames,
         down' = [down EXCEPT ![c] = Append(@, x)],
         \A s \in Starts : StartFrame(x, s) => ~Going(s)
  PROVE  OnceInv'
<1>0. down \in [Conns -> Seq(DownFrames)]
  BY DEF TypeOK
<1> SUFFICES ASSUME NEW s \in Starts, NEW g \in Conns, NEW h \in Conns,
                    NEW i \in DOMAIN down'[g], NEW j \in DOMAIN down'[h],
                    StartFrame(down'[g][i], s), StartFrame(down'[h][j], s)
             PROVE  g = h /\ i = j
  BY DEF OnceInv
<1>1. ASSUME NEW k \in Conns, NEW n \in DOMAIN down'[k]
      PROVE  \/ n \in DOMAIN down[k] /\ down'[k][n] = down[k][n]
             \/ k = c /\ n = Len(down[c]) + 1 /\ down'[k][n] = x
  <2>1. CASE k = c
    <3>1. down'[k] = Append(down[k], x) /\ down[k] \in Seq(DownFrames)
      BY <1>0, <2>1
    <3>2. QED
      BY <1>1, <2>1, <3>1
  <2>2. CASE k # c
    BY <1>0, <1>1, <2>2
  <2>3. QED
    BY <2>1, <2>2
<1>2. ASSUME NEW k \in Conns, NEW n \in DOMAIN down[k], StartFrame(down[k][n], s)
      PROVE  Going(s)
  BY <1>2 DEF Going, Carried
<1>3. CASE StartFrame(x, s)
  <2>1. ~Going(s)
    BY <1>3
  <2>2. QED
    BY <1>1, <1>2, <2>1
<1>4. CASE ~StartFrame(x, s)
  BY <1>1, <1>4 DEF OnceInv
<1>5. QED
  BY <1>3, <1>4

\* What was read is gone, and what was behind it has moved up.
LEMMA OnceRead ==
  ASSUME TypeOK, OnceInv, ExtReceive
  PROVE  /\ OnceInv'
         /\ \A s \in Starts : StartFrame(Head(down[attached]), s) => ~Going(s)'
<1>0. down \in [Conns -> Seq(DownFrames)]
  BY DEF TypeOK
<1>1. /\ attached \in Conns /\ down[attached] \in Seq(DownFrames) /\ down[attached] # <<>>
      /\ down' = [down EXCEPT ![attached] = Tail(@)]
  BY LifecycleAssumption DEF ExtReceive, TypeOK, Conns, Tasks
<1>2. 1 \in DOMAIN down[attached] /\ Head(down[attached]) = down[attached][1]
  BY <1>1
<1> DEFINE Before(k, n) == IF k = attached THEN n + 1 ELSE n
<1>3. ASSUME NEW k \in Conns, NEW n \in DOMAIN down'[k]
      PROVE  /\ n \in Nat /\ Before(k, n) \in DOMAIN down[k]
             /\ down'[k][n] = down[k][Before(k, n)]
             /\ k = attached => Before(k, n) # 1
  <2>1. CASE k = attached
    <3>1. down'[k] = Tail(down[k]) /\ down[k] \in Seq(DownFrames) /\ down[k] # <<>>
      BY <1>0, <1>1, <2>1
    <3>2. QED
      BY <1>3, <2>1, <3>1
  <2>2. CASE k # attached
    <3>1. down'[k] = down[k] /\ down[k] \in Seq(DownFrames)
      BY <1>0, <1>1, <2>2
    <3>2. QED
      BY <1>3, <2>2, <3>1
  <2>3. QED
    BY <2>1, <2>2
<1>4. OnceInv'
  <2> SUFFICES ASSUME NEW s \in Starts, NEW g \in Conns, NEW h \in Conns,
                      NEW i \in DOMAIN down'[g], NEW j \in DOMAIN down'[h],
                      StartFrame(down'[g][i], s), StartFrame(down'[h][j], s)
               PROVE  g = h /\ i = j
    BY DEF OnceInv
  <2>1. g = h /\ Before(g, i) = Before(h, j)
    BY <1>3 DEF OnceInv
  <2>2. i \in Nat /\ j \in Nat
    BY <1>3
  <2>3. QED
    BY <2>1, <2>2
<1>5. ASSUME NEW s \in Starts, StartFrame(Head(down[attached]), s), Going(s)'
      PROVE  FALSE
  <2>0. PICK g \in Conns : \E n \in DOMAIN down'[g] : StartFrame(down'[g][n], s)
    BY <1>5 DEF Going, Carried
  <2>1. PICK n \in DOMAIN down'[g] : StartFrame(down'[g][n], s)
    BY <2>0
  <2>2. /\ Before(g, n) \in DOMAIN down[g] /\ StartFrame(down[g][Before(g, n)], s)
        /\ g = attached => Before(g, n) # 1
    BY <1>3, <2>1
  <2>3. StartFrame(down[attached][1], s)
    BY <1>2, <1>5
  <2>4. g = attached /\ Before(g, n) = 1
    BY <1>1, <1>2, <2>2, <2>3 DEF OnceInv
  <2>5. QED
    BY <2>2, <2>4
<1>6. QED
  BY <1>4, <1>5

LEMMA OnceNext ==
  ASSUME TypeOK, FreshInv, OnceInv, [Next]_vars
  PROVE  OnceInv'
<1>1. CASE \A g \in Conns : down'[g] \in {down[g], <<>>}
  BY <1>1 DEF OnceInv
<1>2. ASSUME NEW s \in Starts, pc[s] = "reserved",
             down' = [down EXCEPT ![client[s]] = Append(@, [op |-> "start", id |-> s])]
      PROVE  OnceInv'
  <2>1. \A d \in Starts : StartFrame([op |-> "start", id |-> s], d) => ~Going(d)
    BY <1>2 DEF StartFrame, FreshInv
  <2>2. QED
    BY <1>2, <2>1, OnceAppend, FrameTypes
<1>3. ASSUME NEW t \in Stops,
             down' = [down EXCEPT ![registered] = Append(@, [op |-> "stop", id |-> t])]
      PROVE  OnceInv'
  <2>1. \A d \in Starts : ~StartFrame([op |-> "stop", id |-> t], d)
    BY DEF StartFrame
  <2>2. QED
    BY <1>3, <2>1, OnceAppend, FrameTypes
<1>4. CASE ExtReceive
  BY <1>4, OnceRead
<1>5. QED
  BY <1>1, <1>2, <1>3, <1>4, DownSteps

\* Told is who was told, and whose window has just opened.
LEMMA ToldMoves ==
  ASSUME TypeOK, [Next]_vars, NEW s \in Starts, Told(s)'
  PROVE  Told(s) \/ ExtOpened(s)
<1>1. CASE \E g \in Conns : Coming(g, s)'
  BY <1>1, UpMoves DEF Coming, StartFrame, Told
<1>2. CASE grant'[s] = "ok"
  <2>1. client[s] \in Conns \/ ~Coming(client[s], s)
    BY DEF Coming
  <2>2. QED
    BY <1>2, <2>1, AnswerMoves DEF Told
<1>3. CASE pc'[s] \in {"granted", "committed", "started"}
  BY <1>3, AnswerMoves DEF Told
<1>4. QED
  BY <1>1, <1>2, <1>3 DEF Told

LEMMA OpenedAway ==
  ASSUME TypeOK, NEW s \in Starts, ExtOpened(s)
  PROVE  window[s] = "opening" /\ window'[s] \in {"open", "none"}
BY DEF TypeOK, ExtOpened

LEMMA SettleInit == Init => OnceInv /\ SettleInv
<1> SUFFICES ASSUME Init PROVE OnceInv /\ SettleInv
  OBVIOUS
<1>1. \A g \in Conns : down[g] = <<>> /\ up[g] = <<>>
  BY DEF Init
<1>2. \A s \in Starts : ~Going(s) /\ ~Told(s)
  BY <1>1, CarriedNone DEF Init, Going, Told, Coming
<1>3. QED
  BY <1>1, <1>2 DEF OnceInv, SettleInv

LEMMA SettleNext ==
  ASSUME TypeOK, FreshInv, OnceInv, SettleInv, [Next]_vars
  PROVE  SettleInv'
<1> SUFFICES ASSUME NEW s \in Starts
             PROVE  /\ window'[s] # "none" \/ Told(s)' => ~Going(s)'
                    /\ Told(s)' => window'[s] # "opening"
  BY DEF SettleInv
<1>0. window' \in [Starts -> {"none", "opening", "open"}]
  BY TypeNext DEF TypeOK
<1>1. ASSUME Told(s)', window'[s] = "opening"
      PROVE  FALSE
  <2>1. Told(s)
    BY <1>1, ToldMoves, OpenedAway
  <2>2. ~Going(s) /\ window[s] # "opening"
    BY <2>1 DEF SettleInv
  <2>3. QED
    BY <1>1, <2>2, WindowMoves, OpeningGoes
<1>2. ASSUME Going(s)', window'[s] # "none" \/ Told(s)'
      PROVE  FALSE
  <2>1. CASE Going(s)
    <3>1. window[s] = "none" /\ ~Told(s)
      BY <2>1 DEF SettleInv
    <3>2. ~Told(s)'
      BY <3>1, ToldMoves, OpenedAway
    <3>3. window'[s] = "opening"
      BY <1>0, <1>2, <3>1, <3>2, WindowMoves
    <3>4. ExtReceive /\ StartFrame(Head(down[attached]), s)
      BY <3>1, <3>3, WindowMoves
    <3>5. QED
      BY <1>2, <3>4, OnceRead
  <2>2. CASE ~Going(s)
    <3>1. pc[s] = "reserved" /\ pc'[s] = "waiting"
      BY <1>2, <2>2, DownMoves DEF Going, StartFrame
    <3>2. window[s] = "none" /\ ~Told(s)
      BY <3>1 DEF FreshInv, Told
    <3>3. ~Told(s)'
      BY <3>2, ToldMoves, OpenedAway
    <3>4. window'[s] = "none"
      BY <1>0, <2>2, <3>2, WindowMoves, OpeningGoes
    <3>5. QED
      BY <1>2, <3>3, <3>4
  <2>3. QED
    BY <2>1, <2>2
<1>3. QED
  BY <1>1, <1>2

-----------------------------------------------------------------------------
\* What a stop is told

StopFrame(f, t) == f.op = "stop" /\ f.id = t

\* A frame of stop t is on a wire, one that says that its session is not there.
Sent(t) == \E g \in Conns : \E f \in Carried(down[g]) \cup Carried(up[g]) : StopFrame(f, t)
Gone(t) == \E g \in Conns : \E f \in Carried(up[g]) : StopFrame(f, t) /\ f.body # "failed"

\* Stop t was told so.
Confirmed(t) ==
  \/ Gone(t)
  \/ verdict[t] \in {"ok", "not_found"}
  \/ via[t] # 0 /\ stop[t] \in {"removing", "dropping", "ok"}

\* Only what was started is asked to stop, and it stays away once it was so
\* confirmed; what the daemon itself removes has ended its start.
StopInv ==
  \A t \in Stops :
    /\ Sent(t) \/ stop[t] \in {"queued", "waiting"} \/ Confirmed(t)
         => pc[StopOf[t]] = "started"
    /\ Confirmed(t) => window[StopOf[t]] # "open"
    /\ stop[t] \in {"new", "queued"} => via[t] = 0
    /\ stop[t] \in {"removing", "dropping", "ok"} => pc[StopOf[t]] \in {"started", "failed"}
    /\ stop[t] \in {"dropping", "ok"} => StopOf[t] \notin rows
    /\ stop[t] = "ok" => queue[StopOf[t]] = "absent"

\* A start that is over stays so.
LEMMA FinalMoves ==
  ASSUME TypeOK, [Next]_vars, NEW d \in Starts, pc[d] \in {"started", "failed"}
  PROVE  pc'[d] = pc[d]
<1>0. pc \in [Starts -> {"new", "selected", "reserved", "waiting", "granted",
                         "committed", "started", "failed"}]
  BY DEF TypeOK
<1>1. ASSUME NEW s \in Starts, StartSteps(s)
      PROVE  pc'[d] = pc[d]
  <2>1. pc[s] \notin {"started", "failed"} /\ \E p : pc' = [pc EXCEPT ![s] = p]
    BY <1>1 DEF StartSteps, Select, Reserve, Send, Answered, Commit, Spawn, Cancelled
  <2>2. QED
    BY <1>0, <2>1
<1>2. ASSUME NEW t \in Stops, StopSteps(t)
      PROVE  UNCHANGED pc
  BY <1>2 DEF StopSteps, StopBegin, StopForward, StopReturn, StopRemove, StopDrop, startVars
<1>3. ASSUME NEW g \in Conns, Connection(g)
      PROVE  UNCHANGED pc
  BY <1>3 DEF Connection, HandshakePurge, Register, Pump, SocketLost, Unregister,
              CleanupPurge, TaskEnds, startVars
<1>4. ASSUME Teardown
      PROVE  UNCHANGED pc
  BY <1>4 DEF Teardown, DropQueue, ReapBrowser, ReapSessions, startVars
<1>5. ASSUME Extension
      PROVE  UNCHANGED pc
  BY <1>5 DEF Extension, ExtConnect, ExtDisconnect, ExtRestart, ExtReceive, ExtCleanup,
              ExtOpened, UserClosesWindow, startVars
<1>6. ASSUME UNCHANGED vars
      PROVE  UNCHANGED pc
  BY <1>6 DEF vars, startVars
<1>7. QED
  BY <1>1, <1>2, <1>3, <1>4, <1>5, <1>6 DEF Next

\* A queue is made by the Spawn of its start only.
LEMMA AbsentStays ==
  ASSUME TypeOK, [Next]_vars, NEW d \in Starts,
         pc[d] \in {"started", "failed"}, queue[d] = "absent"
  PROVE  queue'[d] = "absent"
<1>0. queue \in [Starts -> {"absent", "accepting", "closing"}] /\ StopOf \in [Stops -> Starts]
  BY LifecycleAssumption DEF TypeOK
<1>1. ASSUME NEW s \in Starts, StartSteps(s)
      PROVE  queue'[d] = "absent"
  <2>1. \/ UNCHANGED queue
        \/ pc[s] = "committed" /\ queue' = [queue EXCEPT ![s] = "accepting"]
    BY <1>1 DEF StartSteps, Select, Reserve, Send, Answered, Commit, Spawn, registries
  <2>2. QED
    BY <1>0, <2>1
<1>2. ASSUME NEW t \in Stops, StopSteps(t)
      PROVE  queue'[d] = "absent"
  <2>1. \/ UNCHANGED queue
        \/ queue[StopOf[t]] # "absent" /\ queue' = [queue EXCEPT ![StopOf[t]] = "closing"]
        \/ queue' = [queue EXCEPT ![StopOf[t]] = IF @ = "absent" THEN @ ELSE "accepting"]
        \/ queue' = [queue EXCEPT ![StopOf[t]] = "absent"]
    BY <1>2 DEF StopSteps, StopBegin, StopForward, StopReturn, StopRemove, StopDrop, registries
  <2>2. QED
    BY <1>0, <2>1
<1>3. ASSUME NEW g \in Conns, Connection(g)
      PROVE  UNCHANGED queue
  BY <1>3 DEF Connection, HandshakePurge, Register, Pump, SocketLost, Unregister,
              CleanupPurge, TaskEnds, registries
<1>4. CASE Teardown
  <2>1. UNCHANGED queue \/ \E s \in Starts : queue' = [queue EXCEPT ![s] = "absent"]
    BY <1>4 DEF Teardown, DropQueue, ReapBrowser, ReapSessions, registries
  <2>2. QED
    BY <1>0, <2>1
<1>5. ASSUME Extension
      PROVE  UNCHANGED queue
  BY <1>5 DEF Extension, ExtConnect, ExtDisconnect, ExtRestart, ExtReceive, ExtCleanup,
              ExtOpened, UserClosesWindow, registries
<1>6. ASSUME UNCHANGED vars
      PROVE  UNCHANGED queue
  BY <1>6 DEF vars, registries
<1>7. QED
  BY <1>1, <1>2, <1>3, <1>4, <1>5, <1>6 DEF Next

\* A stop that reads a frame from the extension has sent one before.
LEMMA AnswerFrames ==
  ASSUME TypeOK, [Next]_vars, NEW g \in Conns, NEW f \in Carried(up'[g]), f.op = "stop"
  PROVE  \/ f \in Carried(up[g])
         \/ /\ f.id \in Stops /\ Sent(f.id)
            /\ f.body # "failed" => window'[StopOf[f.id]] # "open"
<1> DEFINE Old == f \in Carried(up[g])
<1>0. /\ up \in [Conns -> Seq(UpFrames)] /\ StopOf \in [Stops -> Starts]
      /\ window \in [Starts -> {"none", "opening", "open"}]
  BY LifecycleAssumption DEF TypeOK
<1>1. ASSUME NEW s \in Starts, StartSteps(s)
      PROVE  UNCHANGED up
  BY <1>1 DEF StartSteps, Select, Reserve, Send, Answered, Commit, Spawn, wires
<1>2. ASSUME NEW t \in Stops, StopSteps(t)
      PROVE  UNCHANGED up
  BY <1>2 DEF StopSteps, StopBegin, StopForward, StopReturn, StopRemove, StopDrop, wires
<1>3. ASSUME NEW h \in Conns, Connection(h)
      PROVE  Old
  <2>1. CASE Pump(h)
    BY <1>0, <2>1, ReadCarried DEF Pump
  <2>2. CASE SocketLost(h) \/ Register(h)
    <3>1. up' = up \/ up' = [up EXCEPT ![h] = <<>>]
      BY <2>2 DEF SocketLost, Register
    <3>2. QED
      BY <1>0, <3>1, CarriedNone
  <2>3. CASE HandshakePurge(h) \/ Unregister(h) \/ CleanupPurge(h) \/ TaskEnds(h)
    BY <2>3 DEF HandshakePurge, Unregister, CleanupPurge, TaskEnds, wires
  <2>4. QED
    BY <1>3, <2>1, <2>2, <2>3 DEF Connection
<1>4. ASSUME Teardown
      PROVE  UNCHANGED up
  BY <1>4 DEF Teardown, DropQueue, ReapBrowser, ReapSessions, wires
<1>5. ASSUME NEW x \in UpFrames, ToDaemon(x)
      PROVE  Old \/ f = x
  <2>1. CASE up' = up
    BY <2>1
  <2>2. CASE up' = [up EXCEPT ![attached] = Append(@, x)]
    BY <2>2, PushedUp
  <2>3. QED
    BY <1>5, <2>1, <2>2 DEF ToDaemon
<1>6. CASE Extension
  <2>1. CASE ExtReceive
    <3> DEFINE x == Head(down[attached])
    <3>1. /\ attached \in Conns /\ x \in DownFrames /\ x \in Carried(down[attached])
      BY <2>1, Received
    <3>2. CASE x.op = "start"
      BY <2>1, <3>2 DEF ExtReceive
    <3>3. CASE x.op # "start"
      <4>1. PICK body \in IF window[StopOf[x.id]] = "open" THEN {"ok", "failed"} ELSE {"not_found"} :
              /\ window' = [window EXCEPT ![StopOf[x.id]] = IF body = "ok" THEN "none" ELSE @]
              /\ ToDaemon([op |-> "stop", id |-> x.id, body |-> body])
        BY <2>1, <3>3 DEF ExtReceive
      <4>2. x.op = "stop" /\ x.id \in Stops /\ StopOf[x.id] \in Starts
        BY <1>0, <3>1, <3>3, FrameFields
      <4>3. [op |-> "stop", id |-> x.id, body |-> body] \in UpFrames
        BY <4>1, <4>2, FrameTypes
      <4>4. Sent(x.id)
        BY <3>1, <4>2 DEF Sent, StopFrame
      <4>5. body # "failed" => window'[StopOf[x.id]] # "open"
        BY <1>0, <4>1, <4>2
      <4>6. Old \/ f = [op |-> "stop", id |-> x.id, body |-> body]
        BY <1>5, <4>1, <4>3
      <4>7. QED
        BY <4>2, <4>4, <4>5, <4>6
    <3>4. QED
      BY <3>2, <3>3
  <2>2. ASSUME NEW s \in Starts, ExtOpened(s) \/ UserClosesWindow(s)
        PROVE  Old
    <3>1. \E x \in UpFrames : ToDaemon(x) /\ x.op # "stop"
      BY <2>2, FrameTypes DEF ExtOpened, UserClosesWindow
    <3>2. QED
      BY <1>5, <3>1
  <2>3. CASE \/ ExtDisconnect \/ ExtRestart
             \/ \E h \in Conns : ExtConnect(h)
             \/ \E s \in Starts : ExtCleanup(s)
    BY <2>3 DEF ExtDisconnect, ExtRestart, ExtConnect, ExtCleanup, wires
  <2>4. QED
    BY <1>6, <2>1, <2>2, <2>3 DEF Extension
<1>7. ASSUME UNCHANGED vars
      PROVE  UNCHANGED up
  BY <1>7 DEF vars, wires
<1>8. QED
  BY <1>1, <1>2, <1>3, <1>4, <1>6, <1>7 DEF Next

LEMMA SentMoves ==
  ASSUME TypeOK, [Next]_vars, NEW t \in Stops, Sent(t)'
  PROVE  Sent(t) \/ stop[t] = "queued"
<1>0. down \in [Conns -> Seq(DownFrames)]
  BY DEF TypeOK
<1>1. PICK g \in Conns : \E f \in Carried(down'[g]) \cup Carried(up'[g]) : StopFrame(f, t)
  BY DEF Sent
<1>2. ASSUME NEW f \in Carried(up'[g]), StopFrame(f, t)
      PROVE  Sent(t)
  BY <1>2, AnswerFrames DEF Sent, StopFrame
<1>3. ASSUME NEW f \in Carried(down'[g]), StopFrame(f, t)
      PROVE  Sent(t) \/ stop[t] = "queued"
  <2>1. CASE f \in Carried(down[g])
    BY <1>3, <2>1 DEF Sent
  <2>2. CASE \A h \in Conns : down'[h] \in {down[h], <<>>}
    BY <1>3, <2>1, <2>2, CarriedNone
  <2>3. ASSUME NEW s \in Starts,
               down' = [down EXCEPT ![client[s]] = Append(@, [op |-> "start", id |-> s])]
        PROVE  f \in Carried(down[g])
    <3>1. [op |-> "start", id |-> s] \in DownFrames
      BY FrameTypes
    <3>2. f \in Carried(down[g]) \/ f = [op |-> "start", id |-> s]
      BY <2>3, <3>1, PushedDown
    <3>3. QED
      BY <1>3, <3>2 DEF StopFrame
  <2>4. ASSUME NEW u \in Stops, stop[u] = "queued",
               down' = [down EXCEPT ![registered] = Append(@, [op |-> "stop", id |-> u])]
        PROVE  f \in Carried(down[g]) \/ stop[t] = "queued"
    <3>1. [op |-> "stop", id |-> u] \in DownFrames
      BY FrameTypes
    <3>2. f \in Carried(down[g]) \/ f = [op |-> "stop", id |-> u]
      BY <2>4, <3>1, PushedDown
    <3>3. QED
      BY <1>3, <2>4, <3>2 DEF StopFrame
  <2>5. CASE ExtReceive
    <3>1. attached \in Conns /\ down[attached] # <<>> /\ down' = [down EXCEPT ![attached] = Tail(@)]
      BY <2>5, LifecycleAssumption DEF ExtReceive, TypeOK, Conns, Tasks
    <3>2. f \in Carried(down[g])
      BY <1>0, <1>3, <3>1, ReadCarried
    <3>3. QED
      BY <2>1, <3>2
  <2>6. QED
    BY <2>1, <2>2, <2>3, <2>4, <2>5, DownSteps
<1>4. QED
  BY <1>1, <1>2, <1>3

\* A stop is confirmed by an answer that says so, and by nothing else.
LEMMA ConfirmedMoves ==
  ASSUME TypeOK, [Next]_vars, NEW t \in Stops, Confirmed(t)',
         stop[t] \in {"new", "queued"} => via[t] = 0
  PROVE  Confirmed(t) \/ (Sent(t) /\ window'[StopOf[t]] # "open")
<1> DEFINE Ended == via'[t] # 0 /\ stop'[t] \in {"removing", "dropping", "ok"}
<1>0. /\ stop \in [Stops -> StopPhases] /\ via \in [Stops -> Tasks]
      /\ verdict \in [Stops -> {"none", "waiting", "ok", "failed", "not_found"}]
      /\ up \in [Conns -> Seq(UpFrames)]
  BY DEF TypeOK, StopPhases
<1>1. CASE Gone(t)'
  <2>0. PICK g \in Conns : \E f \in Carried(up'[g]) : StopFrame(f, t) /\ f.body # "failed"
    BY <1>1 DEF Gone
  <2>1. PICK f \in Carried(up'[g]) : StopFrame(f, t) /\ f.body # "failed"
    BY <2>0
  <2>2. QED
    BY <2>1, AnswerFrames DEF Confirmed, Gone, StopFrame
<1>2. CASE verdict'[t] \in {"ok", "not_found"} \/ Ended
  <2>1. ASSUME UNCHANGED stopVars
        PROVE  Confirmed(t)
    BY <1>2, <2>1 DEF Confirmed, stopVars
  <2>2. ASSUME NEW u \in Stops, StopSteps(u)
        PROVE  Confirmed(t)
    <3>1. CASE StopBegin(u)
      <4>1. UNCHANGED <<via, verdict>> /\ stop' = [stop EXCEPT ![u] = stop'[u]] /\ stop[u] = "new"
        BY <1>0, <3>1 DEF StopBegin
      <4>2. QED
        BY <1>0, <1>2, <4>1 DEF Confirmed
    <3>2. CASE StopForward(u)
      <4>1. /\ stop[u] = "queued"
            /\ \/ stop' = [stop EXCEPT ![u] = "removing"] /\ UNCHANGED <<via, verdict>>
               \/ /\ stop' = [stop EXCEPT ![u] = "waiting"]
                  /\ via' = [via EXCEPT ![u] = registered]
                  /\ verdict' = [verdict EXCEPT ![u] = "waiting"]
        BY <3>2 DEF StopForward
      <4>2. QED
        BY <1>0, <1>2, <4>1 DEF Confirmed
    <3>3. CASE StopReturn(u)
      <4>1. /\ stop[u] = "waiting" /\ verdict' = [verdict EXCEPT ![u] = "none"]
            /\ via' = [via EXCEPT ![u] = via'[u]]
            /\ \/ verdict[u] \in {"ok", "not_found"} /\ stop' = [stop EXCEPT ![u] = "removing"]
               \/ \E p \in {"new", "failed"} : stop' = [stop EXCEPT ![u] = p]
        BY <1>0, <3>3 DEF StopReturn
      <4>2. QED
        BY <1>0, <1>2, <4>1 DEF Confirmed
    <3>4. CASE StopRemove(u) \/ StopDrop(u)
      <4>1. /\ stop[u] \in {"removing", "dropping"} /\ UNCHANGED <<via, verdict>>
            /\ \E p \in {"dropping", "ok"} : stop' = [stop EXCEPT ![u] = p]
        BY <3>4 DEF StopRemove, StopDrop
      <4>2. QED
        BY <1>0, <1>2, <4>1 DEF Confirmed
    <3>5. QED
      BY <2>2, <3>1, <3>2, <3>3, <3>4 DEF StopSteps
  <2>3. ASSUME NEW s \in Starts, StartSteps(s)
        PROVE  UNCHANGED stopVars
    BY <2>3 DEF StartSteps, Select, Reserve, Send, Answered, Commit, Spawn
  <2>4. ASSUME NEW g \in Conns, Connection(g)
        PROVE  Confirmed(t)
    <3>1. CASE Pump(g)
      <4> DEFINE f == Head(up[g])
      <4>1. UNCHANGED <<stop, via>>
        BY <3>1 DEF Pump
      <4>2. f \in Carried(up[g])
        BY <1>0, <3>1, CarriedTail DEF Pump
      <4>3. CASE f.op = "stop"
        <5>1. verdict' = [verdict EXCEPT ![f.id] =
                            IF @ = "waiting" /\ via[f.id] = g THEN f.body ELSE @]
          BY <3>1, <4>3 DEF Pump
        <5>2. verdict'[t] = verdict[t] \/ (f.id = t /\ verdict'[t] = f.body)
          BY <1>0, <5>1
        <5>3. QED
          BY <1>2, <4>1, <4>2, <4>3, <5>2 DEF Confirmed, Gone, StopFrame
      <4>4. CASE f.op # "stop"
        BY <1>2, <3>1, <4>1, <4>4 DEF Pump, Confirmed
      <4>5. QED
        BY <4>3, <4>4
    <3>2. ASSUME ~Pump(g)
          PROVE  UNCHANGED stopVars
      BY <2>4, <3>2 DEF Connection, HandshakePurge, Register, SocketLost, Unregister,
                        CleanupPurge, TaskEnds
    <3>3. QED
      BY <2>1, <3>1, <3>2
  <2>5. ASSUME Teardown
        PROVE  UNCHANGED stopVars
    BY <2>5 DEF Teardown, DropQueue, ReapBrowser, ReapSessions
  <2>6. ASSUME Extension
        PROVE  UNCHANGED stopVars
    BY <2>6 DEF Extension, ExtConnect, ExtDisconnect, ExtRestart, ExtReceive, ExtCleanup,
                ExtOpened, UserClosesWindow
  <2>7. ASSUME UNCHANGED vars
        PROVE  UNCHANGED stopVars
    BY <2>7 DEF vars
  <2>8. QED
    BY <2>1, <2>2, <2>3, <2>4, <2>5, <2>6, <2>7 DEF Next
<1>3. QED
  BY <1>1, <1>2 DEF Confirmed

\* Where a stop may go, and what it does on the way.
StopMove(t) ==
  /\ stop'[t] \in {"queued", "waiting"} =>
       stop[t] \in {"queued", "waiting"} \/ queue[StopOf[t]] # "absent"
  /\ stop'[t] \in {"new", "queued"} =>
       via'[t] = 0 \/ (stop[t] \in {"new", "queued"} /\ via'[t] = via[t])
  /\ stop'[t] \in {"removing", "dropping", "ok"} =>
       stop[t] \notin {"new", "failed"} \/ pc[StopOf[t]] \in {"started", "failed"}
  /\ stop'[t] \in {"dropping", "ok"} => stop[t] \in {"dropping", "ok"} \/ StopOf[t] \notin rows'
  /\ stop'[t] = "ok" => stop[t] = "ok" \/ queue'[StopOf[t]] = "absent"

LEMMA StopPhaseMoves ==
  ASSUME TypeOK, [Next]_vars, NEW t \in Stops
  PROVE  StopMove(t)
<1>0. /\ stop \in [Stops -> StopPhases] /\ via \in [Stops -> Tasks]
      /\ queue \in [Starts -> {"absent", "accepting", "closing"}]
      /\ StopOf \in [Stops -> Starts]
  BY LifecycleAssumption DEF TypeOK, StopPhases
<1>1. ASSUME UNCHANGED <<stop, via>>
      PROVE  StopMove(t)
  BY <1>0, <1>1 DEF StopMove, StopPhases
<1>2. ASSUME NEW u \in Stops, u # t, StopSteps(u)
      PROVE  StopMove(t)
  <2>1. stop' = [stop EXCEPT ![u] = stop'[u]] /\ via' = [via EXCEPT ![u] = via'[u]]
    BY <1>0, <1>2 DEF StopSteps, StopBegin, StopForward, StopReturn, StopRemove, StopDrop
  <2>2. stop'[t] = stop[t] /\ via'[t] = via[t]
    BY <1>0, <1>2, <2>1
  <2>3. QED
    BY <1>0, <2>2 DEF StopMove, StopPhases
<1>3. CASE StopSteps(t)
  <2>1. CASE StopBegin(t)
    <3>1. /\ stop[t] = "new" /\ via' = via
          /\ \/ stop'[t] = "removing" /\ pc[StopOf[t]] \in {"started", "failed"}
             \/ stop'[t] \in {"new", "failed"}
             \/ stop'[t] = "queued" /\ queue[StopOf[t]] # "absent"
      BY <1>0, <2>1 DEF StopBegin
    <3>2. QED
      BY <1>0, <3>1 DEF StopMove
  <2>2. CASE StopForward(t)
    <3>1. stop[t] = "queued" /\ stop'[t] \in {"removing", "waiting"}
      BY <1>0, <2>2 DEF StopForward
    <3>2. QED
      BY <1>0, <3>1 DEF StopMove
  <2>3. CASE StopReturn(t)
    <3>1. /\ stop[t] = "waiting"
          /\ stop'[t] = "removing" \/ (stop'[t] \in {"new", "failed"} /\ via'[t] = 0)
      BY <1>0, <2>3 DEF StopReturn
    <3>2. QED
      BY <1>0, <3>1 DEF StopMove
  <2>4. CASE StopRemove(t)
    <3>1. stop[t] = "removing" /\ stop'[t] = "dropping" /\ StopOf[t] \notin rows'
      BY <1>0, <2>4 DEF StopRemove
    <3>2. QED
      BY <3>1 DEF StopMove
  <2>5. CASE StopDrop(t)
    <3>1. stop[t] = "dropping" /\ stop'[t] = "ok" /\ queue'[StopOf[t]] = "absent"
      BY <1>0, <2>5 DEF StopDrop
    <3>2. QED
      BY <3>1 DEF StopMove
  <2>6. QED
    BY <1>3, <2>1, <2>2, <2>3, <2>4, <2>5 DEF StopSteps
<1>4. ASSUME NEW s \in Starts, StartSteps(s)
      PROVE  UNCHANGED <<stop, via>>
  BY <1>4 DEF StartSteps, Select, Reserve, Send, Answered, Commit, Spawn, stopVars
<1>5. ASSUME NEW g \in Conns, Connection(g)
      PROVE  UNCHANGED <<stop, via>>
  BY <1>5 DEF Connection, HandshakePurge, Register, Pump, SocketLost, Unregister,
              CleanupPurge, TaskEnds, stopVars
<1>6. ASSUME Teardown
      PROVE  UNCHANGED <<stop, via>>
  BY <1>6 DEF Teardown, DropQueue, ReapBrowser, ReapSessions, stopVars
<1>7. ASSUME Extension
      PROVE  UNCHANGED <<stop, via>>
  BY <1>7 DEF Extension, ExtConnect, ExtDisconnect, ExtRestart, ExtReceive, ExtCleanup,
              ExtOpened, UserClosesWindow, stopVars
<1>8. ASSUME UNCHANGED vars
      PROVE  UNCHANGED <<stop, via>>
  BY <1>8 DEF vars, stopVars
<1>9. QED
  BY <1>1, <1>2, <1>3, <1>4, <1>5, <1>6, <1>7, <1>8 DEF Next

LEMMA StopInit == Init => StopInv
<1> SUFFICES ASSUME Init PROVE StopInv
  OBVIOUS
<1>1. \A g \in Conns : down[g] = <<>> /\ up[g] = <<>>
  BY DEF Init
<1>2. \A t \in Stops : ~Sent(t) /\ ~Confirmed(t)
  BY <1>1, CarriedNone DEF Init, Sent, Gone, Confirmed
<1>3. QED
  BY <1>2 DEF Init, StopInv

LEMMA StopNext ==
  ASSUME TypeOK, SettleInv, StopInv, [Next]_vars
  PROVE  StopInv'
<1> SUFFICES ASSUME NEW t \in Stops
             PROVE  /\ Sent(t)' \/ stop'[t] \in {"queued", "waiting"} \/ Confirmed(t)'
                         => pc'[StopOf[t]] = "started"
                    /\ Confirmed(t)' => window'[StopOf[t]] # "open"
                    /\ stop'[t] \in {"new", "queued"} => via'[t] = 0
                    /\ stop'[t] \in {"removing", "dropping", "ok"}
                         => pc'[StopOf[t]] \in {"started", "failed"}
                    /\ stop'[t] \in {"dropping", "ok"} => StopOf[t] \notin rows'
                    /\ stop'[t] = "ok" => queue'[StopOf[t]] = "absent"
  BY DEF StopInv
<1> DEFINE s == StopOf[t]
<1>0. s \in Starts /\ StopMove(t) /\ stop[t] \in StopPhases
  BY LifecycleAssumption, StopPhaseMoves DEF TypeOK, StopPhases
<1>1. /\ Sent(t) \/ stop[t] \in {"queued", "waiting"} \/ Confirmed(t) => pc[s] = "started"
      /\ Confirmed(t) => window[s] # "open"
      /\ stop[t] \in {"new", "queued"} => via[t] = 0
      /\ stop[t] \in {"removing", "dropping", "ok"} => pc[s] \in {"started", "failed"}
      /\ stop[t] \in {"dropping", "ok"} => s \notin rows
      /\ stop[t] = "ok" => queue[s] = "absent"
  BY DEF StopInv
<1>2. pc[s] \in {"started", "failed"} => pc'[s] = pc[s]
  BY <1>0, FinalMoves
<1>3. queue[s] # "absent" => pc[s] = "started"
  BY <1>0 DEF TypeOK
<1>4. Confirmed(t)' => Confirmed(t) \/ (Sent(t) /\ window'[s] # "open")
  BY <1>1, ConfirmedMoves
<1>5. Sent(t)' \/ stop'[t] \in {"queued", "waiting"} \/ Confirmed(t)' => pc'[s] = "started"
  BY <1>0, <1>1, <1>2, <1>3, <1>4, SentMoves DEF StopMove
<1>6. Confirmed(t)' => window'[s] # "open"
  <2>1. Confirmed(t) => window[s] \notin {"opening", "open"}
    BY <1>0, <1>1 DEF SettleInv, Told
  <2>2. QED
    BY <1>0, <1>4, <2>1, WindowMoves
<1>7. stop'[t] \in {"new", "queued"} => via'[t] = 0
  BY <1>0, <1>1 DEF StopMove
<1>8. stop'[t] \in {"removing", "dropping", "ok"} => pc'[s] \in {"started", "failed"}
  BY <1>0, <1>1, <1>2 DEF StopMove, StopPhases
<1>9. stop'[t] \in {"dropping", "ok"} => s \notin rows'
  <2>1. pc[s] \in {"started", "failed"} /\ s \notin rows => s \notin rows'
    BY <1>0, StartMoves DEF StartMove
  <2>2. QED
    BY <1>0, <1>1, <2>1 DEF StopMove
<1>10. stop'[t] = "ok" => queue'[s] = "absent"
  BY <1>0, <1>1, AbsentStays DEF StopMove
<1>11. QED
  BY <1>5, <1>6, <1>7, <1>8, <1>9, <1>10

\* A stop that succeeded is one: neither side has the session any more, and no
\* start under way, purge or late answer brings it back, for any starts, stops and
\* connections, whether or not handshakes are met in order.
THEOREM StoppedIsStopped == Spec => []StopMeansStopped
<1> DEFINE IInv == TypeOK /\ FreshInv /\ OnceInv /\ SettleInv /\ StopInv
<1>1. Init => IInv
  BY TypeInit, FreshInit, SettleInit, StopInit
<1>2. IInv /\ [Next]_vars => IInv'
  BY TypeNext, FreshNext, OnceNext, SettleNext, StopNext
<1>3. IInv => StopMeansStopped
  BY DEF StopInv, Confirmed, StopMeansStopped
<1>4. QED
  BY <1>1, <1>2, <1>3, PTL DEF Spec

===============================================================================
