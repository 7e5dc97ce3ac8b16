----------------------------- MODULE ToolDispatch -----------------------------
(***************************************************************************)
(* The daemon's path of one `tool.*` call: IPC handler, interrupt gate,    *)
(* inflight registry, per-session queue and worker, browser socket, the    *)
(* extension's dispatcher and the answer back; and the three things that   *)
(* cut across it: the `cancel` RPC, the user's stop button and the loss of *)
(* the browser connection.  A step is what the code does under one lock.   *)
(*                                                                         *)
(* One browser, one connection of it: reconnects are SessionLifecycle's.   *)
(* Rpc ids are unique, so a call is its own id.                            *)
(***************************************************************************)
EXTENDS Naturals, Sequences

CONSTANTS
  Calls,         \* the RPCs that CLI processes issue
  Sessions,      \* the sessions live at the start
  SessionOf,     \* the session_id parameter of a call
  Kind,          \* what a call asks for, see Kinds
  Cancellable,   \* the calls for which a CLI sends a `cancel` (at most one)
  MaxInterrupts, \* bound: clicks on the overlay's stop button
  MayDisconnect  \* whether the socket may fail

\* "input": gated by the interrupt marker; "read": not gated;
\* "record_stop": bypasses the busy lock; "stop": session.stop.
Kinds == {"input", "read", "record_stop", "stop"}

ASSUME ConstantsAssumption ==
  /\ SessionOf \in [Calls -> Sessions]
  /\ Kind \in [Calls -> Kinds]
  /\ Cancellable \subseteq {c \in Calls : Kind[c] # "stop"}
  /\ MaxInterrupts \in Nat
  /\ MayDisconnect \in BOOLEAN

VARIABLES
  conn,         \* the browser's connection, from "up" to "closed"
  doomed,       \* sessions the disconnect cleanup purged, still to be dropped
  live,         \* SessionRegistry: the sessions with a row
  queue,        \* ToolQueueRegistry: does the session's queue accept jobs
  busy,         \* QueueState.busy, shared with the worker
  interrupts,   \* SessionInterruptRegistry: sessions with a pending marker
  clicks,       \* stop-button events handled so far (bounded)
  sweep,        \* the user_interrupt handler's progress
  pc,           \* per call: where its IPC handler is
  outcome,      \* per call: the answer its caller got
  inflight,     \* ToolInflightRegistry: the registered calls
  reason,       \* per inflight entry: cancel_reason ("none": not cancelled)
  sent,         \* per inflight entry: ws_rpc_id is set (the request is out)
  cancelRpc,    \* per call: progress and answer of its `cancel` RPC
  job,          \* per call: where the worker side is
  result,       \* per call: what forward_one returned
  pending,      \* per call: the browser client's pending-response slot
  wire,         \* frames on the sink, oldest first
  ext,          \* per call: the extension's handler, and its response's fate
  reply         \* per call: the extension's response

callVars    == <<pc, outcome, inflight>>
entryVars   == <<reason, sent>>
jobVars     == <<job, result, pending>>
sessionVars == <<live, queue, busy>>
userVars    == <<interrupts, clicks, sweep>>
connVars    == <<conn, doomed>>
extVars     == <<ext, reply>>
vars == <<connVars, sessionVars, userVars, callVars, entryVars, cancelRpc, jobVars,
          wire, extVars>>

ConnStates   == {"up", "lost", "unregistered", "purged", "closed"}
HandlerSteps == {"new", "gated", "registered", "waiting", "removing",
                 "dropping", "answered"}
JobSteps     == {"none", "queued", "promoting", "waiting", "cleanup",
                 "settled", "cleared", "done"}
Replies      == {"ok", "failed", "not_found", "return_failures", "cancelled"}
Results      == Replies \cup {"none", "user_aborted", "timeout", "busy",
                 "cleanup_timeout", "transport_closed", "stopping"}
CancelSteps  == {"idle", "missed", "queued", "forwarding", "forwarded"}

Init ==
  /\ conn       = "up"
  /\ doomed     = {}
  /\ live       = Sessions
  /\ queue      = [s \in Sessions |-> "accepting"]
  /\ busy       = [s \in Sessions |-> FALSE]
  /\ interrupts = {}
  /\ clicks     = 0
  /\ sweep      = [on |-> {}, trip |-> {}, send |-> {}]
  /\ pc         = [c \in Calls |-> "new"]
  /\ outcome    = [c \in Calls |-> "none"]
  /\ inflight   = {}
  /\ reason     = [c \in Calls |-> "none"]
  /\ sent       = [c \in Calls |-> FALSE]
  /\ cancelRpc  = [c \in Calls |-> "idle"]
  /\ job        = [c \in Calls |-> "none"]
  /\ result     = [c \in Calls |-> "none"]
  /\ pending    = [c \in Calls |-> "none"]
  /\ wire       = <<>>
  /\ ext        = [c \in Calls |-> "unseen"]
  /\ reply      = [c \in Calls |-> "none"]

-----------------------------------------------------------------------------
\* Helpers

IsTool(c)      == Kind[c] # "stop"          \* has an inflight entry
IsLocked(c)    == Kind[c] # "record_stop"   \* takes the session's busy lock
IsGated(c)     == Kind[c] = "input"
IsCancelled(c) == reason[c] # "none"
Registered     == conn \in {"up", "lost"}   \* BrowserRegistry.get finds it

\* From the moment the busy lock is taken to the moment it is released.
HoldsLock(c) ==
  IsLocked(c) /\ job[c] \in {"queued", "promoting", "waiting", "cleanup", "settled"}

\* The worker's loop is inside forward_one (or about to answer) for c.
InWorker(c) ==
  IsLocked(c) /\ job[c] \in {"promoting", "waiting", "cleanup", "settled", "cleared"}

Request(c) == [type |-> "request", call |-> c]
Cancel(c)  == [type |-> "cancel", call |-> c]
Frames     == [type : {"request", "cancel"}, call : Calls]

\* A frame written to the sink of a dead socket is never read.
Push(frame) == wire' = IF conn = "up" THEN Append(wire, frame) ELSE wire

CancelledResult(c) == IF reason[c] = "user" THEN "user_aborted" ELSE "cancelled"

Answer(c, r) ==
  /\ pc'       = [pc EXCEPT ![c] = "answered"]
  /\ outcome'  = [outcome EXCEPT ![c] = r]
  /\ inflight' = inflight \ {c}

Settle(c, r) ==
  /\ job'    = [job EXCEPT ![c] = "settled"]
  /\ result' = [result EXCEPT ![c] = r]

\* Mutant of TripAll: the last reason wins.
TripAllLastWins(cs, why) ==
  reason' = [c \in Calls |-> IF c \in cs THEN why ELSE reason[c]]

\* cancel_and_snapshot: the first reason to land is kept.
TripAll(cs, why) ==
  reason' = [c \in Calls |-> IF c \in cs /\ reason[c] = "none" THEN why ELSE reason[c]]

-----------------------------------------------------------------------------
\* The IPC handler of a tool call (handle_tool_dispatch)

\* A gated call consumes a pending interrupt marker and is rejected.
Gate(c) ==
  /\ pc[c] = "new" /\ IsTool(c)
  /\ IF IsGated(c) /\ SessionOf[c] \in interrupts
     THEN /\ interrupts' = interrupts \ {SessionOf[c]}
          /\ Answer(c, "user_aborted")
     ELSE /\ pc' = [pc EXCEPT ![c] = "gated"]
          /\ UNCHANGED <<interrupts, outcome, inflight>>
  /\ UNCHANGED <<connVars, sessionVars, clicks, sweep, entryVars, cancelRpc,
                 jobVars, wire, extVars>>

\* tool_inflight.register: from here on `cancel` finds the call.
Register(c) ==
  /\ pc[c] = "gated"
  /\ pc' = [pc EXCEPT ![c] = "registered"]
  /\ inflight' = inflight \cup {c}
  /\ UNCHANGED <<connVars, sessionVars, userVars, outcome, entryVars, cancelRpc,
                 jobVars, wire, extVars>>

\* Mutant of Refusal: the busy flag is not consulted.
RefusalIgnoresBusy(c) ==
  CASE queue[SessionOf[c]] = "absent"  -> "not_found"
    [] queue[SessionOf[c]] = "closing" -> "stopping"
    [] OTHER                           -> "none"

\* Why the queue turns a job away, checked in this order ("none": it does not).
Refusal(c) ==
  LET s == SessionOf[c]
  IN  CASE queue[s] = "absent"   -> "not_found"
        [] queue[s] = "closing"  -> "stopping"
        [] queue[s] = "accepting" /\ IsLocked(c) /\ busy[s] -> "busy"
        [] OTHER                 -> "none"

\* The job of an accepted call: the lock is taken with the check.
Enqueue(c) ==
  /\ pc'  = [pc EXCEPT ![c] = "waiting"]
  /\ job' = [job EXCEPT ![c] = "queued"]
  /\ busy' = [busy EXCEPT ![SessionOf[c]] = @ \/ IsLocked(c)]

\* dispatch, and dispatch_unlocked for record_stop.
Dispatch(c) ==
  /\ pc[c] = "registered"
  /\ IF Refusal(c) = "none"
     THEN Enqueue(c) /\ UNCHANGED <<outcome, inflight>>
     ELSE Answer(c, Refusal(c)) /\ UNCHANGED <<job, busy>>
  /\ UNCHANGED <<connVars, live, queue, userVars, entryVars, cancelRpc, result,
                 pending, wire, extVars>>

\* Mutant of StopBegin: takes the lock but leaves the queue accepting.
StopBeginKeepsAccepting(c) ==
  LET gone == SessionOf[c] \notin live \/ ~Registered IN
  /\ pc[c] = "new" /\ ~IsTool(c)
  /\ IF gone \/ Refusal(c) # "none"
     THEN Answer(c, IF gone THEN "not_found" ELSE Refusal(c)) /\ UNCHANGED <<job, busy>>
     ELSE Enqueue(c) /\ UNCHANGED <<outcome, inflight>>
  /\ UNCHANGED <<connVars, live, queue, userVars, entryVars, cancelRpc, result,
                 pending, wire, extVars>>

\* session.stop: dispatch_after_closing closes the queue and takes the lock.
StopBegin(c) ==
  LET s == SessionOf[c]
      gone == s \notin live \/ ~Registered
  IN
  /\ pc[c] = "new" /\ ~IsTool(c)
  /\ IF gone \/ Refusal(c) # "none"
     THEN /\ Answer(c, IF gone THEN "not_found" ELSE Refusal(c))
          /\ UNCHANGED <<job, busy, queue>>
     ELSE /\ Enqueue(c)
          /\ queue' = [queue EXCEPT ![s] = "closing"]
          /\ UNCHANGED <<outcome, inflight>>
  /\ UNCHANGED <<connVars, live, userVars, entryVars, cancelRpc, result, pending,
                 wire, extVars>>

\* reopen: only an entry that still exists accepts again.
Reopened(s) == [queue EXCEPT ![s] = IF @ = "absent" THEN @ ELSE "accepting"]

\* What session.stop makes of the worker's verdict or of its own timeout.
StopReturn(c, r) ==
  /\ IF r \in {"ok", "not_found"}
     THEN /\ pc' = [pc EXCEPT ![c] = "removing"]
          /\ UNCHANGED <<outcome, inflight, queue>>
     ELSE /\ Answer(c, r)
          /\ queue' = Reopened(SessionOf[c])

ToolReturn(c, r) == Answer(c, r) /\ UNCHANGED queue

Return(c, r) == IF IsTool(c) THEN ToolReturn(c, r) ELSE StopReturn(c, r)

\* The worker's answer reaches a caller that still waits for it.  The busy
\* lock was released before; record_stop ran forward_one itself.
Respond(c) ==
  /\ job[c] = IF IsLocked(c) THEN "cleared" ELSE "settled"
  /\ job' = [job EXCEPT ![c] = "done"]
  /\ IF pc[c] = "waiting"
     THEN Return(c, result[c])
     ELSE UNCHANGED <<callVars, queue>>
  /\ UNCHANGED <<connVars, live, busy, userVars, entryVars, cancelRpc, result,
                 pending, wire, extVars>>

\* dispatch_with_sender gives up after timeout + 1s; the worker goes on.
CallerTimeout(c) ==
  /\ pc[c] = "waiting" /\ IsLocked(c)
  /\ Return(c, "timeout")
  /\ UNCHANGED <<connVars, live, busy, userVars, entryVars, cancelRpc, jobVars,
                 wire, extVars>>

\* A successful stop: sessions.remove, ...
StopRemove(c) ==
  /\ pc[c] = "removing"
  /\ pc' = [pc EXCEPT ![c] = "dropping"]
  /\ live' = live \ {SessionOf[c]}
  /\ UNCHANGED <<connVars, queue, busy, userVars, outcome, inflight, entryVars,
                 cancelRpc, jobVars, wire, extVars>>

\* ... then drop_session_local, and the answer.
StopDrop(c) ==
  /\ pc[c] = "dropping"
  /\ queue' = [queue EXCEPT ![SessionOf[c]] = "absent"]
  /\ interrupts' = interrupts \ {SessionOf[c]}
  /\ Answer(c, "ok")
  /\ UNCHANGED <<connVars, live, busy, clicks, sweep, entryVars, cancelRpc,
                 jobVars, wire, extVars>>

-----------------------------------------------------------------------------
\* forward_one, run by the session's worker (by the handler for record_stop)

\* The worker takes the next job; pre-flight checks before any frame is built.
Take(c) ==
  /\ job[c] = "queued"
  /\ IsLocked(c) => ~\E d \in Calls : SessionOf[d] = SessionOf[c] /\ InWorker(d)
  /\ \/ /\ IsCancelled(c)
        /\ Settle(c, CancelledResult(c))
        /\ UNCHANGED pending
     \/ /\ ~IsCancelled(c)
        /\ SessionOf[c] \notin live \/ ~Registered
        /\ Settle(c, "not_found")
        /\ UNCHANGED pending
     \/ /\ ~IsCancelled(c)
        /\ SessionOf[c] \in live /\ Registered
        /\ job' = [job EXCEPT ![c] = "promoting"]
        /\ pending' = [pending EXCEPT ![c] = "waiting"]
        /\ UNCHANGED result
  /\ UNCHANGED <<connVars, sessionVars, userVars, callVars, entryVars, cancelRpc,
                 wire, extVars>>

\* Mutant of Promote: the pre-flight check is trusted, cancelled is not read
\* again under the entry's lock.
PromoteUnchecked(c) ==
  /\ job[c] = "promoting" /\ conn # "closed"
  /\ sent' = [sent EXCEPT ![c] = TRUE]
  /\ Push(Request(c))
  /\ job' = [job EXCEPT ![c] = "waiting"]
  /\ UNCHANGED <<connVars, sessionVars, userVars, callVars, reason, cancelRpc,
                 result, pending, extVars>>

\* promote_to_forwarded_with: under the entry's lock, either the call is
\* already cancelled, or its ids are set and its request is on the sink.
Promote(c) ==
  /\ job[c] = "promoting"
  /\ \/ /\ IsCancelled(c)
        /\ Settle(c, CancelledResult(c))
        /\ pending' = [pending EXCEPT ![c] = "none"]
        /\ UNCHANGED <<sent, wire>>
     \/ /\ ~IsCancelled(c)
        /\ conn = "closed"
        /\ Settle(c, "transport_closed")
        /\ pending' = [pending EXCEPT ![c] = "none"]
        /\ UNCHANGED <<sent, wire>>
     \/ /\ ~IsCancelled(c)
        /\ conn # "closed"
        /\ sent' = [sent EXCEPT ![c] = TRUE]
        /\ Push(Request(c))
        /\ job' = [job EXCEPT ![c] = "waiting"]
        /\ UNCHANGED <<result, pending>>
  /\ UNCHANGED <<connVars, sessionVars, userVars, callVars, reason, cancelRpc,
                 extVars>>

\* The extension's answer; in the same poll a cancel has priority.
TakeResponse(c) ==
  /\ job[c] = "waiting" /\ ~IsCancelled(c)
  /\ pending[c] = "resolved"
  /\ Settle(c, reply[c])
  /\ UNCHANGED <<connVars, sessionVars, userVars, callVars, entryVars, cancelRpc,
                 pending, wire, extVars>>

\* Mutant of ForwardTimeout: the wait for the extension has no deadline.
ForwardNoTimeout(c) == job[c] = "waiting" /\ FALSE /\ UNCHANGED vars

\* The job's own deadline: the slot is dropped, no cancel frame is sent.
ForwardTimeout(c) ==
  /\ job[c] = "waiting" /\ ~IsCancelled(c)
  /\ pending[c] = "waiting"
  /\ Settle(c, "timeout")
  /\ pending' = [pending EXCEPT ![c] = "none"]
  /\ UNCHANGED <<connVars, sessionVars, userVars, callVars, entryVars, cancelRpc,
                 wire, extVars>>

\* The cancel token wins the select: wait on, for the cleanup only.
BeginCleanup(c) ==
  /\ job[c] = "waiting" /\ IsCancelled(c)
  /\ job' = [job EXCEPT ![c] = "cleanup"]
  /\ UNCHANGED <<connVars, sessionVars, userVars, callVars, entryVars, cancelRpc,
                 result, pending, wire, extVars>>

\* CancelledAfterResponse: an error other than a cancel is preserved.
CleanupResponse(c) ==
  /\ job[c] = "cleanup"
  /\ pending[c] = "resolved"
  /\ Settle(c, IF reply[c] \in {"ok", "cancelled"} THEN CancelledResult(c) ELSE reply[c])
  /\ UNCHANGED <<connVars, sessionVars, userVars, callVars, entryVars, cancelRpc,
                 pending, wire, extVars>>

CleanupTimeout(c) ==
  /\ job[c] = "cleanup"
  /\ pending[c] = "waiting"
  /\ Settle(c, "cleanup_timeout")
  /\ pending' = [pending EXCEPT ![c] = "none"]
  /\ UNCHANGED <<connVars, sessionVars, userVars, callVars, entryVars, cancelRpc,
                 wire, extVars>>

\* run_worker: clear_busy comes before the response.
ClearBusy(c) ==
  /\ IsLocked(c) /\ job[c] = "settled"
  /\ busy' = [busy EXCEPT ![SessionOf[c]] = FALSE]
  /\ job' = [job EXCEPT ![c] = "cleared"]
  /\ UNCHANGED <<connVars, live, queue, userVars, callVars, entryVars, cancelRpc,
                 result, pending, wire, extVars>>

-----------------------------------------------------------------------------
\* The `cancel` RPC (handle_cancel), at most one per call

\* Mutants of CancelTrip: the snapshot is ignored, and always taken as sent
\* (a cancel frame for a queued call) or never (no frame for a sent one).
CancelTripAlwaysForwards(c) ==
  /\ cancelRpc[c] = "idle" /\ c \in Cancellable
  /\ cancelRpc' = [cancelRpc EXCEPT ![c] = IF c \notin inflight THEN "missed" ELSE "forwarding"]
  /\ TripAll({c} \cap inflight, "rpc")
  /\ UNCHANGED <<connVars, sessionVars, userVars, callVars, sent, jobVars,
                 wire, extVars>>

CancelTripNeverForwards(c) ==
  /\ cancelRpc[c] = "idle" /\ c \in Cancellable
  /\ cancelRpc' = [cancelRpc EXCEPT ![c] = IF c \notin inflight THEN "missed" ELSE "forwarded"]
  /\ TripAll({c} \cap inflight, "rpc")
  /\ UNCHANGED <<connVars, sessionVars, userVars, callVars, sent, jobVars,
                 wire, extVars>>

\* Look the call up, trip its entry and take the snapshot of its ids.
CancelTrip(c) ==
  /\ cancelRpc[c] = "idle" /\ c \in Cancellable
  /\ cancelRpc' = [cancelRpc EXCEPT ![c] =
        IF c \notin inflight THEN "missed" ELSE IF sent[c] THEN "forwarding" ELSE "queued"]
  /\ TripAll({c} \cap inflight, "rpc")
  /\ UNCHANGED <<connVars, sessionVars, userVars, callVars, sent, jobVars,
                 wire, extVars>>

\* forward_cancel_to_browser: only to a browser that is still registered.
CancelForward(c) ==
  /\ cancelRpc[c] = "forwarding"
  /\ cancelRpc' = [cancelRpc EXCEPT ![c] = "forwarded"]
  /\ IF Registered THEN Push(Cancel(c)) ELSE UNCHANGED wire
  /\ UNCHANGED <<connVars, sessionVars, userVars, callVars, entryVars, jobVars,
                 extVars>>

-----------------------------------------------------------------------------
\* The stop button (handle_session_user_interrupt), on the socket's own task:
\* until it returns, that task reads no other frame

PumpIdle == conn = "up" /\ sweep.on = {}

\* cancel_session collects the session's entries under the registry lock, ...
InterruptCollect(s) ==
  /\ PumpIdle
  /\ clicks < MaxInterrupts
  /\ clicks' = clicks + 1
  /\ sweep' = [on |-> {s}, trip |-> {c \in inflight : SessionOf[c] = s}, send |-> {}]
  /\ UNCHANGED <<connVars, sessionVars, interrupts, callVars, entryVars,
                 cancelRpc, jobVars, wire, extVars>>

\* Mutant of InterruptTrip: the snapshots are dropped, nothing is forwarded.
InterruptTripOnly(c) ==
  /\ c \in sweep.trip
  /\ TripAll({c}, "user")
  /\ sweep' = [sweep EXCEPT !.trip = @ \ {c}]
  /\ UNCHANGED <<connVars, sessionVars, interrupts, clicks, callVars, sent,
                 cancelRpc, jobVars, wire, extVars>>

\* ... then trips them one by one, outside of it.
InterruptTrip(c) ==
  /\ c \in sweep.trip
  /\ TripAll({c}, "user")
  /\ sweep' = [sweep EXCEPT !.trip = @ \ {c},
                            !.send = IF sent[c] THEN @ \cup {c} ELSE @]
  /\ UNCHANGED <<connVars, sessionVars, interrupts, clicks, callVars, sent,
                 cancelRpc, jobVars, wire, extVars>>

\* Each snapshot with ids gets a cancel frame, ...
InterruptForward(c) ==
  /\ sweep.trip = {} /\ c \in sweep.send
  /\ sweep' = [sweep EXCEPT !.send = @ \ {c}]
  /\ IF Registered THEN Push(Cancel(c)) ELSE UNCHANGED wire
  /\ UNCHANGED <<connVars, sessionVars, interrupts, clicks, callVars, entryVars,
                 cancelRpc, jobVars, extVars>>

\* ... and last the marker for the next gated call is set.
InterruptMark ==
  /\ sweep.on # {} /\ sweep.trip = {} /\ sweep.send = {}
  /\ interrupts' = interrupts \cup sweep.on
  /\ sweep' = [sweep EXCEPT !.on = {}]
  /\ UNCHANGED <<connVars, sessionVars, clicks, callVars, entryVars, cancelRpc,
                 jobVars, wire, extVars>>

-----------------------------------------------------------------------------
\* The browser connection

\* The socket fails; what was on its way in either direction is lost.
SocketLost ==
  /\ PumpIdle /\ MayDisconnect
  /\ conn' = "lost"
  /\ wire' = <<>>
  /\ UNCHANGED <<doomed, sessionVars, userVars, callVars, entryVars, cancelRpc,
                 jobVars, extVars>>

\* drive_connection's cleanup: remove_if_generation_matches, ...
Unregister ==
  /\ conn = "lost"
  /\ conn' = "unregistered"
  /\ UNCHANGED <<doomed, sessionVars, userVars, callVars, entryVars, cancelRpc,
                 jobVars, wire, extVars>>

\* ... purge_browser, ...
Purge ==
  /\ conn = "unregistered"
  /\ conn' = "purged"
  /\ doomed' = live
  /\ live' = {}
  /\ UNCHANGED <<queue, busy, userVars, callVars, entryVars, cancelRpc, jobVars,
                 wire, extVars>>

\* ... each purged session's queue and marker, ...
DropPurged(s) ==
  /\ s \in doomed
  /\ doomed' = doomed \ {s}
  /\ queue' = [queue EXCEPT ![s] = "absent"]
  /\ interrupts' = interrupts \ {s}
  /\ UNCHANGED <<conn, live, busy, clicks, sweep, callVars, entryVars, cancelRpc,
                 jobVars, wire, extVars>>

\* ... and the sink closes when the task returns.
CloseSink ==
  /\ conn = "purged" /\ doomed = {}
  /\ conn' = "closed"
  /\ UNCHANGED <<doomed, sessionVars, userVars, callVars, entryVars, cancelRpc,
                 jobVars, wire, extVars>>

\* handle_inbound_text on a response: only a slot still waiting takes it.
PumpResponse(c) ==
  /\ PumpIdle
  /\ ext[c] = "replied"
  /\ ext' = [ext EXCEPT ![c] = "delivered"]
  /\ pending' = [pending EXCEPT ![c] = IF @ = "waiting" THEN "resolved" ELSE @]
  /\ UNCHANGED <<connVars, sessionVars, userVars, callVars, entryVars, cancelRpc,
                 job, result, wire, reply>>

-----------------------------------------------------------------------------
\* The extension's dispatcher: handlers run concurrently

\* A request gets an AbortController and starts; a cancel trips the controller
\* of a handler that has not returned, and does nothing otherwise.
ExtReceive ==
  /\ conn = "up" /\ wire # <<>>
  /\ LET c == Head(wire).call IN
     ext' = [ext EXCEPT ![c] = IF Head(wire).type = "request" THEN "running"
                               ELSE IF @ = "running" THEN "aborting" ELSE @]
  /\ wire' = Tail(wire)
  /\ UNCHANGED <<connVars, sessionVars, userVars, callVars, entryVars, cancelRpc,
                 jobVars, reply>>

\* A handler returns: an aborted one may still have succeeded, or have failed
\* to undo its work.  session_stop may not know the session (worker restart)
\* or leave borrowed tabs behind.
ExtReplies(c) ==
  IF ~IsTool(c) THEN {"ok", "failed", "not_found", "return_failures"}
  ELSE {"ok", "failed"} \cup (IF ext[c] = "aborting" THEN {"cancelled"} ELSE {})

ExtReply(c) ==
  /\ ext[c] \in {"running", "aborting"}
  /\ ext' = [ext EXCEPT ![c] = "replied"]
  /\ \E r \in ExtReplies(c) : reply' = [reply EXCEPT ![c] = r]
  /\ UNCHANGED <<connVars, sessionVars, userVars, callVars, entryVars, cancelRpc,
                 jobVars, wire>>

-----------------------------------------------------------------------------
Handler(c) ==
  \/ Gate(c) \/ Register(c) \/ Dispatch(c) \/ Respond(c) \/ CallerTimeout(c)
  \/ StopBegin(c) \/ StopRemove(c) \/ StopDrop(c)

Worker(c) ==
  \/ Take(c) \/ Promote(c) \/ TakeResponse(c) \/ ForwardTimeout(c)
  \/ BeginCleanup(c) \/ CleanupResponse(c) \/ CleanupTimeout(c) \/ ClearBusy(c)

Interrupt ==
  \/ \E s \in Sessions : InterruptCollect(s)
  \/ \E c \in Calls : InterruptTrip(c) \/ InterruptForward(c)
  \/ InterruptMark

Disconnect ==
  \/ SocketLost \/ Unregister \/ Purge \/ CloseSink
  \/ \E s \in Sessions : DropPurged(s)

Next ==
  \/ \E c \in Calls : Handler(c) \/ Worker(c)
  \/ \E c \in Calls : CancelTrip(c) \/ CancelForward(c)
  \/ Interrupt
  \/ Disconnect
  \/ ExtReceive
  \/ \E c \in Calls : PumpResponse(c) \/ ExtReply(c)

Spec == Init /\ [][Next]_vars

\* tokio runs every ready task and fires every timer, a connected socket
\* delivers; whether a CLI starts, cancels or clicks, whether the socket fails,
\* and whether an extension handler ever returns, is not assumed.
Fairness ==
  /\ \A c \in Calls : /\ WF_vars(pc[c] # "new" /\ Handler(c))
                      /\ WF_vars(Worker(c))
                      /\ WF_vars(CancelForward(c))
                      /\ WF_vars(InterruptTrip(c) \/ InterruptForward(c))
                      /\ WF_vars(PumpResponse(c))
  /\ WF_vars(InterruptMark)
  /\ WF_vars(ExtReceive)
  /\ WF_vars(Unregister \/ Purge \/ CloseSink)
  /\ \A s \in Sessions : WF_vars(DropPurged(s))

FairSpec == Spec /\ Fairness

-----------------------------------------------------------------------------
\* Properties

\* Every variable keeps its shape, and a call that was answered has an outcome.
TypeOK ==
  /\ conn       \in ConnStates
  /\ doomed     \in SUBSET Sessions
  /\ live       \in SUBSET Sessions
  /\ queue      \in [Sessions -> {"accepting", "closing", "absent"}]
  /\ busy       \in [Sessions -> BOOLEAN]
  /\ interrupts \in SUBSET Sessions
  /\ clicks     \in 0..MaxInterrupts
  /\ sweep      \in [on : SUBSET Sessions, trip : SUBSET Calls, send : SUBSET Calls]
  /\ pc         \in [Calls -> HandlerSteps]
  /\ outcome    \in [Calls -> Results]
  /\ inflight   \in SUBSET Calls
  /\ reason     \in [Calls -> {"none", "rpc", "user"}]
  /\ sent       \in [Calls -> BOOLEAN]
  /\ cancelRpc  \in [Calls -> CancelSteps]
  /\ job        \in [Calls -> JobSteps]
  /\ result     \in [Calls -> Results]
  /\ pending    \in [Calls -> {"none", "waiting", "resolved"}]
  /\ wire       \in Seq(Frames)
  /\ ext        \in [Calls -> {"unseen", "running", "aborting", "replied", "delivered"}]
  /\ reply      \in [Calls -> Replies \cup {"none"}]
  /\ \A c \in Calls : pc[c] = "answered" => outcome[c] # "none"

\* One unfinished command per session (SESSION_BUSY): two calls never hold a
\* session's busy lock together, whatever times out, is cancelled or is torn
\* down, and the lock is taken exactly while one of them holds it.
BusyLock ==
  /\ \A c, d \in Calls :
       HoldsLock(c) /\ HoldsLock(d) /\ SessionOf[c] = SessionOf[d] => c = d
  /\ \A s \in Sessions : busy[s] <=> \E c \in Calls : SessionOf[c] = s /\ HoldsLock(c)

\* C1, cancel first: a `cancel` answered for a call whose request was not out
\* yet keeps the request from ever reaching the extension.
QueuedCancelNeverRuns ==
  \A c \in Calls : cancelRpc[c] = "queued"
     => /\ ext[c] = "unseen"
        /\ \A i \in DOMAIN wire : wire[i] # Request(c)

\* C1, promote first: on the wire a cancel frame is behind its request.
CancelBehindRequest ==
  \A i \in DOMAIN wire : wire[i].type = "cancel" =>
     \/ ext[wire[i].call] # "unseen"
     \/ \E j \in 1..(i - 1) : wire[j] = Request(wire[i].call)

\* Cancelled after it was sent: as long as the extension has not been told, the
\* cancel frame is on the wire or the handler that tripped the call is about to
\* write it (cancel_forward.rs).
CancelOnItsWay ==
  \A c \in Calls :
    conn = "up" /\ sent[c] /\ IsCancelled(c) /\ ext[c] \in {"unseen", "running"}
    => \/ cancelRpc[c] = "forwarding"
       \/ c \in sweep.send
       \/ \E i \in DOMAIN wire : wire[i] = Cancel(c)

\* No answer without its cause: "ok" of a tool means its handler in the
\* extension returned ok; "cancelled" that this call's own cancel RPC hit, or
\* the extension said so after an abort; "user_aborted" that the user clicked.
AnswerHasCause ==
  \A c \in Calls :
    /\ outcome[c] = "ok" /\ IsTool(c) => reply[c] = "ok" /\ ext[c] = "delivered"
    /\ outcome[c] = "cancelled" =>
         \/ cancelRpc[c] \in {"queued", "forwarding", "forwarded"} /\ reason[c] = "rpc"
         \/ reply[c] = "cancelled"
    /\ outcome[c] = "user_aborted" => clicks > 0 /\ reason[c] # "rpc"

\* The stop barrier: once a session.stop has its answer of success, no command
\* of the session that takes the busy lock is sent to the extension any more.
NoSendAfterStop ==
  [][\A c, d \in Calls :
       /\ Kind[d] = "stop" /\ outcome[d] = "ok" /\ SessionOf[c] = SessionOf[d]
       /\ IsLocked(c) /\ ~sent[c]
       => ~sent'[c]]_vars

\* No session stays busy for ever.
SessionNeverWedged == \A s \in Sessions : busy[s] ~> ~busy[s]

\* A cancelled call does not go on running in the page: its handler is told to
\* abort or has returned, unless the connection is gone.
CancelReachesExtension ==
  \A c \in Calls : IsCancelled(c) /\ sent[c]
     ~> ext[c] \in {"aborting", "replied", "delivered"} \/ conn # "up"

-----------------------------------------------------------------------------
\* Refinement of SessionCommands

\* How far a command got.  Once its request is out a cancel cannot revoke it.
Phase(c) ==
  CASE job[c] = "none" /\ pc[c] # "answered"  -> "asked"
    [] job[c] = "none" /\ pc[c] = "answered"  -> "refused"
    [] job[c] \in {"queued", "promoting"}     -> IF IsCancelled(c) THEN "revoked" ELSE "accepted"
    [] job[c] \in {"waiting", "cleanup"}      -> "sent"
    [] OTHER                                  -> "settled"

Commands == INSTANCE SessionCommands WITH
  Locked   <- {c \in Calls : IsLocked(c)},
  holder   <- [s \in Sessions |-> {c \in Calls : SessionOf[c] = s /\ HoldsLock(c)}],
  phase    <- [c \in Calls |-> Phase(c)],
  answered <- {c \in Calls : pc[c] = "answered"}

\* The handler, the queue, the worker and the cancel paths together implement
\* the promise: one holder per session, no send after a revocation, one answer.
ImplementsCommands == Commands!Spec

-----------------------------------------------------------------------------
\* Statements of the code's comments that do not hold

\* queue.rs:371-374: session.stop is queued behind the tools "so extension
\* teardown cannot race an in-flight `snapshot` / `get_html` call".
TeardownNeverRacesTool ==
  \A c, d \in Calls :
    /\ Kind[c] = "read" /\ Kind[d] = "stop" /\ SessionOf[c] = SessionOf[d]
    => ~(ext[c] \in {"running", "aborting"} /\ ext[d] = "running")

\* session_interrupt.rs:3-8: the click cancels what is in flight and "the next
\* browser-input-dispatching `tool.*` call for that session is rejected": with
\* a marker pending, no gated call is at work in the page uncancelled.
NoInputPastInterrupt ==
  \A c \in Calls : IsGated(c) /\ SessionOf[c] \in interrupts
     => ~(job[c] = "waiting" /\ ~IsCancelled(c))

=============================================================================
