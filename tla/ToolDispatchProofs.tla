-------------------------- MODULE ToolDispatchProofs --------------------------
(***************************************************************************)
(* Theorems about ToolDispatch, for every set of calls and sessions.       *)
(***************************************************************************)
EXTENDS ToolDispatch, TLAPS

-----------------------------------------------------------------------------
\* Type correctness

\* The verdict a finished job carries is a real one, because an answer is only
\* taken from a slot that the extension's response has filled.
VerdictInv ==
  /\ \A c \in Calls : job[c] \in {"settled", "cleared", "done"} => result[c] # "none"
  /\ \A c \in Calls : ext[c] = "replied" => reply[c] # "none"
  /\ \A c \in Calls : pending[c] = "resolved" => reply[c] # "none"

TypeInv == TypeOK /\ VerdictInv

\* What a push to the sink leaves on the wire.
LEMMA PushType ==
  ASSUME wire \in Seq(Frames), NEW f \in Frames, Push(f)
  PROVE  wire' \in Seq(Frames)
BY DEF Push

LEMMA TypeInvInit == Init => TypeInv
BY ConstantsAssumption DEF Init, TypeInv, TypeOK, VerdictInv, ConnStates,
   HandlerSteps, Results, Replies, CancelSteps, JobSteps

\* Where the strings that the actions write belong.
LEMMA StepNames ==
  /\ {"gated", "registered", "waiting", "removing", "dropping", "answered"} \subseteq HandlerSteps
  /\ {"queued", "promoting", "waiting", "cleanup", "settled", "cleared", "done"} \subseteq JobSteps
BY DEF HandlerSteps, JobSteps

LEMMA ResultNames ==
  /\ Replies \subseteq Results /\ "none" \notin Replies
  /\ {"ok", "user_aborted", "timeout", "busy", "cleanup_timeout", "not_found", "cancelled",
      "transport_closed", "stopping"} \subseteq Results
BY DEF Results, Replies

\* An answer keeps the handler's variables typed.
LEMMA AnswerType ==
  ASSUME TypeInv, NEW c \in Calls, NEW r \in Results, r # "none", Answer(c, r)
  PROVE  /\ pc' \in [Calls -> HandlerSteps]
         /\ outcome' \in [Calls -> Results]
         /\ inflight' \in SUBSET Calls
         /\ \A d \in Calls : pc'[d] = "answered" => outcome'[d] # "none"
BY StepNames DEF TypeInv, TypeOK, Answer

\* So does moving the handler on to a step short of the answer.
LEMMA MoveType ==
  ASSUME TypeInv, NEW c \in Calls, NEW p \in HandlerSteps, p # "answered",
         pc' = [pc EXCEPT ![c] = p], outcome' = outcome
  PROVE  /\ pc' \in [Calls -> HandlerSteps]
         /\ outcome' \in [Calls -> Results]
         /\ \A d \in Calls : pc'[d] = "answered" => outcome'[d] # "none"
BY DEF TypeInv, TypeOK

\* So does putting a job on the queue.
LEMMA EnqueueType ==
  ASSUME TypeInv, NEW c \in Calls, Enqueue(c), UNCHANGED <<outcome, result>>
  PROVE  /\ pc' \in [Calls -> HandlerSteps]
         /\ \A d \in Calls : pc'[d] = "answered" => outcome'[d] # "none"
         /\ job' \in [Calls -> JobSteps]
         /\ \A d \in Calls : job'[d] \in {"settled", "cleared", "done"} => result'[d] # "none"
         /\ busy' \in [Sessions -> BOOLEAN]
<1>1. /\ pc' \in [Calls -> HandlerSteps]
      /\ \A d \in Calls : pc'[d] = "answered" => outcome'[d] # "none"
  BY MoveType, StepNames DEF Enqueue
<1>2. job' \in [Calls -> JobSteps]
  BY StepNames DEF Enqueue, TypeInv, TypeOK
<1>3. \A d \in Calls : job'[d] \in {"settled", "cleared", "done"} => result'[d] # "none"
  BY DEF Enqueue, TypeInv, TypeOK, VerdictInv
<1>4. busy' \in [Sessions -> BOOLEAN]
  BY ConstantsAssumption DEF Enqueue, TypeInv, TypeOK, IsLocked
<1>5. QED
  BY <1>1, <1>2, <1>3, <1>4

\* The queue refuses with an error.
LEMMA RefusalType == \A c \in Calls : Refusal(c) \in Results
BY ResultNames DEF Refusal, Results

\* What a caller gets, from the worker or from its own deadline.
LEMMA ReturnType ==
  ASSUME TypeInv, NEW c \in Calls, NEW r \in Results, r # "none", Return(c, r)
  PROVE  /\ pc' \in [Calls -> HandlerSteps]
         /\ outcome' \in [Calls -> Results]
         /\ inflight' \in SUBSET Calls
         /\ \A d \in Calls : pc'[d] = "answered" => outcome'[d] # "none"
         /\ queue' \in [Sessions -> {"accepting", "closing", "absent"}]
<1>1. CASE IsTool(c)
  BY <1>1, AnswerType DEF Return, ToolReturn, TypeInv, TypeOK
<1>2. CASE ~IsTool(c) /\ r \in {"ok", "not_found"}
  BY <1>2, MoveType, StepNames DEF Return, StopReturn, TypeInv, TypeOK
<1>3. CASE ~IsTool(c) /\ r \notin {"ok", "not_found"}
  BY <1>3, AnswerType DEF Return, StopReturn, Reopened, TypeInv, TypeOK
<1>4. QED
  BY <1>1, <1>2, <1>3

\* The steps of a call's handler.
LEMMA TypeInvHandler ==
  ASSUME TypeInv, NEW c \in Calls, Handler(c)
  PROVE  TypeInv'
<1> USE ConstantsAssumption DEF TypeInv, TypeOK, VerdictInv, connVars, sessionVars,
        userVars, callVars, entryVars, jobVars, extVars
<1>1. CASE Gate(c)
  <2>1. CASE IsGated(c) /\ SessionOf[c] \in interrupts
    BY <1>1, <2>1, AnswerType, ResultNames DEF Gate
  <2>2. CASE ~(IsGated(c) /\ SessionOf[c] \in interrupts)
    <3>1. "gated" \in HandlerSteps /\ "gated" # "answered"
      BY StepNames
    <3>2. pc' = [pc EXCEPT ![c] = "gated"] /\ UNCHANGED <<interrupts, outcome, inflight>>
      BY <1>1, <2>2 DEF Gate
    <3>3. /\ pc' \in [Calls -> HandlerSteps]
          /\ \A d \in Calls : pc'[d] = "answered" => outcome'[d] # "none"
      BY <3>1, <3>2, MoveType
    <3>4. QED
      BY <1>1, <3>2, <3>3 DEF Gate
  <2>3. QED
    BY <2>1, <2>2
<1>2. CASE Register(c)
  BY <1>2, MoveType, StepNames DEF Register
<1>3. CASE Dispatch(c)
  <2>1. CASE Refusal(c) = "none"
    BY <1>3, <2>1, EnqueueType DEF Dispatch, Enqueue
  <2>2. CASE Refusal(c) # "none"
    BY <1>3, <2>2, AnswerType, RefusalType DEF Dispatch
  <2>3. QED
    BY <2>1, <2>2
<1>4. CASE Respond(c)
  <2>1. result[c] \in Results /\ result[c] # "none"
    BY <1>4 DEF Respond
  <2>2. CASE pc[c] = "waiting"
    BY <1>4, <2>1, <2>2, ReturnType, StepNames DEF Respond
  <2>3. CASE pc[c] # "waiting"
    BY <1>4, <2>1, <2>3, StepNames DEF Respond
  <2>4. QED
    BY <2>2, <2>3
<1>5. CASE CallerTimeout(c)
  BY <1>5, ReturnType, ResultNames DEF CallerTimeout
<1>6. CASE StopBegin(c)
  <2> DEFINE gone == SessionOf[c] \notin live \/ ~Registered
  <2>1. CASE gone \/ Refusal(c) # "none"
    <3>1. PICK r \in Results : r # "none" /\ Answer(c, r)
      BY <1>6, <2>1, RefusalType, ResultNames DEF StopBegin
    <3>2. UNCHANGED <<job, busy, queue>>
      BY <1>6, <2>1 DEF StopBegin
    <3>3. QED
      BY <1>6, <3>1, <3>2, AnswerType DEF StopBegin
  <2>2. CASE ~(gone \/ Refusal(c) # "none")
    <3>1. Enqueue(c) /\ UNCHANGED <<outcome, inflight>>
      BY <1>6, <2>2 DEF StopBegin
    <3>2. queue' \in [Sessions -> {"accepting", "closing", "absent"}]
      BY <1>6, <2>2 DEF StopBegin
    <3>3. QED
      BY <1>6, <3>1, <3>2, EnqueueType DEF StopBegin
  <2>3. QED
    BY <2>1, <2>2
<1>7. CASE StopRemove(c)
  BY <1>7, MoveType, StepNames DEF StopRemove
<1>8. CASE StopDrop(c)
  BY <1>8, AnswerType, ResultNames DEF StopDrop
<1>9. QED
  BY <1>1, <1>2, <1>3, <1>4, <1>5, <1>6, <1>7, <1>8 DEF Handler

\* A settled job carries its verdict.
LEMMA SettleType ==
  ASSUME TypeInv, NEW c \in Calls, NEW r \in Results, r # "none", Settle(c, r)
  PROVE  /\ job' \in [Calls -> JobSteps]
         /\ result' \in [Calls -> Results]
         /\ \A d \in Calls : job'[d] \in {"settled", "cleared", "done"} => result'[d] # "none"
BY StepNames DEF TypeInv, TypeOK, VerdictInv, Settle

\* A job that moves on short of its verdict keeps the others' verdicts.
LEMMA ProceedType ==
  ASSUME TypeInv, NEW c \in Calls, NEW p \in JobSteps,
         p \notin {"settled", "cleared", "done"},
         job' = [job EXCEPT ![c] = p], result' = result
  PROVE  /\ job' \in [Calls -> JobSteps]
         /\ \A d \in Calls : job'[d] \in {"settled", "cleared", "done"} => result'[d] # "none"
BY DEF TypeInv, TypeOK, VerdictInv

LEMMA CancelledResultType ==
  \A c \in Calls : CancelledResult(c) \in Results /\ CancelledResult(c) # "none"
BY ResultNames DEF CancelledResult

\* The steps of forward_one.
LEMMA TypeInvWorker ==
  ASSUME TypeInv, NEW c \in Calls, Worker(c)
  PROVE  TypeInv'
<1> USE ConstantsAssumption DEF TypeInv, TypeOK, VerdictInv, connVars, sessionVars,
        userVars, callVars, entryVars, jobVars, extVars
<1>1. CASE Take(c)
  <2>1. CASE IsCancelled(c)
    BY <1>1, <2>1, SettleType, CancelledResultType DEF Take
  <2>2. CASE ~IsCancelled(c) /\ (SessionOf[c] \notin live \/ ~Registered)
    BY <1>1, <2>2, SettleType, ResultNames DEF Take
  <2>3. CASE ~IsCancelled(c) /\ SessionOf[c] \in live /\ Registered
    <3>1. /\ job' = [job EXCEPT ![c] = "promoting"]
          /\ pending' = [pending EXCEPT ![c] = "waiting"]
          /\ UNCHANGED result
      BY <1>1, <2>3 DEF Take
    <3>2. /\ job' \in [Calls -> JobSteps]
          /\ \A d \in Calls : job'[d] \in {"settled", "cleared", "done"} => result'[d] # "none"
      BY <3>1, ProceedType, StepNames
    <3>3. /\ pending' \in [Calls -> {"none", "waiting", "resolved"}]
          /\ \A d \in Calls : pending'[d] = "resolved" => reply[d] # "none"
      BY <3>1
    <3>4. QED
      BY <1>1, <2>3, <3>1, <3>2, <3>3 DEF Take
  <2>4. QED
    BY <2>1, <2>2, <2>3
<1>2. CASE Promote(c)
  <2>1. CASE IsCancelled(c)
    <3>1. /\ Settle(c, CancelledResult(c))
          /\ pending' = [pending EXCEPT ![c] = "none"]
          /\ UNCHANGED <<sent, wire>>
      BY <1>2, <2>1 DEF Promote
    <3>2. QED
      BY <1>2, <3>1, SettleType, CancelledResultType DEF Promote
  <2>2. CASE ~IsCancelled(c) /\ conn = "closed"
    BY <1>2, <2>2, SettleType, ResultNames DEF Promote
  <2>3. CASE ~IsCancelled(c) /\ conn # "closed"
    <3>1. Request(c) \in Frames
      BY DEF Request, Frames
    <3>2. wire' \in Seq(Frames)
      BY <1>2, <2>3, <3>1, PushType DEF Promote
    <3>3. /\ job' = [job EXCEPT ![c] = "waiting"]
          /\ sent' = [sent EXCEPT ![c] = TRUE]
          /\ UNCHANGED <<result, pending>>
      BY <1>2, <2>3 DEF Promote
    <3>4. /\ job' \in [Calls -> JobSteps]
          /\ \A d \in Calls : job'[d] \in {"settled", "cleared", "done"} => result'[d] # "none"
      BY <3>3, ProceedType, StepNames
    <3>5. sent' \in [Calls -> BOOLEAN]
      BY <3>3
    <3>6. QED
      BY <1>2, <3>2, <3>3, <3>4, <3>5 DEF Promote
  <2>4. QED
    BY <2>1, <2>2, <2>3
<1>3. CASE TakeResponse(c)
  <2>1. reply[c] \in Results /\ reply[c] # "none"
    BY <1>3, ResultNames DEF TakeResponse
  <2>2. QED
    BY <1>3, <2>1, SettleType DEF TakeResponse
<1>4. CASE ForwardTimeout(c)
  BY <1>4, SettleType, ResultNames DEF ForwardTimeout
<1>5. CASE BeginCleanup(c)
  BY <1>5, StepNames DEF BeginCleanup
<1>6. CASE CleanupResponse(c)
  <2>1. reply[c] \in Results /\ reply[c] # "none"
    BY <1>6, ResultNames DEF CleanupResponse
  <2>2. PICK r \in Results : r # "none" /\ Settle(c, r)
    BY <1>6, <2>1, CancelledResultType DEF CleanupResponse
  <2>3. QED
    BY <1>6, <2>2, SettleType DEF CleanupResponse
<1>7. CASE CleanupTimeout(c)
  BY <1>7, SettleType, ResultNames DEF CleanupTimeout
<1>8. CASE ClearBusy(c)
  BY <1>8, StepNames DEF ClearBusy
<1>9. QED
  BY <1>1, <1>2, <1>3, <1>4, <1>5, <1>6, <1>7, <1>8 DEF Worker

\* The cancel RPC and the stop button.
LEMMA TypeInvCancel ==
  ASSUME TypeInv,
         Interrupt \/ \E c \in Calls : CancelTrip(c) \/ CancelForward(c)
  PROVE  TypeInv'
<1> USE ConstantsAssumption DEF TypeInv, TypeOK, VerdictInv, connVars, sessionVars,
        userVars, callVars, entryVars, jobVars, extVars
<1>1. ASSUME NEW cs, NEW why \in {"rpc", "user"}, TripAll(cs, why)
      PROVE  reason' \in [Calls -> {"none", "rpc", "user"}]
  BY <1>1 DEF TripAll
<1>2. ASSUME NEW c \in Calls, Push(Cancel(c))
      PROVE  wire' \in Seq(Frames)
  BY ZenonT(60), <1>2, PushType DEF Cancel, Frames
<1>3. ASSUME NEW c \in Calls, CancelTrip(c)
      PROVE  TypeInv'
  BY <1>1, <1>3 DEF CancelTrip, CancelSteps
<1>4. ASSUME NEW c \in Calls, CancelForward(c)
      PROVE  TypeInv'
  BY <1>2, <1>4 DEF CancelForward, CancelSteps
<1>5. ASSUME NEW s \in Sessions, InterruptCollect(s)
      PROVE  TypeInv'
  BY <1>5 DEF InterruptCollect
<1>6. ASSUME NEW c \in Calls, InterruptTrip(c)
      PROVE  TypeInv'
  BY ZenonT(60), <1>1, <1>6 DEF InterruptTrip
<1>7. ASSUME NEW c \in Calls, InterruptForward(c)
      PROVE  TypeInv'
  BY <1>2, <1>7 DEF InterruptForward
<1>8. CASE InterruptMark
  BY <1>8 DEF InterruptMark
<1>9. QED
  BY <1>3, <1>4, <1>5, <1>6, <1>7, <1>8 DEF Interrupt

\* The loss of the connection, and the extension.
LEMMA TypeInvPeer ==
  ASSUME TypeInv,
         \/ Disconnect
         \/ ExtReceive
         \/ \E c \in Calls : PumpResponse(c) \/ ExtReply(c)
  PROVE  TypeInv'
<1> USE ConstantsAssumption DEF TypeInv, TypeOK, VerdictInv, ConnStates, connVars,
        sessionVars, userVars, callVars, entryVars, jobVars, extVars
<1>1. CASE SocketLost
  BY <1>1 DEF SocketLost
<1>2. CASE Unregister
  BY <1>2 DEF Unregister
<1>3. CASE Purge
  BY <1>3 DEF Purge
<1>4. CASE CloseSink
  BY <1>4 DEF CloseSink
<1>5. ASSUME NEW s \in Sessions, DropPurged(s)
      PROVE  TypeInv'
  BY <1>5 DEF DropPurged
<1>6. CASE ExtReceive
  <2>1. wire' \in Seq(Frames) /\ Head(wire) \in Frames
    BY <1>6 DEF ExtReceive
  <2>2. Head(wire).call \in Calls
    BY <2>1 DEF Frames
  <2>3. /\ ext' \in [Calls -> {"unseen", "running", "aborting", "replied", "delivered"}]
        /\ \A c \in Calls : ext'[c] = "replied" => ext[c] = "replied"
    BY <1>6, <2>2 DEF ExtReceive
  <2>4. QED
    BY <1>6, <2>1, <2>3 DEF ExtReceive
<1>7. ASSUME NEW c \in Calls, PumpResponse(c)
      PROVE  TypeInv'
  BY <1>7 DEF PumpResponse
<1>8. ASSUME NEW c \in Calls, ExtReply(c)
      PROVE  TypeInv'
  <2>1. PICK r \in Replies : reply' = [reply EXCEPT ![c] = r]
    BY <1>8 DEF ExtReply, ExtReplies, Replies
  <2>2. QED
    BY <1>8, <2>1, ResultNames DEF ExtReply
<1>9. QED
  BY <1>1, <1>2, <1>3, <1>4, <1>5, <1>6, <1>7, <1>8 DEF Disconnect

LEMMA TypeInvNext == TypeInv /\ [Next]_vars => TypeInv'
<1>1. TypeInv /\ Next => TypeInv'
  BY TypeInvHandler, TypeInvWorker, TypeInvCancel, TypeInvPeer DEF Next
<1>2. TypeInv /\ UNCHANGED vars => TypeInv'
  BY DEF TypeInv, TypeOK, VerdictInv, vars, connVars, sessionVars, userVars, callVars,
         entryVars, jobVars, extVars
<1>3. QED
  BY <1>1, <1>2

\* Every variable keeps its type and no call is answered without a verdict,
\* whatever the calls, sessions and bounds.
THEOREM TypeCorrect == Spec => []TypeOK
<1>1. TypeInv => TypeOK
  BY DEF TypeInv
<1>2. QED
  BY TypeInvInit, TypeInvNext, <1>1, PTL DEF Spec

-----------------------------------------------------------------------------
\* One command holds a session

\* The lock's invariant speaks of busy and of who holds the lock only.
LEMMA SameHolders ==
  ASSUME BusyLock, busy' = busy,
         \A d \in Calls : HoldsLock(d)' <=> HoldsLock(d)
  PROVE  BusyLock'
BY DEF BusyLock

\* A holder that moves on stays a holder.
LEMMA HolderMoves ==
  ASSUME TypeInv, BusyLock, NEW c \in Calls, busy' = busy,
         NEW p \in {"queued", "promoting", "waiting", "cleanup", "settled"},
         job[c] \in {"queued", "promoting", "waiting", "cleanup", "settled"},
         job' = [job EXCEPT ![c] = p]
  PROVE  BusyLock'
<1>1. \A d \in Calls : HoldsLock(d)' <=> HoldsLock(d)
  BY DEF HoldsLock, IsLocked, TypeInv, TypeOK
<1>2. QED
  BY <1>1, SameHolders

LEMMA HolderSettles ==
  ASSUME TypeInv, BusyLock, NEW c \in Calls, busy' = busy, NEW r, Settle(c, r),
         job[c] \in {"queued", "promoting", "waiting", "cleanup", "settled"}
  PROVE  BusyLock'
BY HolderMoves DEF Settle

\* A step that leaves the lock and the jobs alone.
LEMMA LockUntouched ==
  ASSUME BusyLock, UNCHANGED <<busy, job>>
  PROVE  BusyLock'
<1>1. \A d \in Calls : HoldsLock(d)' <=> HoldsLock(d)
  BY DEF HoldsLock, IsLocked
<1>2. QED
  BY <1>1, SameHolders

\* The lock is taken with the check that it is free.
LEMMA LockTaken ==
  ASSUME TypeInv, BusyLock, NEW c \in Calls, Refusal(c) = "none", Enqueue(c)
  PROVE  BusyLock'
<1> DEFINE s == SessionOf[c]
<1>1. s \in Sessions
  BY ConstantsAssumption
<1>2. /\ busy' = [busy EXCEPT ![s] = @ \/ IsLocked(c)]
      /\ \A d \in Calls : d # c => (HoldsLock(d)' <=> HoldsLock(d))
      /\ HoldsLock(c)' <=> IsLocked(c)
  BY DEF Enqueue, HoldsLock, IsLocked, TypeInv, TypeOK
<1>3. CASE IsLocked(c)
  <2>1. ~busy[s]
    BY <1>3, <1>1 DEF Refusal, TypeInv, TypeOK
  <2>2. \A d \in Calls : SessionOf[d] = s => ~HoldsLock(d)
    BY <1>1, <2>1 DEF BusyLock
  <2>3. /\ busy'[s]
        /\ \A t \in Sessions : t # s => busy'[t] = busy[t]
    BY <1>1, <1>2, <1>3 DEF TypeInv, TypeOK
  <2>4. \A d, e \in Calls :
          HoldsLock(d)' /\ HoldsLock(e)' /\ SessionOf[d] = SessionOf[e] => d = e
    BY <1>2, <2>2 DEF BusyLock
  <2>5. ASSUME NEW t \in Sessions
        PROVE  busy'[t] <=> \E d \in Calls : SessionOf[d] = t /\ HoldsLock(d)'
    <3>1. CASE t = s
      BY <3>1, <1>2, <1>3, <2>3
    <3>2. CASE t # s
      BY <3>2, <1>2, <2>3 DEF BusyLock
    <3>3. QED
      BY <3>1, <3>2
  <2>6. QED
    BY <2>4, <2>5 DEF BusyLock
<1>4. CASE ~IsLocked(c)
  <2>1. ~HoldsLock(c)
    BY <1>4 DEF HoldsLock
  <2>2. busy' = busy
    BY <1>1, <1>2, <1>4 DEF TypeInv, TypeOK
  <2>3. QED
    BY <1>2, <1>4, <2>1, <2>2, SameHolders
<1>5. QED
  BY <1>3, <1>4

LEMMA BusyLockHandler ==
  ASSUME TypeInv, BusyLock, NEW c \in Calls, Handler(c)
  PROVE  BusyLock'
<1> USE DEF sessionVars, jobVars
<1>1. CASE Gate(c) \/ Register(c) \/ CallerTimeout(c) \/ StopRemove(c) \/ StopDrop(c)
  BY <1>1, LockUntouched DEF Gate, Register, CallerTimeout, StopRemove, StopDrop
<1>2. CASE Dispatch(c)
  BY <1>2, LockTaken, LockUntouched DEF Dispatch
<1>3. CASE Respond(c)
  <2>1. busy' = busy /\ job' = [job EXCEPT ![c] = "done"]
    BY <1>3 DEF Respond
  <2>2. ~HoldsLock(c)
    BY <1>3 DEF Respond, HoldsLock
  <2>3. \A d \in Calls : HoldsLock(d)' <=> HoldsLock(d)
    BY <2>1, <2>2 DEF HoldsLock, IsLocked, TypeInv, TypeOK
  <2>4. QED
    BY <2>1, <2>3, SameHolders
<1>4. CASE StopBegin(c)
  BY <1>4, LockTaken, LockUntouched DEF StopBegin
<1>5. QED
  BY <1>1, <1>2, <1>3, <1>4 DEF Handler

LEMMA BusyLockWorker ==
  ASSUME TypeInv, BusyLock, NEW c \in Calls, Worker(c)
  PROVE  BusyLock'
<1> USE DEF sessionVars
<1>1. CASE Take(c)
  BY <1>1, HolderMoves, HolderSettles DEF Take
<1>2. CASE Promote(c)
  BY <1>2, HolderMoves, HolderSettles DEF Promote
<1>3. CASE TakeResponse(c)
  BY <1>3, HolderSettles DEF TakeResponse
<1>4. CASE ForwardTimeout(c)
  BY <1>4, HolderSettles DEF ForwardTimeout
<1>5. CASE BeginCleanup(c)
  BY <1>5, HolderMoves DEF BeginCleanup
<1>6. CASE CleanupResponse(c)
  BY <1>6, HolderSettles DEF CleanupResponse
<1>7. CASE CleanupTimeout(c)
  BY <1>7, HolderSettles DEF CleanupTimeout
<1>8. CASE ClearBusy(c)
  <2> DEFINE s == SessionOf[c]
  <2>1. s \in Sessions
    BY ConstantsAssumption
  <2>2. HoldsLock(c) /\ ~HoldsLock(c)'
    BY <1>8 DEF ClearBusy, HoldsLock, TypeInv, TypeOK
  <2>3. /\ \A d \in Calls : d # c => (HoldsLock(d)' <=> HoldsLock(d))
        /\ busy' = [busy EXCEPT ![s] = FALSE]
    BY <1>8 DEF ClearBusy, HoldsLock, IsLocked, TypeInv, TypeOK
  <2>4. \A d \in Calls : SessionOf[d] = s => ~HoldsLock(d)'
    BY <2>2, <2>3 DEF BusyLock
  <2>5. ~busy'[s] /\ \A t \in Sessions : t # s => busy'[t] = busy[t]
    BY <2>1, <2>3 DEF TypeInv, TypeOK
  <2>6. \A d, e \in Calls :
          HoldsLock(d)' /\ HoldsLock(e)' /\ SessionOf[d] = SessionOf[e] => d = e
    BY <2>2, <2>3 DEF BusyLock
  <2>7. ASSUME NEW t \in Sessions
        PROVE  busy'[t] <=> \E d \in Calls : SessionOf[d] = t /\ HoldsLock(d)'
    <3>1. CASE t = s
      BY <3>1, <2>4, <2>5
    <3>2. CASE t # s
      BY <3>2, <2>2, <2>3, <2>5 DEF BusyLock
    <3>3. QED
      BY <3>1, <3>2
  <2>8. QED
    BY <2>6, <2>7 DEF BusyLock
<1>9. QED
  BY <1>1, <1>2, <1>3, <1>4, <1>5, <1>6, <1>7, <1>8 DEF Worker

\* The busy lock is a lock: for any calls and sessions, at most one command of
\* a session holds it, and busy is set exactly while one does.
THEOREM OneCommandPerSession == Spec => []BusyLock
<1>1. Init => BusyLock
  BY DEF Init, BusyLock, HoldsLock
<1>2. ASSUME TypeInv, BusyLock, [Next]_vars
      PROVE  BusyLock'
  <2> USE DEF sessionVars, jobVars
  <2>1. ASSUME NEW c \in Calls, Handler(c) \/ Worker(c)
        PROVE  BusyLock'
    BY <1>2, <2>1, BusyLockHandler, BusyLockWorker
  <2>2. ASSUME NEW c \in Calls, CancelTrip(c) \/ CancelForward(c)
        PROVE  BusyLock'
    BY <1>2, <2>2, LockUntouched DEF CancelTrip, CancelForward
  <2>3. CASE Interrupt
    BY <1>2, <2>3, LockUntouched
       DEF Interrupt, InterruptCollect, InterruptTrip, InterruptForward, InterruptMark
  <2>4. CASE Disconnect
    BY <1>2, <2>4, LockUntouched
       DEF Disconnect, SocketLost, Unregister, Purge, CloseSink, DropPurged
  <2>5. CASE ExtReceive \/ \E c \in Calls : PumpResponse(c) \/ ExtReply(c)
    BY <1>2, <2>5, LockUntouched DEF ExtReceive, PumpResponse, ExtReply
  <2>6. CASE UNCHANGED vars
    BY <1>2, <2>6, LockUntouched DEF vars
  <2>7. QED
    BY <1>2, <2>1, <2>2, <2>3, <2>4, <2>5, <2>6 DEF Next
<1>3. QED
  BY <1>1, <1>2, TypeInvInit, TypeInvNext, PTL DEF Spec

-----------------------------------------------------------------------------
\* Cancel first

\* A request on the wire, or one the extension has seen, was sent; a call whose
\* cancel found it queued was tripped and was not sent.
CancelInv ==
  /\ \A c \in Calls : ext[c] # "unseen" => sent[c]
  /\ \A i \in DOMAIN wire : wire[i].type = "request" => sent[wire[i].call]
  /\ \A c \in Calls : cancelRpc[c] = "queued" => IsCancelled(c) /\ ~sent[c]

\* A step that keeps what it says of sent, wire, ext and the cancels.
LEMMA CancelInvKept ==
  ASSUME CancelInv, UNCHANGED <<sent, cancelRpc, reason, ext>>,
         wire' = wire \/ wire' = <<>>
  PROVE  CancelInv'
BY DEF CancelInv, IsCancelled

\* What a push adds to the wire.
LEMMA Pushed ==
  ASSUME TypeInv, NEW f \in Frames, Push(f)
  PROVE  \A i \in DOMAIN wire' : wire'[i] = f \/ (i \in DOMAIN wire /\ wire'[i] = wire[i])
<1>1. CASE conn = "up"
  <2>1. wire' = Append(wire, f) /\ wire \in Seq(Frames)
    BY <1>1 DEF Push, TypeInv, TypeOK
  <2>2. QED
    BY <2>1
<1>2. CASE conn # "up"
  BY <1>2 DEF Push
<1>3. QED
  BY <1>1, <1>2

\* Tripping keeps what was tripped.
LEMMA TripKeeps ==
  ASSUME TypeInv, NEW cs, NEW why \in {"rpc", "user"}, TripAll(cs, why)
  PROVE  \A c \in Calls : /\ IsCancelled(c) => IsCancelled(c)'
                          /\ c \in cs => IsCancelled(c)'
BY DEF TripAll, IsCancelled, TypeInv, TypeOK

LEMMA CancelInvPromote ==
  ASSUME TypeInv, CancelInv, NEW c \in Calls, Promote(c)
  PROVE  CancelInv'
<1> USE DEF entryVars, extVars
<1>1. CASE IsCancelled(c) \/ conn = "closed"
  BY <1>1, CancelInvKept DEF Promote
<1>2. CASE ~IsCancelled(c) /\ conn # "closed"
  <2>1. /\ sent' = [sent EXCEPT ![c] = TRUE]
        /\ Push(Request(c))
        /\ UNCHANGED <<ext, reason, cancelRpc>>
    BY <1>2 DEF Promote
  <2>2. \A d \in Calls : sent'[d] <=> sent[d] \/ d = c
    BY <2>1 DEF TypeInv, TypeOK
  <2>3. Request(c) \in Frames /\ Request(c).call = c
    BY DEF Request, Frames
  <2>4. \A i \in DOMAIN wire' : wire'[i].type = "request" => sent'[wire'[i].call]
    <3>1. ASSUME NEW i \in DOMAIN wire', wire'[i].type = "request"
          PROVE  sent'[wire'[i].call]
      <4>1. CASE wire'[i] = Request(c)
        BY <4>1, <2>2, <2>3
      <4>2. CASE i \in DOMAIN wire /\ wire'[i] = wire[i]
        <5>1. wire[i] \in Frames
          BY <4>2 DEF TypeInv, TypeOK
        <5>2. wire[i].call \in Calls
          BY <5>1 DEF Frames
        <5>3. sent[wire[i].call]
          BY <3>1, <4>2 DEF CancelInv
        <5>4. QED
          BY <4>2, <5>2, <5>3, <2>2
      <4>3. QED
        BY <4>1, <4>2, <2>1, <2>3, Pushed
    <3>2. QED
      BY <3>1
  <2>5. \A d \in Calls : ext'[d] # "unseen" => sent'[d]
    BY <2>1, <2>2 DEF CancelInv
  <2>6. \A d \in Calls : cancelRpc'[d] = "queued" => IsCancelled(d)' /\ ~sent'[d]
    BY <1>2, <2>1, <2>2 DEF CancelInv, IsCancelled
  <2>7. QED
    BY <2>4, <2>5, <2>6 DEF CancelInv
<1>3. QED
  BY <1>1, <1>2

\* A cancel frame is no request.
LEMMA CancelInvPushCancel ==
  ASSUME TypeInv, CancelInv, NEW c \in Calls,
         wire' = wire \/ Push(Cancel(c)), UNCHANGED <<sent, reason, ext>>,
         \A d \in Calls : cancelRpc'[d] = "queued" => cancelRpc[d] = "queued"
  PROVE  CancelInv'
<1>1. \A i \in DOMAIN wire' : wire'[i].type = "request" => sent[wire'[i].call]
  <2>1. Cancel(c) \in Frames /\ Cancel(c).type # "request"
    BY DEF Cancel, Frames
  <2>2. QED
    BY <2>1, Pushed DEF CancelInv
<1>2. QED
  BY <1>1 DEF CancelInv, IsCancelled

LEMMA CancelInvReceive ==
  ASSUME TypeInv, CancelInv, ExtReceive
  PROVE  CancelInv'
<1> DEFINE c == Head(wire).call
<1>1. /\ wire \in Seq(Frames) /\ wire # <<>>
      /\ wire' = Tail(wire)
      /\ Head(wire) = wire[1] /\ 1 \in DOMAIN wire
      /\ UNCHANGED <<sent, reason, cancelRpc>>
  BY DEF ExtReceive, TypeInv, TypeOK, entryVars
<1>2. c \in Calls
  <2>1. Head(wire) \in Frames
    BY <1>1
  <2>2. QED
    BY <2>1 DEF Frames
<1>3. \A d \in Calls : ext'[d] # "unseen" =>
         ext[d] # "unseen" \/ (d = c /\ Head(wire).type = "request")
  BY <1>2 DEF ExtReceive, TypeInv, TypeOK
<1>4. \A d \in Calls : ext'[d] # "unseen" => sent'[d]
  BY <1>1, <1>3 DEF CancelInv
<1>5. \A i \in DOMAIN wire' : i + 1 \in DOMAIN wire /\ wire'[i] = wire[i + 1]
  BY <1>1
<1>6. \A i \in DOMAIN wire' : wire'[i].type = "request" => sent'[wire'[i].call]
  BY <1>1, <1>5 DEF CancelInv
<1>7. QED
  BY <1>1, <1>4, <1>6 DEF CancelInv, IsCancelled

LEMMA CancelInvTrips ==
  ASSUME TypeInv, CancelInv, NEW c \in Calls, CancelTrip(c) \/ InterruptTrip(c)
  PROVE  CancelInv'
<1> USE DEF extVars
<1>1. CASE CancelTrip(c)
  <2>1. \A d \in Calls : IsCancelled(d) => IsCancelled(d)'
    BY <1>1, TripKeeps DEF CancelTrip
  <2>2. \A d \in Calls : cancelRpc'[d] = "queued" =>
           cancelRpc[d] = "queued" \/ (d = c /\ ~sent[c] /\ c \in inflight)
    BY <1>1 DEF CancelTrip, TypeInv, TypeOK
  <2>3. c \in inflight => IsCancelled(c)'
    BY <1>1, TripKeeps DEF CancelTrip
  <2>4. UNCHANGED <<sent, wire, ext>>
    BY <1>1 DEF CancelTrip
  <2>5. QED
    BY <2>1, <2>2, <2>3, <2>4 DEF CancelInv
<1>2. CASE InterruptTrip(c)
  <2>1. \A d \in Calls : IsCancelled(d) => IsCancelled(d)'
    BY <1>2, TripKeeps DEF InterruptTrip
  <2>2. UNCHANGED <<sent, wire, ext, cancelRpc>>
    BY <1>2 DEF InterruptTrip
  <2>3. QED
    BY <2>1, <2>2 DEF CancelInv
<1>3. QED
  BY <1>1, <1>2

LEMMA CancelInvNext == TypeInv /\ CancelInv /\ [Next]_vars => CancelInv'
<1> SUFFICES ASSUME TypeInv, CancelInv, [Next]_vars
             PROVE  CancelInv'
  OBVIOUS
<1> USE DEF entryVars, extVars, callVars, jobVars
<1>1. ASSUME NEW c \in Calls, Handler(c)
      PROVE  CancelInv'
  BY <1>1, CancelInvKept DEF Handler, Gate, Register, Dispatch, Respond, CallerTimeout,
     StopBegin, StopRemove, StopDrop
<1>2. ASSUME NEW c \in Calls, Worker(c)
      PROVE  CancelInv'
  <2>1. CASE Promote(c)
    BY <2>1, CancelInvPromote
  <2>2. CASE Take(c) \/ TakeResponse(c) \/ ForwardTimeout(c) \/ BeginCleanup(c)
    BY <2>2, CancelInvKept DEF Take, TakeResponse, ForwardTimeout, BeginCleanup
  <2>3. CASE CleanupResponse(c) \/ CleanupTimeout(c) \/ ClearBusy(c)
    BY <2>3, CancelInvKept DEF CleanupResponse, CleanupTimeout, ClearBusy
  <2>4. QED
    BY <1>2, <2>1, <2>2, <2>3 DEF Worker
<1>3. ASSUME NEW c \in Calls, CancelForward(c) \/ InterruptForward(c)
      PROVE  CancelInv'
  <2>1. CASE CancelForward(c)
    BY <2>1, CancelInvPushCancel DEF CancelForward, TypeInv, TypeOK
  <2>2. CASE InterruptForward(c)
    BY <2>2, CancelInvPushCancel DEF InterruptForward
  <2>3. QED
    BY <1>3, <2>1, <2>2
<1>4. ASSUME NEW c \in Calls, CancelTrip(c) \/ InterruptTrip(c)
      PROVE  CancelInv'
  BY <1>4, CancelInvTrips
<1>5. CASE InterruptMark \/ \E s \in Sessions : InterruptCollect(s)
  BY <1>5, CancelInvKept DEF InterruptMark, InterruptCollect
<1>6. CASE Disconnect
  BY <1>6, CancelInvKept DEF Disconnect, SocketLost, Unregister, Purge, CloseSink, DropPurged
<1>7. CASE ExtReceive
  BY <1>7, CancelInvReceive
<1>8. ASSUME NEW c \in Calls, PumpResponse(c) \/ ExtReply(c)
      PROVE  CancelInv'
  BY <1>8 DEF PumpResponse, ExtReply, CancelInv, IsCancelled, TypeInv, TypeOK
<1>9. CASE UNCHANGED vars
  BY <1>9, CancelInvKept DEF vars
<1>10. QED
  BY <1>1, <1>2, <1>3, <1>4, <1>5, <1>6, <1>7, <1>8, <1>9 DEF Next, Interrupt

\* A call whose cancel was answered while it was still queued never reaches the
\* extension, nor is its request under way, whatever else is cancelled,
\* interrupted or lost.
THEOREM CancelFirst == Spec => []QueuedCancelNeverRuns
<1>1. Init => CancelInv
  BY DEF Init, CancelInv
<1>2. CancelInv => QueuedCancelNeverRuns
  <2>1. \A c \in Calls : Request(c).type = "request" /\ Request(c).call = c
    BY DEF Request
  <2>2. QED
    BY <2>1 DEF CancelInv, QueuedCancelNeverRuns
<1>3. QED
  BY <1>1, <1>2, CancelInvNext, TypeInvInit, TypeInvNext, PTL DEF Spec

-----------------------------------------------------------------------------
\* ToolDispatch implements SessionCommands

\* A handler waits, or finishes a stop, for a job it has put on the queue, and
\* has none before.
ProgressInv ==
  \A c \in Calls :
    /\ pc[c] \in {"new", "gated", "registered"} => job[c] = "none"
    /\ pc[c] \in {"waiting", "removing", "dropping"} => job[c] # "none"

\* Of a step of c, what ProgressInv looks at.
LEMMA ProgressStep ==
  ASSUME ProgressInv, NEW c \in Calls,
         \A d \in Calls : d # c => pc'[d] = pc[d] /\ job'[d] = job[d],
         pc'[c] \in {"new", "gated", "registered"} => job'[c] = "none",
         pc'[c] \in {"waiting", "removing", "dropping"} => job'[c] # "none"
  PROVE  ProgressInv'
BY DEF ProgressInv

LEMMA ProgressInit == Init => ProgressInv
<1> SUFFICES ASSUME Init, NEW c \in Calls
             PROVE  pc[c] = "new" /\ job[c] = "none"
  BY DEF ProgressInv
<1>1. pc[c] = "new"
  BY DEF Init
<1>2. job[c] = "none"
  BY DEF Init
<1>3. QED
  BY <1>1, <1>2

LEMMA ProgressKept ==
  ASSUME ProgressInv, UNCHANGED <<pc, job>>
  PROVE  ProgressInv'
BY DEF ProgressInv

\* A job, once there, moves on; it never disappears.
LEMMA WorkerMoves ==
  ASSUME TypeInv, NEW c \in Calls, Worker(c)
  PROVE  /\ pc' = pc
         /\ job[c] # "none" /\ job'[c] # "none"
         /\ \A d \in Calls : d # c => job'[d] = job[d]
<1> USE DEF callVars, jobVars, TypeInv, TypeOK
<1>1. CASE Take(c)
  BY <1>1 DEF Take, Settle
<1>2. CASE Promote(c)
  BY <1>2 DEF Promote, Settle
<1>3. CASE TakeResponse(c) \/ ForwardTimeout(c) \/ BeginCleanup(c)
  BY <1>3 DEF TakeResponse, ForwardTimeout, BeginCleanup, Settle
<1>4. CASE CleanupResponse(c) \/ CleanupTimeout(c) \/ ClearBusy(c)
  BY <1>4 DEF CleanupResponse, CleanupTimeout, ClearBusy, Settle
<1>5. QED
  BY <1>1, <1>2, <1>3, <1>4 DEF Worker

\* What the caller gets ends its call, or moves a stop on.
LEMMA ReturnMoves ==
  ASSUME TypeInv, NEW c \in Calls, NEW r, Return(c, r)
  PROVE  /\ pc'[c] \in {"answered", "removing"}
         /\ \A d \in Calls : d # c => pc'[d] = pc[d]
BY DEF Return, ToolReturn, StopReturn, Answer, TypeInv, TypeOK

LEMMA ProgressHandler ==
  ASSUME TypeInv, ProgressInv, NEW c \in Calls, Handler(c)
  PROVE  ProgressInv'
<1> USE DEF jobVars, TypeInv, TypeOK
<1>1. CASE Gate(c)
  BY <1>1, ProgressStep DEF Gate, Answer, ProgressInv
<1>2. CASE Register(c) \/ StopRemove(c) \/ StopDrop(c)
  BY <1>2, ProgressStep DEF Register, StopRemove, StopDrop, Answer, ProgressInv
<1>3. CASE Dispatch(c)
  BY <1>3, ProgressStep DEF Dispatch, Enqueue, Answer, ProgressInv
<1>4. CASE Respond(c)
  <2>1. /\ job'[c] = "done"
        /\ \A d \in Calls : d # c => job'[d] = job[d] /\ pc'[d] = pc[d]
        /\ job[c] # "none"
    BY <1>4, ReturnMoves DEF Respond, callVars
  <2>2. pc'[c] \in {"answered", "removing"} \/ pc'[c] = pc[c]
    BY <1>4, ReturnMoves DEF Respond, callVars
  <2>3. QED
    BY <2>1, <2>2, ProgressStep DEF ProgressInv
<1>5. CASE CallerTimeout(c)
  BY <1>5, ReturnMoves, ProgressStep DEF CallerTimeout, ProgressInv
<1>6. CASE StopBegin(c)
  BY <1>6, ProgressStep DEF StopBegin, Enqueue, Answer, ProgressInv
<1>7. QED
  BY <1>1, <1>2, <1>3, <1>4, <1>5, <1>6 DEF Handler

\* The steps of the rest, as far as the commands are concerned: no handler and
\* no job moves, and only a trip touches the reasons.
LEMMA RestMoves ==
  ASSUME \/ Interrupt \/ Disconnect \/ ExtReceive
         \/ \E c \in Calls : CancelTrip(c) \/ CancelForward(c) \/ PumpResponse(c) \/ ExtReply(c)
         \/ UNCHANGED vars
  PROVE  /\ UNCHANGED <<pc, job>>
         /\ \/ UNCHANGED reason
            \/ \E c \in Calls : CancelTrip(c) \/ InterruptTrip(c)
<1> USE DEF callVars, jobVars, entryVars
<1>1. CASE Interrupt
  BY <1>1 DEF Interrupt, InterruptCollect, InterruptTrip, InterruptForward, InterruptMark
<1>2. CASE Disconnect
  BY <1>2 DEF Disconnect, SocketLost, Unregister, Purge, CloseSink, DropPurged
<1>3. CASE ExtReceive
  BY <1>3 DEF ExtReceive
<1>4. ASSUME NEW c \in Calls, CancelTrip(c) \/ CancelForward(c) \/ PumpResponse(c) \/ ExtReply(c)
      PROVE  /\ UNCHANGED <<pc, job>>
             /\ UNCHANGED reason \/ CancelTrip(c)
  BY <1>4 DEF CancelTrip, CancelForward, PumpResponse, ExtReply
<1>5. CASE UNCHANGED vars
  BY <1>5 DEF vars
<1>6. QED
  BY <1>1, <1>2, <1>3, <1>4, <1>5

LEMMA ProgressNext == TypeInv /\ ProgressInv /\ [Next]_vars => ProgressInv'
<1> SUFFICES ASSUME TypeInv, ProgressInv, [Next]_vars
             PROVE  ProgressInv'
  OBVIOUS
<1>1. ASSUME NEW c \in Calls, Handler(c)
      PROVE  ProgressInv'
  BY <1>1, ProgressHandler
<1>2. ASSUME NEW c \in Calls, Worker(c)
      PROVE  ProgressInv'
  BY <1>2, WorkerMoves, ProgressStep DEF ProgressInv
<1>3. CASE ~\E c \in Calls : Handler(c) \/ Worker(c)
  BY <1>3, RestMoves, ProgressKept DEF Next
<1>4. QED
  BY <1>1, <1>2, <1>3

\* The states of SessionCommands, by name.
Holders  == [s \in Sessions |-> {c \in Calls : SessionOf[c] = s /\ HoldsLock(c)}]
Phases   == [c \in Calls |-> Phase(c)]
Answered == {c \in Calls : pc[c] = "answered"}

\* A command whose job, reason and answer stay has its phase and its lock.
LEMMA SameCommand ==
  ASSUME NEW d \in Calls, job'[d] = job[d], reason'[d] = reason[d],
         pc'[d] = "answered" <=> pc[d] = "answered"
  PROVE  Phase(d)' = Phase(d) /\ (HoldsLock(d)' <=> HoldsLock(d))
BY DEF Phase, HoldsLock, IsLocked, IsCancelled

LEMMA SameHolderSets ==
  ASSUME \A d \in Calls : HoldsLock(d)' <=> HoldsLock(d)
  PROVE  Holders' = Holders
BY DEF Holders

LEMMA SamePhases ==
  ASSUME \A d \in Calls : Phase(d)' = Phase(d)
  PROVE  Phases' = Phases
BY DEF Phases

\* One command's phase.
LEMMA PhaseChange ==
  ASSUME NEW c \in Calls, \A d \in Calls : d # c => Phase(d)' = Phase(d)
  PROVE  Phases' = [Phases EXCEPT ![c] = Phase(c)']
BY DEF Phases

\* Nothing of any command changes.
LEMMA MapStutter ==
  ASSUME Holders' = Holders, Phases' = Phases, Answered' = Answered
  PROVE  UNCHANGED Commands!vars
BY DEF Commands!vars, Holders, Phases, Answered

\* The steps of SessionCommands in the names above.
LEMMA MapRefuse ==
  ASSUME NEW c \in Calls, Phase(c) = "asked", Phase(c)' = "refused",
         Phases' = [Phases EXCEPT ![c] = Phase(c)'],
         Holders' = Holders, Answered' = Answered \cup {c}
  PROVE  Commands!Next
<1>1. Commands!Refuse(c)
  BY DEF Commands!Refuse, Commands!Advance, Holders, Phases, Answered
<1>2. QED
  BY <1>1 DEF Commands!Next

LEMMA MapAccept ==
  ASSUME NEW c \in Calls, Phase(c) = "asked", Phase(c)' \in {"accepted", "revoked"},
         Phases' = [Phases EXCEPT ![c] = Phase(c)'], Answered' = Answered,
         IsLocked(c) => /\ Holders[SessionOf[c]] = {}
                        /\ Holders' = [Holders EXCEPT ![SessionOf[c]] = {c}],
         ~IsLocked(c) => Holders' = Holders
  PROVE  Commands!Next
<1>1. \E p \in {"accepted", "revoked"} : Commands!Advance(c, {"asked"}, p)
  BY DEF Commands!Advance, Phases
<1>2. Commands!Accept(c)
  BY <1>1 DEF Commands!Accept, Holders, Answered
<1>3. QED
  BY <1>2 DEF Commands!Next

LEMMA MapAnswer ==
  ASSUME NEW c \in Calls, Phase(c) \notin {"asked", "refused"}, pc[c] # "answered",
         Phases' = Phases, Holders' = Holders, Answered' = Answered \cup {c}
  PROVE  Commands!Next
<1>1. Commands!Answer(c)
  BY DEF Commands!Answer, Holders, Phases, Answered
<1>2. QED
  BY <1>1 DEF Commands!Next

\* A command moves on, and neither the locks nor the answers change.
LEMMA MapMove ==
  ASSUME NEW c \in Calls,
         Phases' = [Phases EXCEPT ![c] = Phase(c)'],
         Holders' = Holders, Answered' = Answered,
         \/ Phase(c) = "accepted" /\ Phase(c)' \in {"revoked", "sent"}
         \/ Phase(c) \in {"accepted", "revoked", "sent"} /\ Phase(c)' = "settled"
  PROVE  Commands!Next
<1>1. Commands!Revoke(c) \/ Commands!Send(c) \/ Commands!Settle(c)
  BY DEF Commands!Revoke, Commands!Send, Commands!Settle, Commands!Advance,
         Holders, Phases, Answered
<1>2. QED
  BY <1>1 DEF Commands!Next

LEMMA MapRelease ==
  ASSUME NEW c \in Calls, Phase(c) = "settled", c \in Holders[SessionOf[c]],
         Holders' = [Holders EXCEPT ![SessionOf[c]] = @ \ {c}],
         Phases' = Phases, Answered' = Answered
  PROVE  Commands!Next
<1>1. Commands!Release(c)
  BY DEF Commands!Release, Holders, Phases, Answered
<1>2. QED
  BY <1>1 DEF Commands!Next

\* The handler's steps.
LEMMA AnsweredNow ==
  ASSUME TypeInv, NEW c \in Calls, NEW r, Answer(c, r)
  PROVE  /\ Answered' = Answered \cup {c}
         /\ \A d \in Calls : d # c => (pc'[d] = "answered" <=> pc[d] = "answered")
         /\ pc'[c] = "answered"
BY DEF Answer, Answered, TypeInv, TypeOK

\* A command turned away before it had a job.
LEMMA RefusesCommand ==
  ASSUME TypeInv, ProgressInv, NEW c \in Calls, NEW r, Answer(c, r),
         UNCHANGED <<job, reason>>, pc[c] \in {"new", "gated", "registered"}
  PROVE  Commands!Next
<1>1. Phase(c) = "asked" /\ Phase(c)' = "refused" /\ ~HoldsLock(c) /\ ~HoldsLock(c)'
  BY AnsweredNow DEF ProgressInv, Phase, HoldsLock
<1>2. \A d \in Calls : d # c => Phase(d)' = Phase(d) /\ (HoldsLock(d)' <=> HoldsLock(d))
  BY SameCommand, AnsweredNow
<1>3. Phases' = [Phases EXCEPT ![c] = Phase(c)'] /\ Holders' = Holders
  BY <1>1, <1>2, PhaseChange, SameHolderSets
<1>4. QED
  BY <1>1, <1>3, AnsweredNow, MapRefuse

\* A command put on the queue, with the lock if it needs it.
LEMMA AcceptsCommand ==
  ASSUME TypeInv, ProgressInv, BusyLock, NEW c \in Calls, Enqueue(c), reason' = reason,
         Refusal(c) = "none", pc[c] \in {"new", "registered"}
  PROVE  Commands!Next
<1> DEFINE s == SessionOf[c]
<1>1. /\ job[c] = "none" /\ pc[c] # "answered"
      /\ job'[c] = "queued" /\ pc'[c] = "waiting"
      /\ \A d \in Calls : d # c => job'[d] = job[d] /\ pc'[d] = pc[d]
  BY DEF Enqueue, ProgressInv, TypeInv, TypeOK
<1>2. /\ Phase(c) = "asked" /\ Phase(c)' \in {"accepted", "revoked"}
      /\ HoldsLock(c)' <=> IsLocked(c)
      /\ ~HoldsLock(c)
  BY <1>1 DEF Phase, HoldsLock, IsLocked, IsCancelled
<1>3. \A d \in Calls : d # c => Phase(d)' = Phase(d) /\ (HoldsLock(d)' <=> HoldsLock(d))
  BY <1>1, SameCommand
<1>4. Phases' = [Phases EXCEPT ![c] = Phase(c)'] /\ Answered' = Answered
  BY <1>1, <1>3, PhaseChange DEF Answered
<1>5. ASSUME ~IsLocked(c)
      PROVE  Holders' = Holders
  BY <1>2, <1>3, <1>5, SameHolderSets
<1>6. ASSUME IsLocked(c)
      PROVE  Holders[s] = {} /\ Holders' = [Holders EXCEPT ![s] = {c}]
  <2>1. s \in Sessions
    BY ConstantsAssumption
  <2>2. ~busy[s]
    BY <1>6, <2>1 DEF Refusal, TypeInv, TypeOK
  <2>3. \A d \in Calls : SessionOf[d] = s => ~HoldsLock(d)
    BY <2>1, <2>2 DEF BusyLock
  <2>4. Holders[s] = {}
    BY <2>1, <2>3 DEF Holders
  <2>5. {d \in Calls : SessionOf[d] = s /\ HoldsLock(d)'} = {c}
    BY <1>2, <1>3, <1>6, <2>3
  <2>6. \A t \in Sessions : t # s =>
           {d \in Calls : SessionOf[d] = t /\ HoldsLock(d)'}
             = {d \in Calls : SessionOf[d] = t /\ HoldsLock(d)}
    BY <1>3
  <2>7. Holders' = [Holders EXCEPT ![s] = {c}]
    BY <2>1, <2>5, <2>6 DEF Holders
  <2>8. QED
    BY <2>4, <2>7
<1>7. QED
  BY <1>2, <1>4, <1>5, <1>6, MapAccept

\* The caller's answer, or a stop that moves on towards it, once the job has
\* left the lock or is left to go on.
LEMMA AnswersCommand ==
  ASSUME TypeInv, ProgressInv, NEW c \in Calls, pc[c] \in {"waiting", "dropping"},
         NEW r, Answer(c, r), reason' = reason,
         \A d \in Calls : d # c => job'[d] = job[d],
         job'[c] = job[c]
           \/ (job'[c] = "done" /\ (job[c] = "cleared" \/ (job[c] = "settled" /\ ~IsLocked(c))))
  PROVE  Commands!Next
<1>1. Phase(c)' = Phase(c) /\ Phase(c) \notin {"asked", "refused"}
  BY AnsweredNow DEF ProgressInv, Phase, IsCancelled, TypeInv, TypeOK, JobSteps
<1>2. HoldsLock(c)' <=> HoldsLock(c)
  BY DEF HoldsLock, IsLocked
<1>3. \A d \in Calls : d # c => Phase(d)' = Phase(d) /\ (HoldsLock(d)' <=> HoldsLock(d))
  BY SameCommand, AnsweredNow
<1>4. Phases' = Phases /\ Holders' = Holders
  BY <1>1, <1>2, <1>3, SamePhases, SameHolderSets
<1>5. QED
  BY <1>1, <1>4, AnsweredNow, MapAnswer

\* A step that no caller, lock or phase shows.
LEMMA HiddenStep ==
  ASSUME \A d \in Calls : pc'[d] = "answered" <=> pc[d] = "answered",
         UNCHANGED <<job, reason>>
  PROVE  UNCHANGED Commands!vars
<1>1. \A d \in Calls : Phase(d)' = Phase(d) /\ (HoldsLock(d)' <=> HoldsLock(d))
  BY SameCommand
<1>2. Answered' = Answered
  BY DEF Answered
<1>3. QED
  BY <1>1, <1>2, SamePhases, SameHolderSets, MapStutter

\* Respond, with its caller gone or a stop that goes on to remove the session.
LEMMA HiddenRespond ==
  ASSUME TypeInv, NEW c \in Calls, Respond(c),
         \A d \in Calls : pc'[d] = "answered" <=> pc[d] = "answered"
  PROVE  UNCHANGED Commands!vars
<1>1. /\ job[c] = IF IsLocked(c) THEN "cleared" ELSE "settled"
      /\ job' = [job EXCEPT ![c] = "done"] /\ reason' = reason
  BY DEF Respond, entryVars
<1>2. Phase(c)' = Phase(c) /\ (HoldsLock(c)' <=> HoldsLock(c))
  BY <1>1 DEF Phase, HoldsLock, IsLocked, IsCancelled, TypeInv, TypeOK
<1>3. \A d \in Calls : d # c => Phase(d)' = Phase(d) /\ (HoldsLock(d)' <=> HoldsLock(d))
  BY <1>1, SameCommand DEF TypeInv, TypeOK
<1>4. Answered' = Answered
  BY DEF Answered
<1>5. QED
  BY <1>2, <1>3, <1>4, SamePhases, SameHolderSets, MapStutter

LEMMA HandlerMaps ==
  ASSUME TypeInv, ProgressInv, BusyLock, NEW c \in Calls, Handler(c)
  PROVE  Commands!Next \/ UNCHANGED Commands!vars
<1> USE DEF entryVars, jobVars, callVars
<1>1. CASE Gate(c)
  <2>1. CASE IsGated(c) /\ SessionOf[c] \in interrupts
    BY <1>1, <2>1, RefusesCommand DEF Gate
  <2>2. CASE ~(IsGated(c) /\ SessionOf[c] \in interrupts)
    BY <1>1, <2>2, HiddenStep DEF Gate, TypeInv, TypeOK
  <2>3. QED
    BY <2>1, <2>2
<1>2. CASE Register(c) \/ StopRemove(c)
  BY <1>2, HiddenStep DEF Register, StopRemove, TypeInv, TypeOK
<1>3. CASE Dispatch(c)
  BY <1>3, AcceptsCommand, RefusesCommand DEF Dispatch
<1>4. CASE Respond(c)
  <2>1. CASE \E r : Answer(c, r) /\ pc[c] = "waiting"
    BY <1>4, <2>1, AnswersCommand DEF Respond, TypeInv, TypeOK
  <2>2. CASE ~\E r : Answer(c, r) /\ pc[c] = "waiting"
    <3>1. \A d \in Calls : pc'[d] = "answered" <=> pc[d] = "answered"
      BY <1>4, <2>2 DEF Respond, Return, ToolReturn, StopReturn, TypeInv, TypeOK
    <3>2. QED
      BY <1>4, <3>1, HiddenRespond
  <2>3. QED
    BY <2>1, <2>2
<1>5. CASE CallerTimeout(c)
  <2>1. Answer(c, "timeout")
    BY <1>5 DEF CallerTimeout, Return, ToolReturn, StopReturn
  <2>2. QED
    BY <1>5, <2>1, AnswersCommand DEF CallerTimeout
<1>6. CASE StopBegin(c)
  BY <1>6, AcceptsCommand, RefusesCommand DEF StopBegin
<1>7. CASE StopDrop(c)
  BY <1>7, AnswersCommand DEF StopDrop
<1>8. QED
  BY <1>1, <1>2, <1>3, <1>4, <1>5, <1>6, <1>7 DEF Handler

\* The steps of forward_one: a verdict settles the command, Promote sends it,
\* and the rest is hidden.
LEMMA WorkerFrame ==
  ASSUME TypeInv, NEW c \in Calls, Worker(c)
  PROVE  /\ reason' = reason /\ Answered' = Answered
         /\ \A d \in Calls : d # c => Phase(d)' = Phase(d) /\ (HoldsLock(d)' <=> HoldsLock(d))
<1>1. reason' = reason
  BY DEF Worker, Take, Promote, TakeResponse, ForwardTimeout, BeginCleanup,
         CleanupResponse, CleanupTimeout, ClearBusy, entryVars
<1>2. QED
  BY <1>1, WorkerMoves, SameCommand DEF Answered

LEMMA WorkerStep ==
  ASSUME TypeInv, NEW c \in Calls, Worker(c), ~ClearBusy(c)
  PROVE  /\ job[c] \in {"queued", "promoting", "waiting", "cleanup"}
         /\ job'[c] \in {"promoting", "waiting", "cleanup", "settled"}
         /\ \/ job'[c] = "settled"
            \/ job[c] = "queued" /\ job'[c] = "promoting"
            \/ job[c] = "promoting" /\ job'[c] = "waiting" /\ ~IsCancelled(c)
            \/ job[c] = "waiting" /\ job'[c] = "cleanup"
<1> USE DEF TypeInv, TypeOK
<1>1. CASE Take(c)
  BY <1>1 DEF Take, Settle
<1>2. CASE Promote(c)
  BY <1>2 DEF Promote, Settle
<1>3. CASE TakeResponse(c) \/ ForwardTimeout(c) \/ BeginCleanup(c)
  BY <1>3 DEF TakeResponse, ForwardTimeout, BeginCleanup, Settle
<1>4. CASE CleanupResponse(c) \/ CleanupTimeout(c)
  BY <1>4 DEF CleanupResponse, CleanupTimeout, Settle
<1>5. QED
  BY <1>1, <1>2, <1>3, <1>4 DEF Worker

LEMMA WorkerMaps ==
  ASSUME TypeInv, NEW c \in Calls, Worker(c)
  PROVE  Commands!Next \/ UNCHANGED Commands!vars
<1>1. Phases' = [Phases EXCEPT ![c] = Phase(c)'] /\ Answered' = Answered
  BY WorkerFrame, PhaseChange
<1>2. CASE ~ClearBusy(c)
  <2>1. HoldsLock(c)' <=> HoldsLock(c)
    BY <1>2, WorkerStep DEF HoldsLock, IsLocked
  <2>2. Holders' = Holders
    BY <2>1, WorkerFrame, SameHolderSets
  <2>3. \/ Phase(c)' = Phase(c)
        \/ Phase(c) = "accepted" /\ Phase(c)' = "sent"
        \/ Phase(c) \in {"accepted", "revoked", "sent"} /\ Phase(c)' = "settled"
    BY <1>2, WorkerStep, WorkerFrame DEF Phase, IsCancelled
  <2>4. Phase(c)' = Phase(c) => Phases' = Phases
    BY <1>1 DEF Phases
  <2>5. QED
    BY <1>1, <2>2, <2>3, <2>4, MapMove, MapStutter
<1>3. CASE ClearBusy(c)
  <2> DEFINE s == SessionOf[c]
  <2>1. s \in Sessions
    BY ConstantsAssumption
  <2>2. job[c] = "settled" /\ job'[c] = "cleared" /\ IsLocked(c)
    BY <1>3 DEF ClearBusy, TypeInv, TypeOK
  <2>3. Phase(c) = "settled" /\ Phase(c)' = "settled" /\ HoldsLock(c) /\ ~HoldsLock(c)'
    BY <2>2 DEF Phase, HoldsLock
  <2>4. Phases' = Phases
    BY <1>1, <2>3 DEF Phases
  <2>5. c \in Holders[s]
    BY <2>1, <2>3 DEF Holders
  <2>6. \A t \in Sessions :
           {d \in Calls : SessionOf[d] = t /\ HoldsLock(d)'}
             = IF t = s THEN {d \in Calls : SessionOf[d] = t /\ HoldsLock(d)} \ {c}
                        ELSE {d \in Calls : SessionOf[d] = t /\ HoldsLock(d)}
    BY <2>3, WorkerFrame
  <2>7. Holders' = [Holders EXCEPT ![s] = @ \ {c}]
    BY <2>1, <2>6 DEF Holders
  <2>8. QED
    BY <1>1, <2>3, <2>4, <2>5, <2>7, MapRelease
<1>4. QED
  BY <1>2, <1>3

\* A trip revokes a command that is accepted and not sent, and nothing else.
LEMMA TripMaps ==
  ASSUME TypeInv, NEW c \in Calls, CancelTrip(c) \/ InterruptTrip(c)
  PROVE  Commands!Next \/ UNCHANGED Commands!vars
<1>1. UNCHANGED <<pc, job>>
  BY DEF CancelTrip, InterruptTrip, callVars, jobVars
<1>2. \A d \in Calls : d # c => reason'[d] = reason[d]
  BY DEF CancelTrip, InterruptTrip, TripAll
<1>3. \A d \in Calls : IsCancelled(d) => IsCancelled(d)'
  BY TripKeeps DEF CancelTrip, InterruptTrip
<1>4. /\ \A d \in Calls : d # c => Phase(d)' = Phase(d)
      /\ \A d \in Calls : HoldsLock(d)' <=> HoldsLock(d)
      /\ Answered' = Answered
  BY <1>1, <1>2, SameCommand DEF HoldsLock, IsLocked, Answered
<1>5. Holders' = Holders /\ Phases' = [Phases EXCEPT ![c] = Phase(c)']
  BY <1>4, SameHolderSets, PhaseChange
<1>6. \/ Phase(c)' = Phase(c)
      \/ Phase(c) = "accepted" /\ Phase(c)' = "revoked"
  BY <1>1, <1>3 DEF Phase
<1>7. Phase(c)' = Phase(c) => Phases' = Phases
  BY <1>5 DEF Phases
<1>8. QED
  BY <1>4, <1>5, <1>6, <1>7, MapMove, MapStutter

\* Every step of the daemon, of the connection and of the extension is a step of
\* the promise or is hidden: for any calls and sessions, a command holds its
\* session alone, is sent at most once and never after it was revoked, and is
\* answered once.
THEOREM Implementation == Spec => ImplementsCommands
<1>1. Init => Commands!Init
  BY DEF Init, Commands!Init, Phase, HoldsLock
<1>2. ASSUME TypeInv, ProgressInv, BusyLock, [Next]_vars
      PROVE  [Commands!Next]_(Commands!vars)
  <2>1. ASSUME NEW c \in Calls, Handler(c)
        PROVE  Commands!Next \/ UNCHANGED Commands!vars
    BY <1>2, <2>1, HandlerMaps
  <2>2. ASSUME NEW c \in Calls, Worker(c)
        PROVE  Commands!Next \/ UNCHANGED Commands!vars
    BY <1>2, <2>2, WorkerMaps
  <2>3. ASSUME NEW c \in Calls, CancelTrip(c) \/ InterruptTrip(c)
        PROVE  Commands!Next \/ UNCHANGED Commands!vars
    BY <1>2, <2>3, TripMaps
  <2>4. CASE UNCHANGED <<pc, job, reason>>
    BY <2>4, HiddenStep
  <2>5. QED
    BY <1>2, <2>1, <2>2, <2>3, <2>4, RestMoves DEF Next
<1>3. QED
  BY <1>1, <1>2, ProgressInit, OneCommandPerSession, ProgressNext, TypeInvInit, TypeInvNext,
     PTL DEF Spec, ImplementsCommands, Commands!Spec

-----------------------------------------------------------------------------
\* The stop barrier

\* A session.stop between its lock and its answer, and one that succeeded.
Stopping(d) == ~IsTool(d) /\ pc[d] \in {"waiting", "removing", "dropping"}
Stopped(d)  == ~IsTool(d) /\ outcome[d] = "ok"

\* While a stop is under way its session's queue does not accept, so the lock it
\* took goes to nobody else; a reopened queue is that of a stop that is over.
StopInv ==
  /\ \A c \in Calls : pc[c] # "answered" => outcome[c] = "none"
  /\ \A c \in Calls : /\ pc[c] \in {"gated", "registered"} => IsTool(c)
                      /\ pc[c] \in {"removing", "dropping"} => ~IsTool(c)
  /\ \A d \in Calls : Stopping(d) => queue[SessionOf[d]] # "accepting"
  /\ \A d \in Calls : Stopped(d) => queue[SessionOf[d]] = "absent"
  /\ \A d, e \in Calls :
       Stopping(d) /\ Stopping(e) /\ SessionOf[d] = SessionOf[e] => d = e
  /\ \A d \in Calls :
       Stopped(d) \/ (Stopping(d) /\ pc[d] # "waiting") => job[d] = "done"
  /\ \A c, d \in Calls :
       (Stopping(d) \/ Stopped(d)) /\ HoldsLock(c) /\ SessionOf[c] = SessionOf[d] => c = d

LEMMA StopInit == Init => StopInv
<1> SUFFICES ASSUME Init
             PROVE  StopInv
  OBVIOUS
<1>1. \A c \in Calls : pc[c] = "new" /\ outcome[c] = "none" /\ job[c] = "none"
  BY DEF Init
<1>2. QED
  BY <1>1 DEF StopInv, Stopping, Stopped

\* No handler moves, no queue opens, nobody takes a lock, no job comes back.
LEMMA StopInvKept ==
  ASSUME StopInv, UNCHANGED <<pc, outcome>>,
         \A s \in Sessions : queue'[s] \in {queue[s], "absent"},
         \A d \in Calls : /\ HoldsLock(d)' => HoldsLock(d)
                          /\ job[d] = "done" => job'[d] = "done"
  PROVE  StopInv'
BY ConstantsAssumption DEF StopInv, Stopping, Stopped, IsTool

LEMMA StopInvWorker ==
  ASSUME TypeInv, StopInv, NEW c \in Calls, Worker(c)
  PROVE  StopInv'
<1>1. UNCHANGED <<pc, outcome, queue>>
  BY DEF Worker, Take, Promote, TakeResponse, ForwardTimeout, BeginCleanup,
         CleanupResponse, CleanupTimeout, ClearBusy, callVars, sessionVars
<1>2. \A d \in Calls : d # c => job'[d] = job[d]
  BY WorkerMoves
<1>3. job[c] # "done" /\ (HoldsLock(c)' => HoldsLock(c))
  <2>1. CASE ClearBusy(c)
    BY <2>1 DEF ClearBusy, HoldsLock, TypeInv, TypeOK
  <2>2. CASE ~ClearBusy(c)
    BY <2>2, WorkerStep DEF HoldsLock, IsLocked
  <2>3. QED
    BY <2>1, <2>2
<1>4. \A d \in Calls : HoldsLock(d)' => HoldsLock(d)
  BY <1>2, <1>3 DEF HoldsLock, IsLocked
<1>5. QED
  BY <1>1, <1>2, <1>3, <1>4, StopInvKept

\* A tool call's handler moves and takes no lock.
LEMMA StopInvTool ==
  ASSUME StopInv, NEW c \in Calls, IsTool(c), queue' = queue,
         \A d \in Calls : d # c => pc'[d] = pc[d] /\ outcome'[d] = outcome[d],
         pc'[c] # "answered" => outcome'[c] = "none",
         pc'[c] \notin {"removing", "dropping"},
         \A d \in Calls : /\ HoldsLock(d)' => HoldsLock(d)
                          /\ job[d] = "done" => job'[d] = "done"
  PROVE  StopInv'
BY DEF StopInv, Stopping, Stopped, IsTool

\* A call is taken on only by a queue that accepts, hence on no session whose
\* stop is under way or succeeded.
LEMMA AcceptingHasNoStop ==
  ASSUME TypeInv, StopInv, NEW c \in Calls, Refusal(c) = "none"
  PROVE  /\ queue[SessionOf[c]] = "accepting"
         /\ \A d \in Calls : SessionOf[d] = SessionOf[c] => ~Stopping(d) /\ ~Stopped(d)
<1>1. queue[SessionOf[c]] = "accepting"
  BY ConstantsAssumption DEF Refusal, TypeInv, TypeOK
<1>2. QED
  BY <1>1 DEF StopInv

LEMMA StopInvEnqueueTool ==
  ASSUME TypeInv, StopInv, NEW c \in Calls, IsTool(c), Refusal(c) = "none", Enqueue(c),
         job[c] = "none", pc[c] # "answered", UNCHANGED <<outcome, queue>>
  PROVE  StopInv'
<1>1. /\ \A d \in Calls : d # c => job'[d] = job[d] /\ pc'[d] = pc[d]
      /\ pc'[c] = "waiting" /\ job'[c] = "queued"
  BY DEF Enqueue, TypeInv, TypeOK
<1>2. \A d \in Calls : /\ (Stopping(d)' <=> Stopping(d)) /\ (Stopped(d)' <=> Stopped(d))
                       /\ IsTool(d)' <=> IsTool(d)
                       /\ d # c => (HoldsLock(d)' <=> HoldsLock(d))
  BY <1>1 DEF Stopping, Stopped, HoldsLock, IsLocked, IsTool
<1>3. \A d \in Calls : SessionOf[d] = SessionOf[c] => ~Stopping(d) /\ ~Stopped(d)
  BY AcceptingHasNoStop
<1>4. QED
  BY <1>1, <1>2, <1>3 DEF StopInv

LEMMA StopInvEnqueueStop ==
  ASSUME TypeInv, BusyLock, StopInv, NEW c \in Calls, ~IsTool(c), Refusal(c) = "none",
         Enqueue(c), job[c] = "none", pc[c] = "new", outcome' = outcome,
         queue' = [queue EXCEPT ![SessionOf[c]] = "closing"]
  PROVE  StopInv'
<1> DEFINE s == SessionOf[c]
<1>1. /\ \A d \in Calls : d # c => job'[d] = job[d] /\ pc'[d] = pc[d]
      /\ pc'[c] = "waiting" /\ job'[c] = "queued"
      /\ s \in Sessions
      /\ queue'[s] = "closing"
      /\ \A t \in Sessions : t # s => queue'[t] = queue[t]
  BY ConstantsAssumption DEF Enqueue, TypeInv, TypeOK
<1>2. /\ \A d \in Calls : d # c => /\ Stopping(d)' <=> Stopping(d)
                                   /\ Stopped(d)' <=> Stopped(d)
                                   /\ HoldsLock(d)' <=> HoldsLock(d)
      /\ outcome[c] = "none" /\ ~Stopped(c)'
  BY <1>1 DEF StopInv, Stopping, Stopped, HoldsLock, IsLocked, IsTool
<1>3. \A d \in Calls : SessionOf[d] = s => ~Stopping(d) /\ ~Stopped(d) /\ ~HoldsLock(d)
  <2>1. IsLocked(c)
    BY DEF IsTool, IsLocked
  <2>2. ~busy[s]
    BY <2>1, <1>1 DEF Refusal, TypeInv, TypeOK
  <2>3. QED
    BY <2>2, <1>1, AcceptingHasNoStop DEF BusyLock
<1>4. \A d \in Calls : SessionOf[d] \in Sessions
  BY ConstantsAssumption
<1>5. /\ \A d \in Calls : pc'[d] # "answered" => outcome'[d] = "none"
      /\ \A d \in Calls : /\ pc'[d] \in {"gated", "registered"} => IsTool(d)'
                          /\ pc'[d] \in {"removing", "dropping"} => ~IsTool(d)'
  BY <1>1 DEF StopInv, IsTool
<1>6. /\ \A d \in Calls : Stopping(d)' => queue'[SessionOf[d]] # "accepting"
      /\ \A d \in Calls : Stopped(d)' => queue'[SessionOf[d]] = "absent"
  BY <1>1, <1>2, <1>3, <1>4 DEF StopInv
<1>7. /\ \A d, e \in Calls :
           Stopping(d)' /\ Stopping(e)' /\ SessionOf[d] = SessionOf[e] => d = e
      /\ \A d \in Calls :
           Stopped(d)' \/ (Stopping(d)' /\ pc'[d] # "waiting") => job'[d] = "done"
      /\ \A e, d \in Calls :
           (Stopping(d)' \/ Stopped(d)') /\ HoldsLock(e)' /\ SessionOf[e] = SessionOf[d]
             => e = d
  BY <1>1, <1>2, <1>3 DEF StopInv
<1>8. QED
  BY <1>5, <1>6, <1>7 DEF StopInv

\* A stop that is answered with an error: its session may accept again, for no
\* other stop is under way there.
LEMMA StopInvFails ==
  ASSUME TypeInv, StopInv, NEW c \in Calls, ~IsTool(c), NEW r, r # "ok", Answer(c, r),
         queue' = queue \/ (Stopping(c) /\ queue' = Reopened(SessionOf[c])),
         ~Stopped(c),
         \A d \in Calls : /\ HoldsLock(d)' => HoldsLock(d)
                          /\ job[d] = "done" => job'[d] = "done"
  PROVE  StopInv'
<1>1. /\ \A d \in Calls : d # c => pc'[d] = pc[d] /\ outcome'[d] = outcome[d]
      /\ pc'[c] = "answered" /\ outcome'[c] = r
  BY DEF Answer, TypeInv, TypeOK
<1>2. /\ \A d \in Calls : d # c => /\ Stopping(d)' <=> Stopping(d)
                                   /\ Stopped(d)' <=> Stopped(d)
      /\ ~Stopping(c)' /\ ~Stopped(c)'
  BY <1>1 DEF Stopping, Stopped, IsTool
<1>3. \A d \in Calls : SessionOf[d] \in Sessions
  BY ConstantsAssumption
<1>4. ASSUME NEW d \in Calls, Stopping(d)'
      PROVE  queue'[SessionOf[d]] # "accepting"
  <2>1. d # c /\ Stopping(d)
    BY <1>2, <1>4
  <2>2. Stopping(c) => SessionOf[d] # SessionOf[c]
    BY <2>1 DEF StopInv
  <2>3. queue'[SessionOf[d]] = queue[SessionOf[d]]
    BY <2>2, <1>3 DEF Reopened, TypeInv, TypeOK
  <2>4. QED
    BY <2>1, <2>3 DEF StopInv
<1>5. ASSUME NEW d \in Calls, Stopped(d)'
      PROVE  queue'[SessionOf[d]] = "absent"
  <2>1. queue[SessionOf[d]] = "absent"
    BY <1>2, <1>5 DEF StopInv
  <2>2. QED
    BY <2>1, <1>3 DEF Reopened, TypeInv, TypeOK
<1>6. /\ \A d \in Calls : pc'[d] # "answered" => outcome'[d] = "none"
      /\ \A d \in Calls : /\ pc'[d] \in {"gated", "registered"} => IsTool(d)'
                          /\ pc'[d] \in {"removing", "dropping"} => ~IsTool(d)'
  BY <1>1 DEF StopInv, IsTool
<1>7. /\ \A d, e \in Calls :
           Stopping(d)' /\ Stopping(e)' /\ SessionOf[d] = SessionOf[e] => d = e
      /\ \A d \in Calls :
           Stopped(d)' \/ (Stopping(d)' /\ pc'[d] # "waiting") => job'[d] = "done"
      /\ \A e, d \in Calls :
           (Stopping(d)' \/ Stopped(d)') /\ HoldsLock(e)' /\ SessionOf[e] = SessionOf[d]
             => e = d
  BY <1>1, <1>2 DEF StopInv
<1>8. QED
  BY <1>4, <1>5, <1>6, <1>7 DEF StopInv

\* A stop that goes on, its job done: to the removal, to the drop, to its answer.
LEMMA StopInvGoesOn ==
  ASSUME TypeInv, StopInv, NEW c \in Calls, Stopping(c), job'[c] = "done",
         \A d \in Calls : d # c => pc'[d] = pc[d] /\ outcome'[d] = outcome[d],
         \/ pc'[c] \in {"removing", "dropping"} /\ outcome'[c] = outcome[c] /\ queue' = queue
         \/ /\ pc'[c] = "answered" /\ outcome'[c] = "ok"
            /\ queue' = [queue EXCEPT ![SessionOf[c]] = "absent"],
         \A d \in Calls : /\ HoldsLock(d)' => HoldsLock(d)
                          /\ job[d] = "done" => job'[d] = "done"
  PROVE  StopInv'
<1>1. /\ \A d \in Calls : d # c => /\ Stopping(d)' <=> Stopping(d)
                                   /\ Stopped(d)' <=> Stopped(d)
      /\ Stopping(c)' => outcome'[c] = outcome[c]
  BY DEF Stopping, Stopped, IsTool
<1>2. \A d \in Calls : SessionOf[d] \in Sessions
  BY ConstantsAssumption
<1>3. /\ \A d \in Calls : Stopping(d)' => queue'[SessionOf[d]] # "accepting"
      /\ \A d \in Calls : Stopped(d)' => queue'[SessionOf[d]] = "absent"
  <2>1. CASE queue' = queue /\ outcome'[c] = outcome[c]
    BY <2>1, <1>1 DEF StopInv, Stopping, Stopped
  <2>2. CASE queue' = [queue EXCEPT ![SessionOf[c]] = "absent"]
    BY <2>2, <1>1, <1>2 DEF StopInv, TypeInv, TypeOK
  <2>3. QED
    BY <2>1, <2>2
<1>4. /\ \A d \in Calls : pc'[d] # "answered" => outcome'[d] = "none"
      /\ \A d \in Calls : /\ pc'[d] \in {"gated", "registered"} => IsTool(d)'
                          /\ pc'[d] \in {"removing", "dropping"} => ~IsTool(d)'
  BY DEF StopInv, Stopping, IsTool
<1>5. /\ \A d, e \in Calls :
           Stopping(d)' /\ Stopping(e)' /\ SessionOf[d] = SessionOf[e] => d = e
      /\ \A d \in Calls :
           Stopped(d)' \/ (Stopping(d)' /\ pc'[d] # "waiting") => job'[d] = "done"
      /\ \A e, d \in Calls :
           (Stopping(d)' \/ Stopped(d)') /\ HoldsLock(e)' /\ SessionOf[e] = SessionOf[d]
             => e = d
  BY <1>1 DEF StopInv
<1>6. QED
  BY <1>3, <1>4, <1>5 DEF StopInv

LEMMA StopInvRespond ==
  ASSUME TypeInv, StopInv, NEW c \in Calls, Respond(c)
  PROVE  StopInv'
<1>1. /\ job' = [job EXCEPT ![c] = "done"]
      /\ job[c] = IF IsLocked(c) THEN "cleared" ELSE "settled"
  BY DEF Respond
<1>2. /\ \A d \in Calls : d # c => job'[d] = job[d]
      /\ job'[c] = "done"
      /\ \A d \in Calls : HoldsLock(d)' => HoldsLock(d)
  BY <1>1 DEF HoldsLock, IsLocked, TypeInv, TypeOK
<1>3. CASE pc[c] # "waiting"
  BY <1>2, <1>3, StopInvKept DEF Respond, callVars
<1>4. CASE pc[c] = "waiting" /\ IsTool(c)
  <2>1. Answer(c, result[c]) /\ queue' = queue
    BY <1>4 DEF Respond, Return, ToolReturn
  <2>2. /\ \A d \in Calls : d # c => pc'[d] = pc[d] /\ outcome'[d] = outcome[d]
        /\ pc'[c] = "answered"
    BY <2>1 DEF Answer, TypeInv, TypeOK
  <2>3. QED
    BY <1>2, <1>4, <2>1, <2>2, StopInvTool
<1>5. CASE pc[c] = "waiting" /\ ~IsTool(c)
  <2>1. StopReturn(c, result[c]) /\ Stopping(c) /\ ~Stopped(c)
    BY <1>5 DEF Respond, Return, Stopping, Stopped, StopInv
  <2>2. CASE result[c] \in {"ok", "not_found"}
    <3>1. pc' = [pc EXCEPT ![c] = "removing"] /\ UNCHANGED <<outcome, queue>>
      BY <2>1, <2>2 DEF StopReturn
    <3>2. pc'[c] = "removing" /\ \A d \in Calls : d # c => pc'[d] = pc[d]
      BY <3>1 DEF TypeInv, TypeOK
    <3>3. QED
      BY <1>2, <2>1, <3>1, <3>2, StopInvGoesOn
  <2>3. CASE result[c] \notin {"ok", "not_found"}
    BY <1>2, <1>5, <2>1, <2>3, StopInvFails DEF StopReturn
  <2>4. QED
    BY <2>2, <2>3
<1>6. QED
  BY <1>3, <1>4, <1>5

LEMMA StopInvHandler ==
  ASSUME TypeInv, ProgressInv, BusyLock, StopInv, NEW c \in Calls, Handler(c)
  PROVE  StopInv'
<1> USE DEF sessionVars, jobVars, callVars
<1>1. ASSUME UNCHANGED job
      PROVE  \A d \in Calls : /\ HoldsLock(d)' => HoldsLock(d)
                              /\ job[d] = "done" => job'[d] = "done"
  BY <1>1 DEF HoldsLock, IsLocked
<1>2. CASE Gate(c) \/ Register(c)
  <2>1. UNCHANGED <<job, queue>> /\ IsTool(c)
    BY <1>2 DEF Gate, Register, StopInv
  <2>2. /\ \A d \in Calls : d # c => pc'[d] = pc[d] /\ outcome'[d] = outcome[d]
        /\ pc'[c] # "answered" => outcome'[c] = "none"
        /\ pc'[c] \in {"gated", "registered", "answered"}
    BY <1>2 DEF Gate, Register, Answer, StopInv, TypeInv, TypeOK
  <2>3. QED
    BY <1>1, <2>1, <2>2, StopInvTool
<1>3. CASE Dispatch(c)
  <2>1. IsTool(c) /\ queue' = queue /\ job[c] = "none" /\ pc[c] = "registered"
    BY <1>3 DEF Dispatch, StopInv, ProgressInv
  <2>2. CASE Refusal(c) = "none"
    BY <1>3, <2>1, <2>2, StopInvEnqueueTool DEF Dispatch
  <2>3. CASE Refusal(c) # "none"
    <3>1. Answer(c, Refusal(c)) /\ UNCHANGED job
      BY <1>3, <2>3 DEF Dispatch
    <3>2. /\ \A d \in Calls : d # c => pc'[d] = pc[d] /\ outcome'[d] = outcome[d]
          /\ pc'[c] = "answered"
      BY <3>1 DEF Answer, TypeInv, TypeOK
    <3>3. QED
      BY <1>1, <2>1, <3>1, <3>2, StopInvTool
  <2>4. QED
    BY <2>2, <2>3
<1>4. CASE Respond(c)
  BY <1>4, StopInvRespond
<1>5. CASE CallerTimeout(c)
  <2>1. UNCHANGED job /\ Answer(c, "timeout") /\ pc[c] = "waiting"
    BY <1>5 DEF CallerTimeout, Return, ToolReturn, StopReturn
  <2>2. CASE IsTool(c)
    <3>1. queue' = queue
      BY <1>5, <2>2 DEF CallerTimeout, Return, ToolReturn
    <3>2. /\ \A d \in Calls : d # c => pc'[d] = pc[d] /\ outcome'[d] = outcome[d]
          /\ pc'[c] = "answered"
      BY <2>1 DEF Answer, TypeInv, TypeOK
    <3>3. QED
      BY <1>1, <2>1, <2>2, <3>1, <3>2, StopInvTool
  <2>3. CASE ~IsTool(c)
    <3>1. queue' = Reopened(SessionOf[c]) /\ Stopping(c) /\ ~Stopped(c)
      BY <1>5, <2>1, <2>3 DEF CallerTimeout, Return, StopReturn, Stopping, Stopped, StopInv
    <3>2. QED
      BY <1>1, <2>1, <2>3, <3>1, StopInvFails
  <2>4. QED
    BY <2>2, <2>3
<1>6. CASE StopBegin(c)
  <2>1. pc[c] = "new" /\ ~IsTool(c) /\ job[c] = "none" /\ ~Stopped(c)
    BY <1>6 DEF StopBegin, ProgressInv, StopInv, Stopped
  <2>2. CASE UNCHANGED queue /\ UNCHANGED job /\ \E r : r # "ok" /\ Answer(c, r)
    BY <1>1, <2>1, <2>2, StopInvFails
  <2>3. CASE /\ Refusal(c) = "none" /\ Enqueue(c) /\ outcome' = outcome
             /\ queue' = [queue EXCEPT ![SessionOf[c]] = "closing"]
    BY <2>1, <2>3, StopInvEnqueueStop
  <2>4. QED
    BY <1>6, <2>2, <2>3 DEF StopBegin, Refusal
<1>7. CASE StopRemove(c) \/ StopDrop(c)
  <2>1. Stopping(c) /\ job[c] = "done" /\ UNCHANGED job
    BY <1>7 DEF StopRemove, StopDrop, StopInv, Stopping
  <2>2. CASE StopRemove(c)
    <3>1. /\ pc'[c] = "dropping" /\ UNCHANGED <<outcome, queue>>
          /\ \A d \in Calls : d # c => pc'[d] = pc[d]
      BY <2>2 DEF StopRemove, TypeInv, TypeOK
    <3>2. QED
      BY <1>1, <2>1, <3>1, StopInvGoesOn
  <2>3. CASE StopDrop(c)
    <3>1. /\ pc'[c] = "answered" /\ outcome'[c] = "ok"
          /\ queue' = [queue EXCEPT ![SessionOf[c]] = "absent"]
          /\ \A d \in Calls : d # c => pc'[d] = pc[d] /\ outcome'[d] = outcome[d]
      BY <2>3 DEF StopDrop, Answer, TypeInv, TypeOK
    <3>2. QED
      BY <1>1, <2>1, <3>1, StopInvGoesOn
  <2>4. QED
    BY <1>7, <2>2, <2>3
<1>8. QED
  BY <1>2, <1>3, <1>4, <1>5, <1>6, <1>7 DEF Handler

\* The rest takes no lock and opens no queue.
LEMMA StopInvRest ==
  ASSUME TypeInv, StopInv,
         \/ Interrupt \/ Disconnect \/ ExtReceive
         \/ \E c \in Calls : CancelTrip(c) \/ CancelForward(c) \/ PumpResponse(c) \/ ExtReply(c)
         \/ UNCHANGED vars
  PROVE  StopInv'
<1> USE DEF callVars, sessionVars
<1>1. UNCHANGED <<pc, job>>
  BY RestMoves
<1>2. UNCHANGED <<outcome, queue>> \/ \E s \in Sessions : DropPurged(s)
  BY DEF Interrupt, InterruptCollect, InterruptTrip, InterruptForward, InterruptMark,
         Disconnect, SocketLost, Unregister, Purge, CloseSink, ExtReceive, CancelTrip,
         CancelForward, PumpResponse, ExtReply, vars
<1>3. outcome' = outcome /\ \A s \in Sessions : queue'[s] \in {queue[s], "absent"}
  <2>1. CASE UNCHANGED <<outcome, queue>>
    BY <2>1
  <2>2. ASSUME NEW s \in Sessions, DropPurged(s)
        PROVE  outcome' = outcome /\ \A t \in Sessions : queue'[t] \in {queue[t], "absent"}
    BY <2>2 DEF DropPurged, TypeInv, TypeOK
  <2>3. QED
    BY <1>2, <2>1, <2>2
<1>4. \A d \in Calls : HoldsLock(d)' => HoldsLock(d)
  BY <1>1 DEF HoldsLock, IsLocked
<1>5. QED
  BY <1>1, <1>3, <1>4, StopInvKept

LEMMA StopInvNext ==
  TypeInv /\ ProgressInv /\ BusyLock /\ StopInv /\ [Next]_vars => StopInv'
<1> SUFFICES ASSUME TypeInv, ProgressInv, BusyLock, StopInv, [Next]_vars
             PROVE  StopInv'
  OBVIOUS
<1>1. ASSUME NEW c \in Calls, Handler(c) \/ Worker(c)
      PROVE  StopInv'
  BY <1>1, StopInvHandler, StopInvWorker
<1>2. CASE ~\E c \in Calls : Handler(c) \/ Worker(c)
  BY <1>2, StopInvRest DEF Next
<1>3. QED
  BY <1>1, <1>2

\* Only the worker that holds the lock sends.
LEMMA SendsHolder ==
  ASSUME TypeInv, [Next]_vars, NEW c \in Calls, ~sent[c], sent'[c], IsLocked(c)
  PROVE  HoldsLock(c) /\ job[c] # "done"
<1>1. Promote(c)
  <2> USE DEF entryVars
  <2>1. ASSUME NEW d \in Calls, Handler(d)
        PROVE  sent' = sent
    BY <2>1 DEF Handler, Gate, Register, Dispatch, Respond, CallerTimeout, StopBegin,
       StopRemove, StopDrop
  <2>2. ASSUME NEW d \in Calls, Worker(d)
        PROVE  sent' = sent \/ Promote(c)
    <3>1. CASE Promote(d)
      BY <3>1 DEF Promote, TypeInv, TypeOK
    <3>2. CASE ~Promote(d)
      BY <2>2, <3>2 DEF Worker, Take, TakeResponse, ForwardTimeout, BeginCleanup,
         CleanupResponse, CleanupTimeout, ClearBusy
    <3>3. QED
      BY <3>1, <3>2
  <2>3. ASSUME \/ Interrupt \/ Disconnect \/ ExtReceive
               \/ \E d \in Calls : CancelTrip(d) \/ CancelForward(d) \/ PumpResponse(d) \/ ExtReply(d)
               \/ UNCHANGED vars
        PROVE  sent' = sent
    BY <2>3 DEF Interrupt, InterruptCollect, InterruptTrip, InterruptForward, InterruptMark,
       Disconnect, SocketLost, Unregister, Purge, CloseSink, DropPurged, ExtReceive,
       CancelTrip, CancelForward, PumpResponse, ExtReply, vars
  <2>4. QED
    BY <2>1, <2>2, <2>3 DEF Next
<1>2. QED
  BY <1>1 DEF Promote, HoldsLock

\* The barrier holds: for any calls and sessions, however stops, timeouts,
\* disconnects and cancels interleave, nothing that takes the lock is sent for a
\* session whose stop was answered with success.
THEOREM StopBarrier == Spec => NoSendAfterStop
<1>1. Init => ProgressInv /\ StopInv
  BY ProgressInit, StopInit
<1>2. ASSUME TypeInv, StopInv, [Next]_vars
      PROVE  \A c, d \in Calls :
               /\ Kind[d] = "stop" /\ outcome[d] = "ok" /\ SessionOf[c] = SessionOf[d]
               /\ IsLocked(c) /\ ~sent[c]
               => ~sent'[c]
  <2> SUFFICES ASSUME NEW c \in Calls, NEW d \in Calls,
                      Kind[d] = "stop", outcome[d] = "ok", SessionOf[c] = SessionOf[d],
                      IsLocked(c), ~sent[c], sent'[c]
               PROVE  FALSE
    OBVIOUS
  <2>1. Stopped(d) /\ job[d] = "done"
    BY <1>2 DEF Stopped, IsTool, StopInv
  <2>2. HoldsLock(c) /\ job[c] # "done"
    BY <1>2, SendsHolder
  <2>3. QED
    BY <1>2, <2>1, <2>2 DEF StopInv
<1>3. QED
  BY <1>1, <1>2, OneCommandPerSession, StopInvNext, ProgressNext, TypeInvInit, TypeInvNext,
     PTL DEF Spec, NoSendAfterStop

-----------------------------------------------------------------------------
\* Promote first

\* A request is sent once, and is unseen by the extension while it is on the
\* wire; a cancel frame is only written for a call that was sent.
OnceInv ==
  /\ \A c \in Calls : job[c] \in {"none", "queued", "promoting"} => ~sent[c]
  /\ \A i \in DOMAIN wire : wire[i].type = "request" => ext[wire[i].call] = "unseen"
  /\ \A i, j \in DOMAIN wire :
       wire[i].type = "request" /\ wire[j] = wire[i] => i = j
  /\ \A c \in Calls : cancelRpc[c] = "forwarding" \/ c \in sweep.send => sent[c]
  /\ sweep.on = {} => sweep.trip = {} /\ sweep.send = {}

\* What was sent is on the wire or has arrived, unless the socket is gone.
RequestInv ==
  \A c \in Calls : conn = "up" /\ sent[c]
    => ext[c] # "unseen" \/ \E i \in DOMAIN wire : wire[i] = Request(c)

WireInv == OnceInv /\ RequestInv /\ CancelBehindRequest /\ CancelOnItsWay

LEMMA FrameCalls ==
  ASSUME wire \in Seq(Frames)
  PROVE  \A i \in DOMAIN wire : wire[i].call \in Calls /\ wire[i].type \in {"request", "cancel"}
<1>1. \A i \in DOMAIN wire : wire[i] \in Frames
  OBVIOUS
<1>2. QED
  BY <1>1 DEF Frames

\* The wire and what is written to it stay.
LEMMA WireInvKept ==
  ASSUME WireInv, UNCHANGED <<conn, wire, sent, reason, cancelRpc, sweep>>,
         \A c \in Calls : job'[c] \in {"none", "queued", "promoting"}
                            => job[c] \in {"none", "queued", "promoting"},
         \A c \in Calls : ext'[c] = ext[c] \/
                            (ext[c] # "unseen" /\ ext'[c] \notin {"unseen", "running"}),
         wire \in Seq(Frames)
  PROVE  WireInv'
<1>1. \A i \in DOMAIN wire : wire[i].call \in Calls
  BY FrameCalls
<1>2. OnceInv'
  BY <1>1 DEF WireInv, OnceInv
<1>3. RequestInv'
  BY DEF WireInv, RequestInv
<1>4. CancelBehindRequest'
  BY <1>1 DEF WireInv, CancelBehindRequest
<1>5. CancelOnItsWay'
  BY DEF WireInv, CancelOnItsWay, IsCancelled
<1>6. QED
  BY <1>2, <1>3, <1>4, <1>5 DEF WireInv

\* Without a socket there is nothing on its way.
LEMMA WireInvLost ==
  ASSUME WireInv, conn' # "up", wire' = wire \/ wire' = <<>>,
         UNCHANGED <<sent, reason, cancelRpc, sweep, job, ext>>
  PROVE  WireInv'
<1>1. OnceInv'
  BY DEF WireInv, OnceInv
<1>2. CancelBehindRequest'
  BY DEF WireInv, CancelBehindRequest
<1>3. QED
  BY <1>1, <1>2 DEF WireInv, RequestInv, CancelOnItsWay

LEMMA PushedBehind ==
  ASSUME wire \in Seq(Frames), NEW f \in Frames, wire' = Append(wire, f)
  PROVE  /\ DOMAIN wire = 1..Len(wire) /\ Len(wire) \in Nat
         /\ DOMAIN wire' = 1..(Len(wire) + 1)
         /\ \A i \in DOMAIN wire : i \in DOMAIN wire' /\ wire'[i] = wire[i]
         /\ wire'[Len(wire) + 1] = f
         /\ \A i \in DOMAIN wire' : i \in DOMAIN wire \/ i = Len(wire) + 1
OBVIOUS

LEMMA WireInvPromote ==
  ASSUME TypeInv, CancelInv, WireInv, NEW c \in Calls, Promote(c)
  PROVE  WireInv'
<1> USE DEF connVars, userVars, entryVars, extVars
<1>1. wire \in Seq(Frames) /\ \A i \in DOMAIN wire : wire[i].call \in Calls
  BY FrameCalls DEF TypeInv, TypeOK
<1>2. CASE IsCancelled(c) \/ conn = "closed"
  <2>1. \A d \in Calls : job'[d] = job[d] \/ job'[d] = "settled"
    BY <1>2 DEF Promote, Settle, TypeInv, TypeOK
  <2>2. UNCHANGED <<conn, wire, sent, reason, cancelRpc, sweep, ext>>
    BY <1>2 DEF Promote
  <2>3. QED
    BY <1>1, <2>1, <2>2, WireInvKept
<1>3. CASE ~IsCancelled(c) /\ conn # "closed"
  <2>1. /\ Push(Request(c))
        /\ UNCHANGED <<conn, reason, cancelRpc, sweep, ext>>
        /\ \A d \in Calls : sent'[d] <=> sent[d] \/ d = c
        /\ ~sent[c]
        /\ \A d \in Calls : d # c => job'[d] = job[d]
        /\ job'[c] = "waiting"
    BY <1>3 DEF Promote, WireInv, OnceInv, TypeInv, TypeOK
  <2>2. /\ Request(c) \in Frames /\ Request(c).type = "request" /\ Request(c).call = c
        /\ ext[c] = "unseen"
        /\ \A i \in DOMAIN wire : wire[i].type = "request" => wire[i].call # c
    BY <2>1 DEF Request, Frames, CancelInv
  <2>3. \A d \in Calls : Request(d)' = Request(d) /\ Cancel(d)' = Cancel(d)
    BY DEF Request, Cancel
  <2>4. CASE conn = "up"
    <3> DEFINE n == Len(wire) + 1
    <3>1. wire' = Append(wire, Request(c))
      BY <2>1, <2>4 DEF Push
    <3>2. /\ DOMAIN wire = 1..Len(wire) /\ Len(wire) \in Nat
          /\ n \in DOMAIN wire' /\ wire'[n] = Request(c)
          /\ \A i \in DOMAIN wire : i \in DOMAIN wire' /\ wire'[i] = wire[i] /\ i < n
          /\ \A i \in DOMAIN wire' : i \in DOMAIN wire \/ i = n
      BY <3>1, <1>1, <2>2, PushedBehind
    <3> HIDE DEF n
    <3>3. OnceInv'
      BY <2>1, <2>2, <3>2 DEF WireInv, OnceInv
    <3>4. RequestInv'
      BY <2>1, <2>3, <3>2 DEF WireInv, RequestInv
    <3>5. ASSUME NEW i \in DOMAIN wire', wire'[i].type = "cancel"
          PROVE  \/ ext'[wire'[i].call] # "unseen"
                 \/ \E j \in 1..(i - 1) : wire'[j] = Request(wire'[i].call)
      <4>1. i \in DOMAIN wire /\ wire'[i] = wire[i]
        BY <2>2, <3>2, <3>5
      <4>2. CASE ext[wire[i].call] # "unseen"
        BY <2>1, <4>1, <4>2
      <4>3. ASSUME NEW j \in 1..(i - 1), wire[j] = Request(wire[i].call)
            PROVE  wire'[j] = Request(wire'[i].call)
        <5>1. j \in DOMAIN wire
          BY <3>2, <4>1
        <5>2. QED
          BY <3>2, <4>1, <4>3, <5>1
      <4>4. QED
        BY <3>5, <4>1, <4>2, <4>3 DEF WireInv, CancelBehindRequest
    <3>6. CancelBehindRequest'
      BY <3>5 DEF CancelBehindRequest, Request
    <3>7. CancelOnItsWay'
      BY <1>3, <2>1, <2>3, <3>2 DEF WireInv, CancelOnItsWay, IsCancelled
    <3>8. QED
      BY <3>3, <3>4, <3>6, <3>7 DEF WireInv
  <2>5. CASE conn # "up"
    <3>1. wire' = wire /\ conn' # "up"
      BY <2>1, <2>5 DEF Push
    <3>2. OnceInv'
      BY <2>1, <3>1 DEF WireInv, OnceInv
    <3>3. CancelBehindRequest'
      BY <2>1, <3>1 DEF WireInv, CancelBehindRequest, Request
    <3>4. QED
      BY <3>1, <3>2, <3>3 DEF WireInv, RequestInv, CancelOnItsWay
  <2>6. QED
    BY <2>4, <2>5
<1>4. QED
  BY <1>2, <1>3

\* A cancel frame goes behind the request of the call it is for.
LEMMA WireInvPushCancel ==
  ASSUME TypeInv, WireInv, NEW c \in Calls, sent[c],
         conn = "up" => wire' = Append(wire, Cancel(c)),
         conn # "up" => wire' = wire,
         UNCHANGED <<conn, sent, reason, ext, job>>,
         \A d \in Calls : /\ cancelRpc'[d] = "forwarding" => cancelRpc[d] = "forwarding"
                          /\ d \in sweep'.send => d \in sweep.send
                          /\ d # c => /\ cancelRpc'[d] = cancelRpc[d]
                                      /\ d \in sweep.send => d \in sweep'.send,
         sweep'.on = sweep.on, sweep'.trip = sweep.trip,
         sweep'.send \subseteq sweep.send
  PROVE  WireInv'
<1>1. wire \in Seq(Frames) /\ \A i \in DOMAIN wire : wire[i].call \in Calls
  BY FrameCalls DEF TypeInv, TypeOK
<1>2. Cancel(c) \in Frames /\ Cancel(c).type = "cancel" /\ Cancel(c).call = c
  BY DEF Cancel, Frames
<1>3. CASE conn = "up"
  <2> DEFINE n == Len(wire) + 1
  <2>1. /\ DOMAIN wire = 1..Len(wire) /\ Len(wire) \in Nat
        /\ n \in DOMAIN wire' /\ wire'[n] = Cancel(c)
        /\ \A i \in DOMAIN wire : i \in DOMAIN wire' /\ wire'[i] = wire[i] /\ i \in 1..(n - 1)
        /\ \A i \in DOMAIN wire' : i \in DOMAIN wire \/ i = n
    BY <1>1, <1>2, <1>3, PushedBehind
  <2> HIDE DEF n
  <2>2. OnceInv'
    BY <1>2, <2>1 DEF WireInv, OnceInv
  <2>3. RequestInv'
    <3>1. \A d \in Calls : Request(d)' = Request(d)
      BY DEF Request
    <3>2. QED
      BY <2>1, <3>1 DEF WireInv, RequestInv
  <2>4. ASSUME NEW i \in DOMAIN wire', wire'[i].type = "cancel"
        PROVE  \/ ext'[wire'[i].call] # "unseen"
               \/ \E j \in 1..(i - 1) : wire'[j] = Request(wire'[i].call)
    <3>1. CASE i = n
      BY <1>2, <1>3, <2>1, <3>1 DEF WireInv, RequestInv
    <3>2. CASE i # n
      <4>1. i \in DOMAIN wire /\ wire'[i] = wire[i]
        BY <2>1, <3>2
      <4>2. ASSUME NEW j \in 1..(i - 1), wire[j] = Request(wire[i].call)
            PROVE  wire'[j] = Request(wire'[i].call)
        <5>1. j \in DOMAIN wire
          BY <2>1, <4>1
        <5>2. QED
          BY <2>1, <4>1, <4>2, <5>1
      <4>3. QED
        BY <2>4, <4>1, <4>2 DEF WireInv, CancelBehindRequest
    <3>3. QED
      BY <3>1, <3>2
  <2>5. CancelBehindRequest'
    BY <2>4 DEF CancelBehindRequest, Request
  <2>6. CancelOnItsWay'
    <3>1. ASSUME NEW d \in Calls, sent[d], IsCancelled(d), ext[d] \in {"unseen", "running"}
          PROVE  \/ cancelRpc'[d] = "forwarding" \/ d \in sweep'.send
                 \/ \E i \in DOMAIN wire' : wire'[i] = Cancel(d)
      <4>1. CASE d = c
        BY <2>1, <4>1
      <4>2. CASE d # c
        BY <1>3, <2>1, <3>1, <4>2 DEF WireInv, CancelOnItsWay
      <4>3. QED
        BY <4>1, <4>2
    <3>2. QED
      BY <3>1 DEF CancelOnItsWay, IsCancelled, Cancel
  <2>7. QED
    BY <2>2, <2>3, <2>5, <2>6 DEF WireInv
<1>4. CASE conn # "up"
  <2>1. wire' = wire /\ conn' # "up"
    BY <1>4
  <2>2. OnceInv'
    BY <2>1 DEF WireInv, OnceInv
  <2>3. CancelBehindRequest'
    BY <2>1 DEF WireInv, CancelBehindRequest, Request
  <2>4. QED
    BY <2>1, <2>2, <2>3 DEF WireInv, RequestInv, CancelOnItsWay
<1>5. QED
  BY <1>3, <1>4

\* Tripping a call that was sent leaves its cancel to the handler that did it.
LEMMA WireInvTrips ==
  ASSUME TypeInv, WireInv, NEW c \in Calls, CancelTrip(c) \/ InterruptTrip(c)
  PROVE  WireInv'
<1>1. /\ UNCHANGED <<conn, wire, sent, ext, job>>
      /\ \A d \in Calls : d # c => reason'[d] = reason[d]
  BY DEF CancelTrip, InterruptTrip, TripAll, connVars, jobVars, extVars
<1>2. CASE CancelTrip(c)
  <2>1. /\ sweep' = sweep
        /\ \A d \in Calls : d # c => cancelRpc'[d] = cancelRpc[d]
        /\ cancelRpc[c] = "idle"
        /\ cancelRpc'[c] = IF c \notin inflight THEN "missed"
                           ELSE IF sent[c] THEN "forwarding" ELSE "queued"
        /\ c \notin inflight => reason'[c] = reason[c]
    BY <1>2 DEF CancelTrip, TripAll, userVars, TypeInv, TypeOK
  <2>2. OnceInv'
    BY <1>1, <2>1 DEF WireInv, OnceInv
  <2>3. CancelOnItsWay'
    BY <1>1, <2>1 DEF WireInv, CancelOnItsWay, IsCancelled, Cancel
  <2>4. QED
    BY <1>1, <2>2, <2>3 DEF WireInv, RequestInv, CancelBehindRequest, Request
<1>3. CASE InterruptTrip(c)
  <2>1. /\ cancelRpc' = cancelRpc
        /\ c \in sweep.trip /\ sweep'.on = sweep.on
        /\ sweep'.send = IF sent[c] THEN sweep.send \cup {c} ELSE sweep.send
    BY <1>3 DEF InterruptTrip, TypeInv, TypeOK
  <2>2. OnceInv'
    BY <1>1, <2>1 DEF WireInv, OnceInv
  <2>3. CancelOnItsWay'
    BY <1>1, <2>1 DEF WireInv, CancelOnItsWay, IsCancelled, Cancel
  <2>4. QED
    BY <1>1, <2>2, <2>3 DEF WireInv, RequestInv, CancelBehindRequest, Request
<1>4. QED
  BY <1>2, <1>3

\* The click begins with nothing left of the one before.
LEMMA WireInvClick ==
  ASSUME TypeInv, WireInv, InterruptMark \/ \E s \in Sessions : InterruptCollect(s)
  PROVE  WireInv'
<1>1. UNCHANGED <<conn, wire, sent, ext, job, reason, cancelRpc>>
  BY DEF InterruptMark, InterruptCollect, connVars, jobVars, extVars, entryVars
<1>2. sweep'.send = {} /\ sweep.send = {} /\ (sweep'.on = {} => sweep'.trip = {})
  <2>1. CASE InterruptMark
    BY <2>1 DEF InterruptMark, TypeInv, TypeOK
  <2>2. ASSUME NEW s \in Sessions, InterruptCollect(s)
        PROVE  sweep'.send = {} /\ sweep.send = {} /\ (sweep'.on = {} => sweep'.trip = {})
    BY <2>2 DEF InterruptCollect, PumpIdle, WireInv, OnceInv
  <2>3. QED
    BY <2>1, <2>2
<1>3. OnceInv'
  BY <1>1, <1>2 DEF WireInv, OnceInv
<1>4. CancelOnItsWay'
  BY <1>1, <1>2 DEF WireInv, CancelOnItsWay, IsCancelled, Cancel
<1>5. QED
  BY <1>1, <1>3, <1>4 DEF WireInv, RequestInv, CancelBehindRequest, Request

\* What the extension takes off the wire: the rest moves up by one.
LEMMA Received ==
  ASSUME TypeInv, ExtReceive
  PROVE  /\ wire \in Seq(Frames) /\ 1 \in DOMAIN wire
         /\ \A i \in DOMAIN wire' : i + 1 \in DOMAIN wire /\ wire'[i] = wire[i + 1]
         /\ \A i \in DOMAIN wire : i # 1 => i - 1 \in DOMAIN wire' /\ wire'[i - 1] = wire[i]
         /\ DOMAIN wire \subseteq Nat \ {0}
         /\ wire[1].call \in Calls
         /\ \A d \in Calls : d # wire[1].call => ext'[d] = ext[d]
         /\ ext'[wire[1].call] =
              IF wire[1].type = "request" THEN "running"
              ELSE IF ext[wire[1].call] = "running" THEN "aborting" ELSE ext[wire[1].call]
         /\ UNCHANGED <<conn, sent, reason, cancelRpc, sweep, job>>
<1>1. /\ wire \in Seq(Frames) /\ wire # <<>> /\ wire' = Tail(wire) /\ Head(wire) = wire[1]
  BY DEF ExtReceive, TypeInv, TypeOK
<1>2. /\ 1 \in DOMAIN wire /\ DOMAIN wire \subseteq Nat \ {0}
      /\ \A i \in DOMAIN wire' : i + 1 \in DOMAIN wire /\ wire'[i] = wire[i + 1]
      /\ \A i \in DOMAIN wire : i # 1 => i - 1 \in DOMAIN wire' /\ wire'[i - 1] = wire[i]
  BY <1>1
<1>3. wire[1].call \in Calls
  BY <1>1, <1>2, FrameCalls
<1>4. /\ \A d \in Calls : d # wire[1].call => ext'[d] = ext[d]
      /\ ext'[wire[1].call] =
           IF wire[1].type = "request" THEN "running"
           ELSE IF ext[wire[1].call] = "running" THEN "aborting" ELSE ext[wire[1].call]
  BY <1>1, <1>3 DEF ExtReceive, TypeInv, TypeOK
<1>5. UNCHANGED <<conn, sent, reason, cancelRpc, sweep, job>>
  BY DEF ExtReceive, connVars, userVars, entryVars, jobVars
<1>6. QED
  BY <1>1, <1>2, <1>3, <1>4, <1>5

LEMMA WireInvReceive ==
  ASSUME TypeInv, WireInv, ExtReceive
  PROVE  WireInv'
<1> DEFINE c == wire[1].call
<1>1. /\ 1 \in DOMAIN wire /\ c \in Calls /\ conn = "up"
      /\ \A i \in DOMAIN wire' : i + 1 \in DOMAIN wire /\ wire'[i] = wire[i + 1]
      /\ \A i \in DOMAIN wire : i # 1 => i - 1 \in DOMAIN wire' /\ wire'[i - 1] = wire[i]
      /\ DOMAIN wire \subseteq Nat \ {0}
      /\ \A d \in Calls : d # c => ext'[d] = ext[d]
      /\ ext'[c] = IF wire[1].type = "request" THEN "running"
                   ELSE IF ext[c] = "running" THEN "aborting" ELSE ext[c]
      /\ UNCHANGED <<conn, sent, reason, cancelRpc, sweep, job>>
  BY Received DEF ExtReceive
<1>2. /\ \A i \in DOMAIN wire : wire[i].call \in Calls /\ wire[i].type \in {"request", "cancel"}
      /\ DOMAIN wire' \subseteq Nat \ {0}
      /\ \A i \in DOMAIN wire : wire[i] = [type |-> wire[i].type, call |-> wire[i].call]
  <2>1. wire \in Seq(Frames) /\ wire' \in Seq(Frames)
    BY Received, TypeInvPeer DEF TypeInv, TypeOK
  <2>2. \A i \in DOMAIN wire : wire[i] \in Frames
    BY <2>1
  <2>3. \A f \in Frames : f = [type |-> f.type, call |-> f.call]
    BY DEF Frames
  <2>4. QED
    BY <2>1, <2>2, <2>3, FrameCalls
<1> HIDE DEF c
<1>3. \A d \in Calls : /\ Request(d)' = Request(d) /\ Cancel(d)' = Cancel(d)
                       /\ Request(d).type = "request" /\ Request(d).call = d
                       /\ Cancel(d).type = "cancel" /\ Cancel(d).call = d
  BY DEF Request, Cancel
\* A request at the head is the only one of its call; a cancel at the head is
\* for a call that has arrived.
<1>4. \A d \in Calls : ext[d] # "unseen" => ext'[d] # "unseen"
  BY <1>1
<1>5. wire[1].type = "request" => ext[c] = "unseen"
  BY <1>1 DEF WireInv, OnceInv, c
<1>6. ASSUME NEW i \in DOMAIN wire, i # 1, wire[i].type = "request", wire[1].type = "request"
      PROVE  wire[i].call # c
  BY <1>1, <1>2, <1>6 DEF WireInv, OnceInv, c
<1>7. wire[1].type = "cancel" => ext[c] # "unseen"
  BY <1>1 DEF WireInv, CancelBehindRequest, c
<1>8. OnceInv'
  <2>1. ASSUME NEW i \in DOMAIN wire', wire'[i].type = "request"
        PROVE  ext'[wire'[i].call] = "unseen"
    <3>1. i + 1 \in DOMAIN wire /\ wire'[i] = wire[i + 1] /\ i + 1 # 1
      BY <1>1, <1>2
    <3>2. ext[wire[i + 1].call] = "unseen" /\ wire[i + 1].call \in Calls
      BY <1>2, <2>1, <3>1 DEF WireInv, OnceInv
    <3>3. wire[i + 1].call # c
      BY <1>2, <1>6, <1>7, <1>1, <2>1, <3>1, <3>2
    <3>4. QED
      BY <1>1, <3>1, <3>2, <3>3
  <2>2. ASSUME NEW i \in DOMAIN wire', NEW j \in DOMAIN wire',
               wire'[i].type = "request", wire'[j] = wire'[i]
        PROVE  i = j
    <3>1. i + 1 = j + 1
      BY <1>1, <2>2 DEF WireInv, OnceInv
    <3>2. QED
      BY <1>2, <3>1
  <2>3. QED
    BY <1>1, <2>1, <2>2 DEF WireInv, OnceInv
<1>9. RequestInv'
  <2>1. ASSUME NEW d \in Calls, sent[d]
        PROVE  ext'[d] # "unseen" \/ \E i \in DOMAIN wire' : wire'[i] = Request(d)
    <3>1. CASE ext[d] # "unseen"
      BY <1>4, <3>1
    <3>2. ASSUME NEW i \in DOMAIN wire, wire[i] = Request(d)
          PROVE  ext'[d] # "unseen" \/ \E j \in DOMAIN wire' : wire'[j] = Request(d)
      <4>1. CASE i = 1
        BY <1>1, <1>3, <3>2, <4>1 DEF c
      <4>2. CASE i # 1
        BY <1>1, <3>2, <4>2
      <4>3. QED
        BY <4>1, <4>2
    <3>3. QED
      BY <1>1, <2>1, <3>1, <3>2 DEF WireInv, RequestInv
  <2>2. QED
    BY <1>1, <1>3, <2>1 DEF RequestInv
<1>10. CancelBehindRequest'
  <2>1. ASSUME NEW i \in DOMAIN wire', wire'[i].type = "cancel"
        PROVE  \/ ext'[wire'[i].call] # "unseen"
               \/ \E j \in 1..(i - 1) : wire'[j] = Request(wire'[i].call)
    <3> DEFINE d == wire[i + 1].call
    <3>1. i + 1 \in DOMAIN wire /\ wire'[i] = wire[i + 1] /\ i \in Nat \ {0} /\ d \in Calls
      BY <1>1, <1>2
    <3>2. CASE ext[d] # "unseen"
      BY <1>4, <3>1, <3>2
    <3>3. ASSUME NEW j \in 1..i, wire[j] = Request(d)
          PROVE  \/ ext'[d] # "unseen"
                 \/ \E k \in 1..(i - 1) : wire'[k] = Request(d)
      <4>1. CASE j = 1
        BY <1>1, <1>3, <3>1, <3>3, <4>1 DEF c
      <4>2. CASE j # 1
        <5>1. j \in DOMAIN wire
          <6>1. wire \in Seq(Frames) /\ DOMAIN wire = 1..Len(wire) /\ Len(wire) \in Nat
            BY Received
          <6>2. QED
            BY <3>1, <6>1
        <5>2. j - 1 \in 1..(i - 1) /\ wire'[j - 1] = Request(d)
          BY <1>1, <3>1, <3>3, <4>2, <5>1
        <5>3. QED
          BY <5>2
      <4>3. QED
        BY <4>1, <4>2
    <3>4. ext[d] # "unseen" \/ \E j \in 1..i : wire[j] = Request(d)
      <4>1. (i + 1) - 1 = i
        BY <3>1
      <4>2. QED
        BY <2>1, <3>1, <4>1 DEF WireInv, CancelBehindRequest
    <3>5. QED
      BY <3>1, <3>2, <3>3, <3>4
  <2>2. QED
    BY <2>1 DEF CancelBehindRequest, Request
<1>11. CancelOnItsWay'
  <2>1. ASSUME NEW d \in Calls, sent[d], IsCancelled(d), ext'[d] \in {"unseen", "running"}
        PROVE  \/ cancelRpc[d] = "forwarding" \/ d \in sweep.send
               \/ \E i \in DOMAIN wire' : wire'[i] = Cancel(d)
    <3>1. ext[d] \in {"unseen", "running"} /\ ~(d = c /\ wire[1].type = "cancel")
      BY <1>1, <1>5, <1>7, <2>1
    <3>2. ASSUME NEW i \in DOMAIN wire, wire[i] = Cancel(d)
          PROVE  \E j \in DOMAIN wire' : wire'[j] = Cancel(d)
      <4>1. i # 1
        BY <1>3, <3>1, <3>2 DEF c
      <4>2. QED
        BY <1>1, <3>2, <4>1
    <3>3. QED
      BY <1>1, <2>1, <3>1, <3>2 DEF WireInv, CancelOnItsWay
  <2>2. QED
    BY <1>1, <1>3, <2>1 DEF CancelOnItsWay, IsCancelled
<1>12. QED
  BY <1>8, <1>9, <1>10, <1>11 DEF WireInv

\* A job that is no longer new, queued or being promoted never is again.
LEMMA JobsAdvance ==
  ASSUME TypeInv, ProgressInv, NEW c \in Calls, Handler(c) \/ Worker(c)
  PROVE  \A d \in Calls : job'[d] \in {"none", "queued", "promoting"}
                            => job[d] \in {"none", "queued", "promoting"}
<1>1. CASE Worker(c)
  <2>1. CASE ClearBusy(c)
    BY <2>1 DEF ClearBusy, TypeInv, TypeOK
  <2>2. CASE ~ClearBusy(c)
    BY <1>1, <2>2, WorkerStep, WorkerMoves
  <2>3. QED
    BY <2>1, <2>2
<1>2. CASE Handler(c)
  <2>1. CASE Dispatch(c) \/ StopBegin(c)
    BY <2>1 DEF Dispatch, StopBegin, Enqueue, ProgressInv, TypeInv, TypeOK
  <2>2. CASE Respond(c)
    BY <2>2 DEF Respond, TypeInv, TypeOK
  <2>3. CASE Gate(c) \/ Register(c) \/ CallerTimeout(c) \/ StopRemove(c) \/ StopDrop(c)
    BY <2>3 DEF Gate, Register, CallerTimeout, StopRemove, StopDrop, jobVars
  <2>4. QED
    BY <1>2, <2>1, <2>2, <2>3 DEF Handler
<1>3. QED
  BY <1>1, <1>2

LEMMA WireInvNext ==
  TypeInv /\ ProgressInv /\ CancelInv /\ WireInv /\ [Next]_vars => WireInv'
<1> SUFFICES ASSUME TypeInv, ProgressInv, CancelInv, WireInv, [Next]_vars
             PROVE  WireInv'
  OBVIOUS
<1> USE DEF connVars, userVars, entryVars, extVars, callVars, jobVars
<1>1. wire \in Seq(Frames)
  BY DEF TypeInv, TypeOK
<1>2. ASSUME NEW c \in Calls, Handler(c)
      PROVE  WireInv'
  <2>1. CASE ~Gate(c) /\ ~StopDrop(c)
    BY <1>1, <1>2, <2>1, WireInvKept, JobsAdvance
       DEF Handler, Register, Dispatch, Respond, CallerTimeout, StopBegin, StopRemove
  <2>2. CASE Gate(c) \/ StopDrop(c)
    BY <1>1, <2>2, WireInvKept DEF Gate, StopDrop
  <2>3. QED
    BY <2>1, <2>2
<1>3. ASSUME NEW c \in Calls, Worker(c)
      PROVE  WireInv'
  <2>1. CASE Promote(c)
    BY <2>1, WireInvPromote
  <2>2. CASE ~Promote(c)
    BY <1>1, <1>3, <2>2, WireInvKept, JobsAdvance
       DEF Worker, Take, TakeResponse, ForwardTimeout, BeginCleanup, CleanupResponse,
           CleanupTimeout, ClearBusy
  <2>3. QED
    BY <2>1, <2>2
<1>4. ASSUME NEW c \in Calls, CancelForward(c)
      PROVE  WireInv'
  <2>1. /\ cancelRpc[c] = "forwarding" /\ cancelRpc' = [cancelRpc EXCEPT ![c] = "forwarded"]
        /\ UNCHANGED <<conn, sent, reason, ext, job, sweep>>
        /\ conn = "up" => wire' = Append(wire, Cancel(c))
        /\ conn # "up" => wire' = wire
    BY <1>4 DEF CancelForward, Push, Registered
  <2>2. sent[c]
    BY <2>1 DEF WireInv, OnceInv
  <2>3. \A d \in Calls : /\ cancelRpc'[d] = "forwarding" => cancelRpc[d] = "forwarding"
                         /\ d # c => cancelRpc'[d] = cancelRpc[d]
    BY <2>1 DEF TypeInv, TypeOK
  <2>4. QED
    BY <2>1, <2>2, <2>3, WireInvPushCancel
<1>5. ASSUME NEW c \in Calls, InterruptForward(c)
      PROVE  WireInv'
  <2>1. /\ c \in sweep.send
        /\ sweep'.send = sweep.send \ {c} /\ sweep'.on = sweep.on /\ sweep'.trip = sweep.trip
    BY <1>5 DEF InterruptForward, TypeInv, TypeOK
  <2>2. /\ UNCHANGED <<conn, sent, reason, ext, job, cancelRpc>>
        /\ conn = "up" => wire' = Append(wire, Cancel(c))
        /\ conn # "up" => wire' = wire
    BY <1>5 DEF InterruptForward, Push, Registered
  <2>3. sent[c]
    BY <2>1 DEF WireInv, OnceInv
  <2>4. QED
    BY <2>1, <2>2, <2>3, WireInvPushCancel
<1>6. ASSUME NEW c \in Calls, CancelTrip(c) \/ InterruptTrip(c)
      PROVE  WireInv'
  BY <1>6, WireInvTrips
<1>7. CASE InterruptMark \/ \E s \in Sessions : InterruptCollect(s)
  BY <1>7, WireInvClick
<1>8. CASE Disconnect
  <2>1. CASE SocketLost \/ Unregister \/ Purge \/ CloseSink
    BY <2>1, WireInvLost DEF SocketLost, Unregister, Purge, CloseSink
  <2>2. ASSUME NEW s \in Sessions, DropPurged(s)
        PROVE  WireInv'
    <3>1. UNCHANGED <<conn, wire, sent, reason, cancelRpc, sweep, ext, job>>
      BY <2>2 DEF DropPurged
    <3>2. QED
      BY <1>1, <3>1, WireInvKept
  <2>3. QED
    BY <1>8, <2>1, <2>2 DEF Disconnect
<1>9. CASE ExtReceive
  BY <1>9, WireInvReceive
<1>10. ASSUME NEW c \in Calls, PumpResponse(c) \/ ExtReply(c)
       PROVE  WireInv'
  <2>1. UNCHANGED <<conn, wire, sent, reason, cancelRpc, sweep, job>>
    BY <1>10 DEF PumpResponse, ExtReply
  <2>2. \A d \in Calls : ext'[d] = ext[d] \/
                           (ext[d] # "unseen" /\ ext'[d] \notin {"unseen", "running"})
    BY <1>10 DEF PumpResponse, ExtReply, TypeInv, TypeOK
  <2>3. QED
    BY <1>1, <2>1, <2>2, WireInvKept
<1>11. CASE UNCHANGED vars
  BY <1>1, <1>11, WireInvKept DEF vars
<1>12. QED
  BY <1>2, <1>3, <1>4, <1>5, <1>6, <1>7, <1>8, <1>9, <1>10, <1>11 DEF Next, Interrupt

LEMMA WireInvInit == Init => WireInv
<1> SUFFICES ASSUME Init
             PROVE  WireInv
  OBVIOUS
<1>1. DOMAIN wire = {} /\ \A c \in Calls : ~sent[c] /\ cancelRpc[c] = "idle"
  BY DEF Init
<1>2. sweep.trip = {} /\ sweep.send = {}
  BY DEF Init
<1>3. QED
  BY <1>1, <1>2 DEF WireInv, OnceInv, RequestInv, CancelBehindRequest, CancelOnItsWay

LEMMA WireCorrect == Spec => [](TypeInv /\ ProgressInv /\ WireInv)
<1>1. Init => ProgressInv /\ CancelInv
  BY ProgressInit DEF Init, CancelInv
<1>2. QED
  BY <1>1, WireInvInit, WireInvNext, CancelInvNext, ProgressNext, TypeInvInit, TypeInvNext,
     PTL DEF Spec

\* On the wire a cancel frame never overtakes the request it is for: two tasks
\* write to the sink, the worker that promotes and the handler that cancels.
THEOREM CancelFollowsRequest == Spec => []CancelBehindRequest
<1>1. WireInv => CancelBehindRequest
  BY DEF WireInv
<1>2. QED
  BY <1>1, WireCorrect, PTL

\* A call that is cancelled after it was sent always has its cancel frame under
\* way until the extension knows of it, whoever cancels and in whatever order.
THEOREM CancelNeverDropped == Spec => []CancelOnItsWay
<1>1. WireInv => CancelOnItsWay
  BY DEF WireInv
<1>2. QED
  BY <1>1, WireCorrect, PTL

-----------------------------------------------------------------------------
\* No answer without its cause

Hit == {"queued", "forwarding", "forwarded"}

\* What a verdict says has happened.
Cause(c, r) ==
  /\ r = "ok" => reply[c] = "ok" /\ ext[c] = "delivered"
  /\ r = "cancelled" => (cancelRpc[c] \in Hit /\ reason[c] = "rpc") \/ reply[c] = "cancelled"
  /\ r = "user_aborted" => clicks > 0 /\ reason[c] # "rpc"

\* Verdicts travel from the extension, or from the trip that was first, through
\* the worker to the caller; once answered, a call can no longer be tripped.
CauseInv ==
  /\ \A c \in Calls : pending[c] = "resolved" => ext[c] = "delivered"
  /\ \A c \in Calls : reply[c] # "none" => ext[c] \in {"replied", "delivered"}
  /\ \A c \in inflight : pc[c] \notin {"new", "gated", "answered"}
  /\ \A c \in Calls : reason[c] = "rpc" => cancelRpc[c] \in Hit /\ pc[c] \notin {"new", "gated"}
  /\ \A c \in Calls : reason[c] = "user" => clicks > 0
  /\ interrupts # {} \/ sweep.on # {} \/ sweep.trip # {} => clicks > 0
  /\ \A c \in Calls : /\ Cause(c, result[c])
                      /\ result[c] = "user_aborted" => reason[c] = "user"
  /\ \A c \in Calls : outcome[c] # "none" => pc[c] = "answered"
  /\ \A c \in Calls : job[c] = "cleanup" => IsCancelled(c)
  /\ \A c \in Calls : IsTool(c) \/ outcome[c] # "ok" => Cause(c, outcome[c])

LEMMA CauseInit == Init => CauseInv
<1> SUFFICES ASSUME Init
             PROVE  CauseInv
  OBVIOUS
<1>1. \A c \in Calls : /\ job[c] = "none" /\ pending[c] = "none" /\ reply[c] = "none"
                       /\ reason[c] = "none" /\ result[c] = "none" /\ outcome[c] = "none"
  BY DEF Init
<1>2. inflight = {} /\ interrupts = {} /\ sweep.on = {} /\ sweep.trip = {}
  BY DEF Init
<1>3. QED
  BY <1>1, <1>2 DEF CauseInv, Cause

\* A step of c's handler: it gives an answer that has its cause, or none.
LEMMA CauseHandlerStep ==
  ASSUME TypeInv, CauseInv, NEW c \in Calls,
         UNCHANGED <<pending, ext, reply, reason, cancelRpc, clicks, sweep, result>>,
         interrupts' \subseteq interrupts, inflight' \subseteq inflight \cup {c},
         \A d \in Calls : d # c => pc'[d] = pc[d] /\ outcome'[d] = outcome[d],
         pc'[c] # "new", pc'[c] = "gated" => pc[c] = "new",
         c \in inflight' => pc'[c] \notin {"gated", "answered"},
         outcome'[c] # "none" => pc'[c] = "answered",
         IsTool(c) \/ outcome'[c] # "ok" => Cause(c, outcome'[c]),
         \A d \in Calls : job'[d] = "cleanup" => job[d] = "cleanup"
  PROVE  CauseInv'
<1>2. \A d \in Calls : Cause(d, result[d])'
  BY DEF CauseInv, Cause
<1>3. \A d \in Calls : IsTool(d) \/ outcome'[d] # "ok" => Cause(d, outcome'[d])
  BY DEF CauseInv
<1>4. \A d \in Calls : IsTool(d)' \/ outcome'[d] # "ok" => Cause(d, outcome[d])'
  BY <1>3 DEF Cause, IsTool
<1>5. \A d \in inflight' : pc'[d] \notin {"new", "gated", "answered"}
  BY DEF CauseInv, TypeInv, TypeOK
<1>6. \A d \in Calls : reason'[d] = "rpc" => cancelRpc'[d] \in Hit /\ pc'[d] \notin {"new", "gated"}
  BY DEF CauseInv
<1>7. QED
  BY <1>2, <1>4, <1>5, <1>6 DEF CauseInv, Cause, IsCancelled

\* Answers that need no cause.
LEMMA PlainAnswers ==
  \A c \in Calls : \A r : r \notin {"ok", "cancelled", "user_aborted"} => Cause(c, r)
BY DEF Cause

LEMMA AnswerCause ==
  ASSUME TypeInv, CauseInv, NEW c \in Calls, NEW r, r # "none", Answer(c, r),
         IsTool(c) \/ r # "ok" => Cause(c, r),
         UNCHANGED <<pending, ext, reply, reason, cancelRpc, clicks, sweep, result>>,
         interrupts' \subseteq interrupts,
         \A d \in Calls : job'[d] = "cleanup" => job[d] = "cleanup"
  PROVE  CauseInv'
<1>1. /\ \A d \in Calls : d # c => pc'[d] = pc[d] /\ outcome'[d] = outcome[d]
      /\ pc'[c] = "answered" /\ outcome'[c] = r
      /\ inflight' = inflight \ {c}
  BY DEF Answer, TypeInv, TypeOK
<1>2. QED
  BY <1>1, CauseHandlerStep

\* A handler that moves on short of its answer.
LEMMA MoveCause ==
  ASSUME TypeInv, CauseInv, NEW c \in Calls, NEW p \in HandlerSteps,
         p \notin {"new", "answered"}, p = "gated" => pc[c] = "new",
         pc[c] # "answered", pc' = [pc EXCEPT ![c] = p], outcome' = outcome,
         inflight' = inflight \/ (inflight' = inflight \cup {c} /\ p # "gated"),
         UNCHANGED <<pending, ext, reply, reason, cancelRpc, clicks, sweep, result>>,
         interrupts' \subseteq interrupts,
         \A d \in Calls : job'[d] = "cleanup" => job[d] = "cleanup"
  PROVE  CauseInv'
<1>1. /\ \A d \in Calls : d # c => pc'[d] = pc[d] /\ outcome'[d] = outcome[d]
      /\ pc'[c] = p
  BY DEF TypeInv, TypeOK
<1>2. outcome[c] = "none" /\ (p = "gated" => c \notin inflight)
  BY DEF CauseInv
<1>3. Cause(c, "none")
  BY PlainAnswers
<1>4. QED
  BY <1>1, <1>2, <1>3, CauseHandlerStep

LEMMA CauseHandler ==
  ASSUME TypeInv, StopInv, CauseInv, NEW c \in Calls, Handler(c)
  PROVE  CauseInv'
<1> USE DEF connVars, sessionVars, userVars, entryVars, jobVars, extVars, callVars
<1>0. \A d \in Calls : job'[d] = "cleanup" => job[d] = "cleanup"
  BY DEF Handler, Gate, Register, Dispatch, Respond, CallerTimeout, StopBegin, StopRemove,
         StopDrop, Enqueue, TypeInv, TypeOK
<1>1. CASE Gate(c)
  <2>1. CASE IsGated(c) /\ SessionOf[c] \in interrupts
    <3>1. Cause(c, "user_aborted")
      BY <1>1, <2>1 DEF Gate, Cause, CauseInv
    <3>2. QED
      BY <1>1, <2>1, <3>1, <1>0, AnswerCause DEF Gate
  <2>2. CASE ~(IsGated(c) /\ SessionOf[c] \in interrupts)
    BY <1>1, <2>2, <1>0, MoveCause, StepNames DEF Gate
  <2>3. QED
    BY <2>1, <2>2
<1>2. CASE Register(c)
  BY <1>2, <1>0, MoveCause, StepNames DEF Register
<1>3. CASE Dispatch(c)
  <2>1. CASE Refusal(c) = "none"
    BY <1>3, <2>1, <1>0, MoveCause, StepNames DEF Dispatch, Enqueue
  <2>2. CASE Refusal(c) # "none"
    <3>1. Cause(c, Refusal(c))
      BY PlainAnswers DEF Refusal
    <3>2. QED
      BY <1>3, <2>2, <3>1, <1>0, AnswerCause DEF Dispatch
  <2>3. QED
    BY <2>1, <2>2
<1>4. CASE Respond(c)
  <2>1. result[c] # "none" /\ Cause(c, result[c])
    BY <1>4 DEF Respond, CauseInv, TypeInv, VerdictInv
  <2>2. CASE pc[c] # "waiting"
    BY <1>4, <2>2 DEF Respond, CauseInv, Cause, IsCancelled, TypeInv, TypeOK
  <2>3. CASE pc[c] = "waiting" /\ Answer(c, result[c])
    BY <1>4, <2>1, <2>3, <1>0, AnswerCause DEF Respond
  <2>4. CASE pc[c] = "waiting" /\ pc' = [pc EXCEPT ![c] = "removing"] /\ UNCHANGED <<outcome, inflight>>
    BY <1>4, <2>4, <1>0, MoveCause, StepNames DEF Respond
  <2>5. QED
    BY <1>4, <2>2, <2>3, <2>4 DEF Respond, Return, ToolReturn, StopReturn
<1>5. CASE CallerTimeout(c)
  <2>1. Answer(c, "timeout") /\ Cause(c, "timeout")
    BY <1>5, PlainAnswers DEF CallerTimeout, Return, ToolReturn, StopReturn
  <2>2. QED
    BY <1>5, <2>1, <1>0, AnswerCause DEF CallerTimeout
<1>6. CASE StopBegin(c)
  <2>1. CASE Enqueue(c) /\ UNCHANGED <<outcome, inflight>>
    BY <1>6, <2>1, <1>0, MoveCause, StepNames DEF StopBegin, Enqueue
  <2>2. CASE \E r : r \in {"not_found", "stopping", "busy"} /\ Answer(c, r)
    BY <1>6, <2>2, <1>0, AnswerCause, PlainAnswers DEF StopBegin
  <2>3. QED
    BY <1>6, <2>1, <2>2 DEF StopBegin, Refusal
<1>7. CASE StopRemove(c)
  BY <1>7, <1>0, MoveCause, StepNames DEF StopRemove
<1>8. CASE StopDrop(c)
  <2>1. /\ Answer(c, "ok")
        /\ UNCHANGED <<pending, ext, reply, reason, cancelRpc, clicks, sweep, result>>
        /\ interrupts' \subseteq interrupts
    BY <1>8 DEF StopDrop
  <2>2. ~IsTool(c)
    BY <1>8 DEF StopDrop, StopInv
  <2>3. QED
    BY <2>1, <2>2, <1>0, AnswerCause
<1>9. QED
  BY <1>1, <1>2, <1>3, <1>4, <1>5, <1>6, <1>7, <1>8 DEF Handler

\* The worker's verdicts.  CancelledResult names the trip that was first.
LEMMA CancelledCause ==
  ASSUME TypeInv, CauseInv, NEW c \in Calls, IsCancelled(c)
  PROVE  /\ Cause(c, CancelledResult(c))
         /\ CancelledResult(c) = "user_aborted" => reason[c] = "user"
BY DEF CancelledResult, IsCancelled, Cause, CauseInv, TypeInv, TypeOK

\* A step of c's job: it has a verdict with its cause, or none yet.
LEMMA CauseWorkerStep ==
  ASSUME CauseInv, NEW c \in Calls,
         UNCHANGED <<pc, outcome, inflight, ext, reply, reason, cancelRpc, clicks, sweep, interrupts>>,
         \A d \in Calls : pending'[d] = "resolved" => pending[d] = "resolved",
         \A d \in Calls : d # c => result'[d] = result[d],
         Cause(c, result'[c]),
         result'[c] = "user_aborted" => reason[c] = "user",
         \A d \in Calls : job'[d] = "cleanup" => job[d] = "cleanup" \/ IsCancelled(d)
  PROVE  CauseInv'
<1>1. \A d \in Calls : Cause(d, result'[d])
  BY DEF CauseInv
<1>2. \A d \in Calls : Cause(d, result[d])' /\ (result'[d] = "user_aborted" => reason'[d] = "user")
  BY <1>1 DEF Cause, CauseInv
<1>3. \A d \in Calls : IsTool(d)' \/ outcome'[d] # "ok" => Cause(d, outcome[d])'
  BY DEF CauseInv, Cause, IsTool
<1>4. QED
  BY <1>2, <1>3 DEF CauseInv, Hit, IsCancelled

LEMMA CauseSettle ==
  ASSUME TypeInv, CauseInv, NEW c \in Calls, NEW r, Settle(c, r), Cause(c, r),
         r = "user_aborted" => reason[c] = "user",
         UNCHANGED <<pc, outcome, inflight, ext, reply, reason, cancelRpc, clicks, sweep, interrupts>>,
         \A d \in Calls : pending'[d] = "resolved" => pending[d] = "resolved",
         \A d \in Calls : job'[d] = "cleanup" => job[d] = "cleanup" \/ IsCancelled(d)
  PROVE  CauseInv'
<1>1. result'[c] = r /\ \A d \in Calls : d # c => result'[d] = result[d]
  BY DEF Settle, TypeInv, TypeOK
<1>2. QED
  BY <1>1, CauseWorkerStep

LEMMA CauseNoVerdict ==
  ASSUME CauseInv, NEW c \in Calls, result' = result,
         UNCHANGED <<pc, outcome, inflight, ext, reply, reason, cancelRpc, clicks, sweep, interrupts>>,
         \A d \in Calls : pending'[d] = "resolved" => pending[d] = "resolved",
         \A d \in Calls : job'[d] = "cleanup" => job[d] = "cleanup" \/ IsCancelled(d)
  PROVE  CauseInv'
BY CauseWorkerStep DEF CauseInv

LEMMA CauseWorker ==
  ASSUME TypeInv, CauseInv, NEW c \in Calls, Worker(c)
  PROVE  CauseInv'
<1>1. /\ UNCHANGED <<pc, outcome, inflight, ext, reply, reason, cancelRpc, clicks, sweep, interrupts>>
      /\ \A d \in Calls : pending'[d] = "resolved" => pending[d] = "resolved"
      /\ \A d \in Calls : job'[d] = "cleanup" => job[d] = "cleanup" \/ IsCancelled(d)
  <2> USE DEF Settle, userVars, callVars, entryVars, extVars, TypeInv, TypeOK
  <2>1. CASE Take(c)
    BY <2>1 DEF Take
  <2>2. CASE Promote(c)
    BY <2>2 DEF Promote
  <2>3. CASE TakeResponse(c) \/ ForwardTimeout(c) \/ BeginCleanup(c)
    BY <2>3 DEF TakeResponse, ForwardTimeout, BeginCleanup, jobVars
  <2>4. CASE CleanupResponse(c) \/ CleanupTimeout(c) \/ ClearBusy(c)
    BY <2>4 DEF CleanupResponse, CleanupTimeout, ClearBusy
  <2>5. QED
    BY <2>1, <2>2, <2>3, <2>4 DEF Worker
<1>2. CASE \E r : r \in {"not_found", "transport_closed", "timeout", "cleanup_timeout"} /\ Settle(c, r)
  BY <1>1, <1>2, PlainAnswers, CauseSettle
<1>3. CASE IsCancelled(c) /\ Settle(c, CancelledResult(c))
  BY <1>1, <1>3, CancelledCause, CauseSettle
<1>4. CASE result' = result
  BY <1>1, <1>4, CauseNoVerdict
<1>5. CASE TakeResponse(c) \/ CleanupResponse(c)
  <2>1. pending[c] = "resolved" /\ reply[c] \in Replies
    BY <1>5 DEF TakeResponse, CleanupResponse, TypeInv, TypeOK, VerdictInv
  <2>2. Cause(c, reply[c]) /\ reply[c] # "user_aborted"
    BY <2>1 DEF Cause, CauseInv, Replies
  <2>3. CASE Settle(c, reply[c])
    BY <1>1, <2>2, <2>3, CauseSettle
  <2>4. CASE CleanupResponse(c) /\ reply[c] \in {"ok", "cancelled"}
    <3>1. Settle(c, CancelledResult(c))
      BY <2>4 DEF CleanupResponse
    <3>2. IsCancelled(c)
      BY <2>4 DEF CleanupResponse, CauseInv
    <3>3. QED
      BY <1>3, <3>1, <3>2
  <2>5. QED
    BY <1>5, <2>3, <2>4 DEF TakeResponse, CleanupResponse
<1>6. QED
  BY <1>2, <1>3, <1>4, <1>5 DEF Worker, Take, Promote, ForwardTimeout, BeginCleanup,
     CleanupTimeout, ClearBusy, jobVars

\* A step of neither a handler nor a worker keeps the causes if it keeps what was
\* returned and who tripped first.
LEMMA CauseKept ==
  ASSUME CauseInv, UNCHANGED <<pc, outcome, inflight, result, job>>,
         \A c \in Calls : /\ pending'[c] = "resolved" => pending[c] = "resolved" \/ ext'[c] = "delivered"
                          /\ ext[c] = "delivered" => ext'[c] = "delivered" /\ reply'[c] = reply[c]
                          /\ reply[c] # "none" => reply'[c] = reply[c]
                          /\ reply'[c] # "none" => ext'[c] \in {"replied", "delivered"}
                          /\ cancelRpc[c] \in Hit => cancelRpc'[c] \in Hit
                          /\ reason[c] # "none" => reason'[c] = reason[c]
                          /\ reason[c] = "none" /\ reason'[c] = "rpc"
                               => cancelRpc'[c] \in Hit /\ c \in inflight
                          /\ reason'[c] = "user" => clicks' > 0,
         interrupts' # {} \/ sweep'.on # {} \/ sweep'.trip # {} => clicks' > 0,
         clicks > 0 => clicks' > 0
  PROVE  CauseInv'
<1>1. ASSUME NEW c \in Calls, NEW r, Cause(c, r), r = "user_aborted" => reason'[c] # "rpc"
      PROVE  /\ r = "ok" => reply'[c] = "ok" /\ ext'[c] = "delivered"
             /\ r = "cancelled" => (cancelRpc'[c] \in Hit /\ reason'[c] = "rpc") \/ reply'[c] = "cancelled"
             /\ r = "user_aborted" => clicks' > 0 /\ reason'[c] # "rpc"
  BY <1>1 DEF Cause
<1>2. ASSUME NEW c \in Calls
      PROVE  /\ Cause(c, result[c])'
             /\ result'[c] = "user_aborted" => reason'[c] = "user"
  BY <1>1 DEF CauseInv, Cause, Hit
<1>3. ASSUME NEW c \in Calls, IsTool(c) \/ outcome[c] # "ok"
      PROVE  Cause(c, outcome[c])'
  <2>1. Cause(c, outcome[c])
    BY <1>3 DEF CauseInv
  <2>2. outcome[c] = "user_aborted" => reason'[c] # "rpc"
    <3>1. SUFFICES ASSUME outcome[c] = "user_aborted"
                   PROVE  reason'[c] # "rpc"
      OBVIOUS
    <3>2. c \notin inflight
      BY <3>1 DEF CauseInv
    <3>3. reason[c] # "rpc"
      BY <2>1, <3>1 DEF Cause
    <3>4. QED
      BY <3>2, <3>3
  <2>3. QED
    BY <1>1, <2>1, <2>2 DEF Cause, Hit
<1>4. /\ \A c \in Calls : reason'[c] = "rpc" => cancelRpc'[c] \in Hit /\ pc'[c] \notin {"new", "gated"}
      /\ \A c \in Calls : pending'[c] = "resolved" => ext'[c] = "delivered"
      /\ \A c \in Calls : job'[c] = "cleanup" => reason'[c] # "none"
  BY DEF CauseInv, IsCancelled
<1>5. QED
  BY <1>2, <1>3, <1>4 DEF CauseInv, IsCancelled, IsTool, Hit

\* The first trip is kept.
LEMMA FirstTrip ==
  ASSUME NEW cs, NEW why, TripAll(cs, why)
  PROVE  \A c \in Calls : /\ reason[c] # "none" => reason'[c] = reason[c]
                          /\ reason'[c] = reason[c] \/ (c \in cs /\ reason'[c] = why)
BY DEF TripAll

LEMMA CauseTrips ==
  ASSUME TypeInv, CauseInv, NEW c \in Calls, CancelTrip(c) \/ InterruptTrip(c)
  PROVE  CauseInv'
<1> USE DEF callVars, jobVars, userVars, extVars
<1>1. UNCHANGED <<pc, outcome, inflight, result, job, pending, ext, reply, interrupts, clicks>>
  BY DEF CancelTrip, InterruptTrip
<1>2. CASE CancelTrip(c)
  <2>1. /\ \A d \in Calls : cancelRpc[d] \in Hit => cancelRpc'[d] \in Hit
        /\ c \in inflight => cancelRpc'[c] \in Hit
        /\ sweep' = sweep
    BY <1>2 DEF CancelTrip, Hit, TypeInv, TypeOK
  <2>2. \A d \in Calls : /\ reason[d] # "none" => reason'[d] = reason[d]
                         /\ reason'[d] = reason[d] \/ (d = c /\ c \in inflight /\ reason'[d] = "rpc")
    <3>1. TripAll({c} \cap inflight, "rpc")
      BY <1>2 DEF CancelTrip
    <3>2. QED
      BY <3>1, FirstTrip
  <2>3. \A d \in Calls : reason'[d] = "user" => clicks' > 0
    BY <1>1, <2>2 DEF CauseInv
  <2>4. QED
    BY <1>1, <2>1, <2>2, <2>3, CauseKept DEF CauseInv
<1>3. CASE InterruptTrip(c)
  <2>1. c \in sweep.trip /\ cancelRpc' = cancelRpc
    BY <1>3 DEF InterruptTrip
  <2>2. clicks > 0
    BY <2>1 DEF CauseInv
  <2>3. \A d \in Calls : /\ reason[d] # "none" => reason'[d] = reason[d]
                         /\ reason'[d] = reason[d] \/ reason'[d] = "user"
    <3>1. TripAll({c}, "user")
      BY <1>3 DEF InterruptTrip
    <3>2. QED
      BY <3>1, FirstTrip
  <2>4. QED
    BY <1>1, <2>1, <2>2, <2>3, CauseKept DEF CauseInv
<1>4. QED
  BY <1>2, <1>3

LEMMA CausePeer ==
  ASSUME TypeInv, WireInv, CauseInv,
         ExtReceive \/ \E c \in Calls : PumpResponse(c) \/ ExtReply(c)
  PROVE  CauseInv'
<1> USE DEF callVars, jobVars, userVars, entryVars, extVars
<1>1. UNCHANGED <<pc, outcome, inflight, result, job, reason, cancelRpc, clicks, interrupts, sweep>>
  BY DEF ExtReceive, PumpResponse, ExtReply
<1>2. CASE ExtReceive
  <2>1. wire[1].type = "request" => ext[wire[1].call] = "unseen"
    BY <1>2, Received DEF WireInv, OnceInv
  <2>2. \A c \in Calls : ext[c] \in {"replied", "delivered"} => ext'[c] = ext[c]
    BY <1>2, <2>1, Received
  <2>3. UNCHANGED <<pending, reply>>
    BY <1>2 DEF ExtReceive
  <2>4. QED
    BY <1>1, <2>2, <2>3, CauseKept DEF CauseInv
<1>3. ASSUME NEW c \in Calls, PumpResponse(c)
      PROVE  CauseInv'
  <2>1. /\ reply' = reply
        /\ \A d \in Calls : ext'[d] = IF d = c THEN "delivered" ELSE ext[d]
        /\ \A d \in Calls : d # c => pending'[d] = pending[d]
    BY <1>3 DEF PumpResponse, TypeInv, TypeOK
  <2>2. QED
    BY <1>1, <2>1, CauseKept DEF CauseInv
<1>4. ASSUME NEW c \in Calls, ExtReply(c)
      PROVE  CauseInv'
  <2>1. /\ pending' = pending
        /\ ext[c] \in {"running", "aborting"}
        /\ \A d \in Calls : ext'[d] = IF d = c THEN "replied" ELSE ext[d]
        /\ \A d \in Calls : d # c => reply'[d] = reply[d]
    BY <1>4 DEF ExtReply, TypeInv, TypeOK
  <2>2. reply[c] = "none"
    BY <2>1 DEF CauseInv
  <2>3. QED
    BY <1>1, <2>1, <2>2, CauseKept DEF CauseInv
<1>5. QED
  BY <1>2, <1>3, <1>4

LEMMA CauseNext ==
  TypeInv /\ StopInv /\ WireInv /\ CauseInv /\ [Next]_vars => CauseInv'
<1> SUFFICES ASSUME TypeInv, StopInv, WireInv, CauseInv, [Next]_vars
             PROVE  CauseInv'
  OBVIOUS
<1> USE DEF callVars, jobVars, userVars, entryVars, extVars
<1>1. ASSUME NEW c \in Calls, Handler(c) \/ Worker(c)
      PROVE  CauseInv'
  BY <1>1, CauseHandler, CauseWorker
<1>2. ASSUME NEW c \in Calls, CancelTrip(c) \/ InterruptTrip(c)
      PROVE  CauseInv'
  BY <1>2, CauseTrips
<1>3. ASSUME NEW c \in Calls, CancelForward(c)
      PROVE  CauseInv'
  <2>1. /\ UNCHANGED <<pc, outcome, inflight, result, job, pending, ext, reply, reason, userVars>>
        /\ \A d \in Calls : cancelRpc[d] \in Hit => cancelRpc'[d] \in Hit
    BY <1>3 DEF CancelForward, Hit, TypeInv, TypeOK
  <2>2. QED
    BY <2>1, CauseKept DEF CauseInv
<1>4. ASSUME NEW c \in Calls, InterruptForward(c)
      PROVE  CauseInv'
  <2>1. /\ UNCHANGED <<pc, outcome, inflight, result, job, pending, ext, reply, reason, cancelRpc,
                       interrupts, clicks>>
        /\ sweep'.on = sweep.on /\ sweep'.trip = sweep.trip
    BY <1>4 DEF InterruptForward, TypeInv, TypeOK
  <2>2. QED
    BY <2>1, CauseKept DEF CauseInv
<1>5. ASSUME NEW s \in Sessions, InterruptCollect(s)
      PROVE  CauseInv'
  <2>1. /\ UNCHANGED <<pc, outcome, inflight, result, job, pending, ext, reply, reason, cancelRpc>>
        /\ clicks' > 0
    BY <1>5, ConstantsAssumption DEF InterruptCollect, TypeInv, TypeOK
  <2>2. QED
    BY <2>1, CauseKept DEF CauseInv
<1>6. CASE InterruptMark
  <2>1. /\ UNCHANGED <<pc, outcome, inflight, result, job, pending, ext, reply, reason, cancelRpc, clicks>>
        /\ sweep.on # {}
    BY <1>6 DEF InterruptMark
  <2>2. QED
    BY <2>1, CauseKept DEF CauseInv
<1>7. CASE Disconnect
  <2>1. /\ UNCHANGED <<pc, outcome, inflight, result, job, pending, ext, reply, reason, cancelRpc,
                       clicks, sweep>>
        /\ interrupts' \subseteq interrupts
    BY <1>7 DEF Disconnect, SocketLost, Unregister, Purge, CloseSink, DropPurged
  <2>2. QED
    BY <2>1, CauseKept DEF CauseInv
<1>8. CASE ExtReceive \/ \E c \in Calls : PumpResponse(c) \/ ExtReply(c)
  BY <1>8, CausePeer
<1>9. CASE UNCHANGED vars
  BY <1>9, CauseKept DEF vars, CauseInv
<1>10. QED
  BY <1>1, <1>2, <1>3, <1>4, <1>5, <1>6, <1>7, <1>8, <1>9 DEF Next, Interrupt

\* Every answer has its cause, for any calls and sessions: a success is one the
\* extension returned, a cancellation has a cancel RPC of this very call or an
\* abort behind it, and an abort by the user has a click.
THEOREM AnswersHaveCauses == Spec => []AnswerHasCause
<1>1. Init => ProgressInv /\ StopInv /\ CauseInv
  BY ProgressInit, StopInit, CauseInit
<1>2. CauseInv => AnswerHasCause
  BY DEF CauseInv, Cause, Hit, AnswerHasCause, IsTool
<1>3. QED
  BY <1>1, <1>2, CauseNext, WireCorrect, OneCommandPerSession, StopInvNext, TypeInvInit,
     TypeInvNext, PTL DEF Spec

===============================================================================
