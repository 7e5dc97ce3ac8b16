------------------------------- MODULE LocalCalls -------------------------------
(***************************************************************************)
(* Commands in terminals, each with at most one call to the daemon, and    *)
(* the daemon's handlers of these calls: timeouts on both sides, Ctrl-C,   *)
(* the abort token of wait-ms, and what a recording leaves behind.         *)
(*                                                                         *)
(* Time is a clock per terminal: the seconds since its current call was    *)
(* sent. It stops at every deadline of the call and of its handler.        *)
(* ToolDispatch has the way of a tool call behind its handler, and         *)
(* SessionLifecycle that of session.start and session.stop.                *)
(***************************************************************************)
EXTENDS CliCommands, FiniteSets

CONSTANTS
  Clients,     \* terminals
  Menu,        \* per terminal: the commands that it runs, by number
  Instants,    \* instants, besides the deadlines, at which something may happen
  MaxRuns,     \* bound: commands
  MaxFaults,   \* bound: interrupts, and daemons that hang or end
  MaxSessions, \* bound: sessions, by number
  None         \* no session

Sessions == 1 .. MaxSessions

ASSUME LocalAssumption ==
  /\ Menu \in [Clients -> Seq(Commands)] /\ Instants \subseteq Nat /\ {MaxRuns, MaxFaults, MaxSessions} \subseteq Nat
  /\ None \notin Sessions

VARIABLES
  at,        \* per terminal: where its command is
  cmd,       \* the command, or 0
  step,      \* the number of its call
  mine,      \* the session that its first call has made, or that the state file named
  wrote,     \* it has written the state file of the recording
  failed,    \* a call of it has failed
  clock,     \* seconds since the call was sent
  until,     \* when the terminal stops to wait
  job,       \* per terminal: the handler of its call
  due,       \* when the handler has answered
  reply,     \* its answer
  flag,      \* the abort token of a wait: cancelled
  woken,     \* and: its waiter was notified
  late,      \* handlers whose terminal has gone, as [kind, session]
  sessions,  \* the daemon's sessions
  born,      \* sessions so far
  file,      \* record-session.json: the session of the recording
  online,    \* a browser is connected
  daemon,    \* the daemon is up, hangs or is down
  runs,      \* commands so far
  faults,    \* interrupts and failures of the daemon so far
  disturbed  \* an interrupt, a call given up, a daemon lost or a stop that left its session

timing   == <<clock, until>>
client   == <<at, cmd, step, mine, wrote, failed>>
token    == <<flag, woken>>
handler  == <<job, due, reply>>
world    == <<late, sessions, born, online, daemon>>
vars     == <<client, timing, handler, token, world, file, runs, faults, disturbed>>

All(v) == [c \in Clients |-> v]

Init ==
  /\ at = All("idle") /\ cmd = All(0) /\ step = All(1) /\ mine = All(None)
  /\ wrote = All(FALSE) /\ failed = All(FALSE)
  /\ clock = All(0) /\ until = All(0)
  /\ job = All("none") /\ due = All(0) /\ reply = All("none")
  /\ flag = All(FALSE) /\ woken = All(FALSE)
  /\ late = {} /\ sessions = {} /\ born = 0 /\ file = None
  /\ online \in BOOLEAN /\ daemon \in {"up", "down"} /\ runs = 0 /\ faults = 0 /\ disturbed = FALSE

-----------------------------------------------------------------------------
\* Helpers

TheCommand(c) == Menu[c][cmd[c]]
TheCall(c) == TheCommand(c).calls[step[c]]
LastStep(c) == Len(TheCommand(c).calls)

Registered == {"fresh", "checked", "created", "asleep"}
Tracked == {"working"}
Busy == Registered \cup Tracked \cup {"sent", "cleaning", "polling", "selecting", "missed", "opening"}

\* What runs without a wait in between.
Prompt(c) == job[c] \in {"sent", "fresh", "checked", "created"} \/ woken[c]

\* The handler has an answer; its token leaves the registry.
Answers(c, code) ==
  /\ job' = [job EXCEPT ![c] = "answered"] /\ reply' = [reply EXCEPT ![c] = code] /\ due' = [due EXCEPT ![c] = 0]
  /\ flag' = [flag EXCEPT ![c] = FALSE] /\ woken' = [woken EXCEPT ![c] = FALSE]

\* The handler waits for something, until at most.
Waits(c, where, deadline) ==
  /\ job' = [job EXCEPT ![c] = where] /\ due' = [due EXCEPT ![c] = deadline]

\* The terminal stops to wait; a handler that is at work does not notice.
Abandon(c) ==
  late' = late \cup IF job[c] \in Busy /\ TheCall(c).kind \in {"session_start", "session_stop"}
                    THEN {[kind |-> TheCall(c).kind, session |-> mine[c]]} ELSE {}

\* Mutant of After: a recording that cannot begin ends at once.
AfterNoStop(c, code) ==
  CASE step[c] = LastStep(c) -> LastStep(c) + 1
    [] TheCommand(c).file = "start" /\ step[c] = 1 -> IF code = "ok" THEN 2 ELSE LastStep(c) + 1
    [] TheCommand(c).file = "start" /\ step[c] = 2 -> IF code = "ok" /\ file = None THEN 3 ELSE LastStep(c) + 1
    [] OTHER -> LastStep(c)

\* The call after an answer. A command stops at its first failure, except that a
\* recording that has a session goes on to stop it.
After(c, code) ==
  CASE step[c] = LastStep(c) -> LastStep(c) + 1
    [] TheCommand(c).file = "start" /\ step[c] = 1 -> IF code = "ok" THEN 2 ELSE LastStep(c) + 1
    [] TheCommand(c).file = "start" /\ step[c] = 2 -> IF code = "ok" /\ file = None THEN 3 ELSE LastStep(c)
    [] OTHER -> LastStep(c)

\* What the command goes on with, and where it ends. A recording looks at the error of
\* its stop and not at its list of failures ("kept").
Goes(c, code, to) ==
  LET over == to > LastStep(c)
      fault == code \notin {"ok", "kept"} \/ (TheCommand(c).file = "start" /\ step[c] = 2 /\ to # 3)
  IN /\ at' = [at EXCEPT ![c] = IF over THEN "idle"
                                ELSE IF TheCommand(c).file = "start" /\ to = 3 THEN "writing" ELSE "ready"]
     /\ step' = [step EXCEPT ![c] = IF over THEN 1 ELSE to]
     /\ failed' = [failed EXCEPT ![c] = ~over /\ (@ \/ fault)]
     /\ cmd' = [cmd EXCEPT ![c] = IF over THEN 0 ELSE @]
     /\ mine' = [mine EXCEPT ![c] = IF over THEN None ELSE @]
     /\ wrote' = [wrote EXCEPT ![c] = @ /\ ~over]
     /\ file' = IF over /\ (wrote[c] \/ TheCommand(c).file = "stop") THEN None ELSE file
     /\ clock' = [clock EXCEPT ![c] = 0] /\ until' = [until EXCEPT ![c] = 0]
     /\ job' = [job EXCEPT ![c] = "none"] /\ due' = [due EXCEPT ![c] = 0]
     /\ reply' = [reply EXCEPT ![c] = "none"]
     /\ flag' = [flag EXCEPT ![c] = FALSE] /\ woken' = [woken EXCEPT ![c] = FALSE]

-----------------------------------------------------------------------------
\* Actions: terminals

\* A command looks at the state file of the recording, then ensure_daemon() starts a
\* daemon where there is none.
Run(c, n) ==
  /\ at[c] = "idle" /\ runs < MaxRuns
  /\ runs' = runs + 1
  /\ LET m == Menu[c][n] IN
     IF m.refused # "no" \/ (m.file = "start" /\ file # None) \/ (m.file = "stop" /\ file = None) \/ daemon = "hung"
     THEN UNCHANGED <<client, daemon>>
     ELSE /\ at' = [at EXCEPT ![c] = "ready"] /\ cmd' = [cmd EXCEPT ![c] = n]
          /\ mine' = [mine EXCEPT ![c] = IF m.file = "stop" THEN file ELSE None]
          /\ daemon' = "up"
          /\ UNCHANGED <<step, wrote, failed>>
  /\ UNCHANGED <<timing, handler, token, late, sessions, born, online, file, faults, disturbed>>

\* IpcClient::connect(), call_with_id(): the read has the budget of the call.
Send(c) ==
  /\ at[c] = "ready"
  /\ IF daemon = "down"
     THEN Goes(c, "local", After(c, "local")) /\ disturbed' = TRUE
     ELSE /\ at' = [at EXCEPT ![c] = "waiting"]
          /\ until' = [until EXCEPT ![c] = TheCall(c).budget]
          /\ job' = [job EXCEPT ![c] = "sent"]
          /\ UNCHANGED <<cmd, step, mine, wrote, failed, clock, due, reply, token, file, disturbed>>
  /\ UNCHANGED <<world, runs, faults>>

\* record_state::write() has found no file a moment ago.
WriteState(c) ==
  /\ at[c] = "writing"
  /\ at' = [at EXCEPT ![c] = "ready"] /\ file' = mine[c] /\ wrote' = [wrote EXCEPT ![c] = TRUE]
  /\ UNCHANGED <<cmd, step, mine, failed, timing, handler, token, world, runs, faults, disturbed>>

\* The answer; the read is polled before its timer, and in the grace as well.
Result(c) ==
  /\ at[c] \in {"waiting", "grace"} /\ job[c] = "answered"
  /\ Goes(c, reply[c], After(c, reply[c]))
  /\ disturbed' = (disturbed \/ reply[c] \in {"kept", "timeout"})
  /\ UNCHANGED <<world, runs, faults>>

\* Mutant of GiveUp: the read has no time limit.
GiveUpNever(c) ==
  /\ at[c] = "waiting" /\ job[c] = "answered" /\ clock[c] >= until[c]
  /\ Goes(c, "local", After(c, "local")) /\ Abandon(c) /\ disturbed' = TRUE
  /\ UNCHANGED <<sessions, born, online, daemon, runs, faults>>

\* The read times out.
GiveUp(c) ==
  /\ at[c] = "waiting" /\ job[c] # "answered" /\ clock[c] >= until[c]
  /\ Goes(c, "local", After(c, "local")) /\ Abandon(c) /\ disturbed' = TRUE
  /\ UNCHANGED <<sessions, born, online, daemon, runs, faults>>

\* Ctrl-C: a cancel goes out on a connection of its own, unless it is a command that
\* does not listen: that one is gone. Between two calls nobody hears it.
Interrupt(c) ==
  /\ faults < MaxFaults /\ faults' = faults + 1
  /\ at[c] = "waiting" /\ job[c] # "answered" /\ disturbed' = TRUE
  /\ IF TheCall(c).listens
     THEN /\ at' = [at EXCEPT ![c] = "cancelling"]
          /\ until' = [until EXCEPT ![c] = clock[c] + 2 * CancelFrame]
          /\ UNCHANGED <<cmd, step, mine, wrote, failed, clock, handler, token, file, late>>
     ELSE Goes(c, "local", LastStep(c) + 1) /\ Abandon(c)
  /\ UNCHANGED <<sessions, born, online, daemon, runs>>

\* The grace begins with the answer to the cancel, or without it.
GraceBegins(c) ==
  /\ at' = [at EXCEPT ![c] = "grace"]
  /\ until' = [until EXCEPT ![c] = clock[c] + CancelGrace]

CancelGivesUp(c) ==
  /\ at[c] = "cancelling" /\ clock[c] >= until[c] /\ GraceBegins(c)
  /\ UNCHANGED <<cmd, step, mine, wrote, failed, clock, handler, token, world, file, runs, faults, disturbed>>

\* The terminal makes up the cancelled answer.
GraceEnds(c) ==
  /\ at[c] = "grace" /\ job[c] # "answered" /\ clock[c] >= until[c]
  /\ Goes(c, "cancelled", After(c, "cancelled")) /\ Abandon(c)
  /\ UNCHANGED <<sessions, born, online, daemon, runs, faults, disturbed>>

-----------------------------------------------------------------------------
\* Actions: handlers

\* The request is read; what can be cancelled is registered.
Arrive(c) ==
  /\ job[c] = "sent" /\ daemon = "up"
  /\ LET call == TheCall(c) IN
     \/ call.kind \in {"tool", "record_stop", "session_stop"} /\ Waits(c, "working", Patience(call)) /\ UNCHANGED <<reply, token>>
     \/ call.kind = "wait" /\ call.ask \in 1 .. MaxWait /\ Waits(c, "fresh", Patience(call)) /\ UNCHANGED <<reply, token>>
     \/ call.kind = "wait" /\ call.ask = 0 /\ Answers(c, "ok")
     \/ call.kind = "wait" /\ call.ask > MaxWait /\ Answers(c, "invalid_params")
     \/ call.kind = "session_start" /\ Waits(c, "selecting", ConnectWait + 1) /\ UNCHANGED <<reply, token>>
     \/ call.kind = "browsers" /\ call.ask > 0 /\ ~online /\ Waits(c, "polling", Patience(call)) /\ UNCHANGED <<reply, token>>
     \/ call.kind \in {"browsers", "list"} /\ (call.ask = 0 \/ online) /\ Answers(c, "ok")
  /\ UNCHANGED <<client, timing, world, file, runs, faults, disturbed>>

\* What the extension or a time limit of the daemon makes of a tool call.
ToolAnswers(c) ==
  /\ daemon = "up" /\ job[c] \in {"working", "cleaning"} /\ TheCall(c).kind # "session_stop"
  /\ \/ job[c] = "working" /\ \E code \in {"ok", "cdp_failed"} : Answers(c, code)
     \/ job[c] = "cleaning" /\ Answers(c, "cancelled")
  /\ UNCHANGED <<client, timing, world, file, runs, faults, disturbed>>

\* handle_session_stop(): the session is gone, is not there, is busy, or has to stay
\* because a borrowed tab did not go back. stop --all stops what it can.
StopAnswers(c) ==
  /\ daemon = "up" /\ job[c] = "working" /\ TheCall(c).kind = "session_stop"
  /\ IF TheCommand(c).file = "none"
     THEN \E gone \in SUBSET sessions : sessions' = sessions \ gone /\ Answers(c, IF gone = sessions THEN "ok" ELSE "kept")
     ELSE \/ mine[c] \notin sessions /\ Answers(c, "not_found") /\ UNCHANGED sessions
          \/ mine[c] \in sessions /\ Answers(c, "ok") /\ sessions' = sessions \ {mine[c]}
          \/ mine[c] \in sessions /\ (\E code \in {"kept", "timeout"} : Answers(c, code)) /\ UNCHANGED sessions
  /\ UNCHANGED <<client, timing, late, born, online, daemon, file, runs, faults, disturbed>>

\* wait_for_any_connected()
PollAnswers(c) ==
  /\ daemon = "up" /\ job[c] = "polling" /\ (online \/ clock[c] >= due[c])
  /\ Answers(c, "ok")
  /\ UNCHANGED <<client, timing, world, file, runs, faults, disturbed>>

\* select_with_connect_wait(): a browser is there, or it is not. It looks again every 50
\* milliseconds until the time is over.
Select(c) ==
  /\ daemon = "up"
  /\ \/ job[c] \in {"selecting", "missed"} /\ online /\ Waits(c, "opening", clock[c] + StartTimeout)
     \/ job[c] = "selecting" /\ ~online /\ Waits(c, "missed", due[c])
  /\ UNCHANGED <<client, timing, reply, token, world, file, runs, faults, disturbed>>

\* With a --browser that it has missed it asks whether the registry is empty, under a
\* lock of its own, before it looks again.
Missed(c) ==
  /\ daemon = "up" /\ job[c] = "missed"
  /\ \/ clock[c] >= due[c] /\ Answers(c, "no_browser_connected")
     \/ online /\ Answers(c, "not_found")
  /\ UNCHANGED <<client, timing, world, file, runs, faults, disturbed>>

\* start_session(): the extension has opened the Agent Window, or has not.
StartAnswers(c) ==
  /\ daemon = "up" /\ job[c] = "opening"
  /\ \/ /\ born < MaxSessions
        /\ born' = born + 1 /\ sessions' = sessions \cup {born + 1}
        /\ mine' = [mine EXCEPT ![c] = born + 1] /\ Answers(c, "ok")
     \/ Answers(c, "cdp_failed") /\ UNCHANGED <<born, sessions, mine>>
  /\ UNCHANGED <<at, cmd, step, wrote, failed, timing, late, online, daemon, file, runs, faults, disturbed>>

\* handle_wait_ms(), AbortToken::cancelled(): the flag, the waiter, the flag again.
CheckFlag(c) ==
  /\ daemon = "up" /\ job[c] = "fresh"
  /\ IF flag[c] THEN Answers(c, "cancelled") ELSE job' = [job EXCEPT ![c] = "checked"] /\ UNCHANGED <<due, reply, token>>
  /\ UNCHANGED <<client, timing, world, file, runs, faults, disturbed>>

CreateWaiter(c) ==
  /\ daemon = "up" /\ job[c] = "checked"
  /\ job' = [job EXCEPT ![c] = "created"]
  /\ UNCHANGED <<client, timing, due, reply, token, world, file, runs, faults, disturbed>>

\* Mutant of CheckAgain: the flag is not looked at again.
CheckNoMore(c) ==
  /\ daemon = "up" /\ job[c] = "created"
  /\ job' = [job EXCEPT ![c] = "asleep"]
  /\ UNCHANGED <<client, timing, due, reply, token, world, file, runs, faults, disturbed>>

CheckAgain(c) ==
  /\ daemon = "up" /\ job[c] = "created"
  /\ IF flag[c] THEN Answers(c, "cancelled") ELSE job' = [job EXCEPT ![c] = "asleep"] /\ UNCHANGED <<due, reply, token>>
  /\ UNCHANGED <<client, timing, world, file, runs, faults, disturbed>>

\* The select! of handle_wait_ms(): the waiter was notified, or the time is over.
WaitAnswers(c) ==
  /\ daemon = "up" /\ job[c] = "asleep"
  /\ \/ woken[c] /\ Answers(c, "cancelled")
     \/ clock[c] >= due[c] /\ Answers(c, "ok")
  /\ UNCHANGED <<client, timing, world, file, runs, faults, disturbed>>

\* handle_cancel(): a token, then a tool call; a cancel for anything else, or for a call
\* that is not registered yet, finds nothing.
CancelArrives(c) ==
  /\ daemon = "up" /\ at[c] = "cancelling"
  /\ CASE job[c] \in Registered ->
            /\ flag' = [flag EXCEPT ![c] = TRUE]
            /\ at' = [at EXCEPT ![c] = "tripping"] /\ UNCHANGED <<until, job, due>>
       [] job[c] = "working" /\ TheCall(c).kind # "session_stop" ->
            /\ Waits(c, "cleaning", LesserOf(due[c], clock[c] + CancelCleanup))
            /\ GraceBegins(c) /\ UNCHANGED flag
       [] OTHER -> GraceBegins(c) /\ UNCHANGED <<flag, job, due>>
  /\ UNCHANGED <<cmd, step, mine, wrote, failed, clock, reply, woken, world, file, runs, faults, disturbed>>

\* AbortToken::cancel() has stored the flag; notify_waiters() wakes who waits by now.
Notify(c) ==
  /\ at[c] = "tripping" /\ daemon = "up"
  /\ woken' = [woken EXCEPT ![c] = job[c] \in {"created", "asleep"}]
  /\ GraceBegins(c)
  /\ UNCHANGED <<cmd, step, mine, wrote, failed, clock, handler, flag, world, file, runs, faults, disturbed>>

\* A handler whose terminal has gone still opens its window or stops its session.
LateEffect(h) ==
  /\ daemon = "up" /\ h \in late /\ late' = late \ {h}
  /\ \/ h.kind = "session_start" /\ born < MaxSessions /\ born' = born + 1 /\ sessions' = sessions \cup {born + 1}
     \/ /\ h.kind = "session_stop" /\ UNCHANGED born
        /\ \E gone \in SUBSET sessions : (h.session # None => gone = {h.session}) /\ sessions' = sessions \ gone
     \/ UNCHANGED <<born, sessions>>
  /\ UNCHANGED <<client, timing, handler, token, online, daemon, file, runs, faults, disturbed>>

-----------------------------------------------------------------------------
\* Actions: time, the browser and the daemon

\* Time passes for the call of one terminal.
Tick(c) ==
  /\ at[c] \in {"waiting", "cancelling", "grace"}
  /\ daemon = "up" => job[c] \in Busy /\ ~Prompt(c)
  /\ \E t \in Instants \cup {until[c], due[c]} :
       /\ clock[c] < t /\ t <= until[c]
       /\ daemon = "up" => t <= due[c]
       /\ clock' = [clock EXCEPT ![c] = t]
  /\ UNCHANGED <<client, until, handler, token, world, file, runs, faults, disturbed>>

\* A browser connects, or is gone.
BrowserTurns ==
  /\ online' = ~online
  /\ UNCHANGED <<client, timing, handler, token, late, sessions, born, daemon, file, runs, faults, disturbed>>

\* It hangs where it waits.
DaemonHangs ==
  /\ faults < MaxFaults /\ faults' = faults + 1
  /\ daemon = "up" /\ (\A c \in Clients : at[c] # "tripping") /\ daemon' = "hung" /\ disturbed' = TRUE
  /\ UNCHANGED <<client, timing, handler, token, late, sessions, born, online, file, runs>>

\* Its sessions go with the daemon, and every terminal that waits reads an end of file.
DaemonEnds ==
  /\ faults < MaxFaults /\ faults' = faults + 1
  /\ daemon # "down" /\ daemon' = "down" /\ disturbed' = TRUE
  /\ sessions' = {} /\ late' = {}
  /\ job' = [c \in Clients |-> IF job[c] \in Busy THEN "answered" ELSE job[c]]
  /\ reply' = [c \in Clients |-> IF job[c] \in Busy THEN "local" ELSE reply[c]]
  /\ due' = All(0) /\ flag' = All(FALSE) /\ woken' = All(FALSE)
  /\ at' = [c \in Clients |-> IF at[c] = "tripping" THEN "cancelling" ELSE at[c]]
  /\ UNCHANGED <<cmd, step, mine, wrote, failed, timing, born, online, file, runs>>

-----------------------------------------------------------------------------
\* Specification

ClientStep(c) ==
  \/ Send(c) \/ WriteState(c) \/ Result(c) \/ GiveUp(c) \/ CancelGivesUp(c) \/ GraceEnds(c)

JobStep(c) ==
  \/ Arrive(c) \/ ToolAnswers(c) \/ StopAnswers(c) \/ PollAnswers(c) \/ Select(c) \/ Missed(c)
  \/ StartAnswers(c) \/ CheckFlag(c) \/ CreateWaiter(c) \/ CheckAgain(c) \/ WaitAnswers(c)
  \/ CancelArrives(c) \/ Notify(c)

Next ==
  \/ \E c \in Clients : ClientStep(c) \/ JobStep(c) \/ Tick(c) \/ Interrupt(c) \/ \E n \in DOMAIN Menu[c] : Run(c, n)
  \/ \E h \in late : LateEffect(h)
  \/ BrowserTurns \/ DaemonHangs \/ DaemonEnds

Spec == Init /\ [][Next]_vars

\* The processes run, and time passes.
FairSpec == Spec /\ \A c \in Clients : WF_vars(ClientStep(c) \/ JobStep(c) \/ Tick(c))

-----------------------------------------------------------------------------
\* Properties

\* Terminals, handlers and tokens have the values the code gives them.
TypeOK ==
  /\ at \in [Clients -> {"idle", "ready", "writing", "waiting", "cancelling", "tripping", "grace"}]
  /\ cmd \in [Clients -> Nat]
  /\ step \in [Clients -> 1 .. 4]
  /\ mine \in [Clients -> Sessions \cup {None}]
  /\ wrote \in [Clients -> BOOLEAN]
  /\ clock \in [Clients -> Nat] /\ until \in [Clients -> Nat]
  /\ job \in [Clients -> Busy \cup {"none", "answered"}]
  /\ due \in [Clients -> Nat]
  /\ flag \in [Clients -> BOOLEAN] /\ woken \in [Clients -> BOOLEAN]
  /\ sessions \subseteq Sessions /\ born \in 0 .. MaxSessions
  /\ file \in Sessions \cup {None}
  /\ online \in BOOLEAN /\ daemon \in {"up", "hung", "down"}
  /\ runs \in 0 .. MaxRuns /\ faults \in 0 .. MaxFaults /\ disturbed \in BOOLEAN

\* As long as the daemon works, it is the daemon that ends a call, with an answer that
\* says what happened: no command gives a call up before (TOOL_IPC_TIMEOUT, the slack of
\* every timeout). session.start is the exception.
DaemonAnswersFirst ==
  \A c \in Clients :
    at[c] = "waiting" /\ daemon = "up" /\ job[c] # "answered" /\ TheCall(c).kind # "session_start"
      => clock[c] < until[c]

\* An abort token that is cancelled wakes its waiter, whatever the waiter was doing.
NoLostWakeup ==
  \A c \in Clients : job[c] = "asleep" /\ flag[c] /\ at[c] # "tripping" => woken[c]

\* When all commands are over and nothing has come between, no recording has left a
\* session or its state file behind, however it has failed. (No session start on the menu.)
RecordCleansUp ==
  (\A c \in Clients : at[c] = "idle") /\ ~disturbed => sessions = {} /\ file = None

\* Every command ends, even when the daemon hangs.
CommandEnds == \A c \in Clients : at[c] # "idle" ~> at[c] = "idle"

\* The budget of session.start lasts as well, as its comment says.
StartAnswersFirst ==
  \A c \in Clients :
    at[c] = "waiting" /\ daemon = "up" /\ job[c] # "answered" => clock[c] < until[c]

\* session start --browser is told that the browser is not there only if it was not.
MissIsReal == [][\A c \in Clients : reply'[c] = "not_found" /\ job[c] = "missed" => ~online]_vars

\* Another terminal can stop a recording that waits for the user: the state file names it.
RecordingHasFile ==
  ~disturbed => \A c \in Clients :
    at[c] = "waiting" /\ TheCommand(c).file = "start" /\ step[c] = 3 /\ mine[c] \in sessions => file = mine[c]

\* A command that was successful has stopped its session.
SuccessMeansStopped ==
  [][\A c \in Clients :
       cmd[c] # 0 /\ cmd'[c] = 0 /\ ~failed[c] /\ reply[c] \in {"ok", "kept"} /\ mine[c] # None
         => mine[c] \notin sessions]_vars
===============================================================================
