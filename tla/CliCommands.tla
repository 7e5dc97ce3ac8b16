------------------------------ MODULE CliCommands ------------------------------
(***************************************************************************)
(* The commands of bsk that use the daemon, as the calls they make: what   *)
(* they refuse themselves, how long the daemon may take for each call and  *)
(* how long the command waits for the answer. Times are in seconds, a part *)
(* of a second counts as one.                                              *)
(***************************************************************************)
EXTENDS Naturals, Sequences

CONSTANTS
  Timeouts, \* timeouts of the command line
  Durations \* durations of wait-ms, and waits for a browser

\* parse_timeout_ms(): more than 0, and in 32 bits as milliseconds.
MaxTimeout == 4294967
ValidTimeouts == 1 .. MaxTimeout

\* parse_duration_ms(): no bound.
ValidDurations == Nat

ASSUME TimesAssumption == Timeouts \subseteq ValidTimeouts /\ Durations \subseteq ValidDurations

-----------------------------------------------------------------------------
\* The daemon's patience

DefaultTool == 30    \* DEFAULT_TOOL_TIMEOUT
CancelCleanup == 2   \* what a cancelled or late tool call gets to return
ConnectWait == 35    \* EXTENSION_CONNECT_WAIT
StartTimeout == 15   \* DEFAULT_RPC_TIMEOUT
StopTimeout == 50    \* DEFAULT_SESSION_STOP_TIMEOUT
MaxBrowserWait == 60 \* MAX_BROWSER_WAIT
MaxWait == 300       \* MAX_WAIT_MS

LesserOf(m, n) == IF m < n THEN m ELSE n

\* tool_dispatch_timeout(): the timeout of the call, or the default. 0 stands for no
\* timeout_ms; the commands send none that is 0.
Limit(ask) == IF ask = 0 THEN DefaultTool ELSE ask

\* The time after which the daemon has answered a call. dispatch() stops to wait one
\* second after the limit; dispatch_unlocked(), which record_stop takes, waits for the
\* extension and for the cleanup; a stop waits for its place in the queue and for its
\* answer, one session after the other.
Patience(call) ==
  CASE call.kind = "tool"          -> Limit(call.ask) + 1
    [] call.kind = "record_stop"   -> Limit(call.ask) + CancelCleanup
    [] call.kind = "wait"          -> IF call.ask > MaxWait THEN 0 ELSE call.ask
    [] call.kind = "browsers"      -> LesserOf(call.ask, MaxBrowserWait) + 1
    [] call.kind = "list"          -> 0
    [] call.kind = "session_start" -> (ConnectWait + 1) + StartTimeout
    [] call.kind = "session_stop"  -> call.ask * (2 * (StopTimeout + 1))

-----------------------------------------------------------------------------
\* The commands' budgets

Slack == 15          \* added to a timeout of the command line
ToolIpc == 35        \* TOOL_IPC_TIMEOUT
SessionStartIpc == ConnectWait + 10
SessionStopIpc == 3600
ListIpc == 5
StatusIpc == 2       \* bsk status without a wait for a browser
BrowsersIpc == 5     \* bsk browsers without a wait for a browser
ConnectSlack == 2
Day == 86400         \* RECORD_AWAIT_TIMEOUT_MS
NoTimeout == 0       \* the call has no timeout_ms
CancelFrame == 2     \* CANCEL_FRAME_TIMEOUT, for the write and for the read
CancelGrace == 2     \* CANCEL_RESPONSE_GRACE

\* ask: what the call lets the daemon take; the sessions it stops, for session_stop.
\* listens: business_rpc, which hears Ctrl-C; else Ctrl-C ends the command.
Call(kind, ask, budget, listens) == [kind |-> kind, ask |-> ask, budget |-> budget, listens |-> listens]

Timed(t) == Call("tool", t, t + Slack, TRUE)
PlainAtLimit == Call("tool", NoTimeout, DefaultTool, TRUE) \* mutant of Plain: no more than the daemon's limit
Plain == Call("tool", NoTimeout, ToolIpc, TRUE)

SessionStartCall == Call("session_start", 0, SessionStartIpc, TRUE)
SessionStopCall(n) == Call("session_stop", n, SessionStopIpc, TRUE)
RecordStopCall == Call("record_stop", NoTimeout, ToolIpc, TRUE)

\* browser_query_ipc_timeout(), of both wait_for_browser_ms callers.
BrowsersCall(wait, default) ==
  LET clamped == LesserOf(wait, MaxBrowserWait) IN
  Call("browsers", clamped, IF clamped = 0 THEN default ELSE clamped + ConnectSlack, FALSE)

\* ---------------------------------------------------------------- commands

\* refused: the command ends before the daemon is looked for ("early"), or after that
\* and before the first call ("late"). file: what a recording leaves to other commands.
Command(refused, calls, file) == [refused |-> refused, calls |-> calls, file |-> file]

One(call) == Command("no", <<call>>, "none")
Unless(refused, call) == Command(IF refused THEN "late" ELSE "no", <<call>>, "none")

\* split_target(): one of a positional target, --ref and --selector.
Targets == {"none", "one", "many"}
BadTarget(target) == target # "one"

\* parse_modifiers() knows ctrl, shift, alt and meta; every click checks its list.
Click(target, modsKnown, t) == Unless(BadTarget(target) \/ ~modsKnown, Timed(t))
Hover(target, modsKnown, t) == Unless(BadTarget(target) \/ ~modsKnown, Timed(t))
Fill(target, t) == Unless(BadTarget(target), Timed(t))
Press(modsKnown, t) == Unless(~modsKnown, Timed(t))
SelectOption(target, t) == Unless(BadTarget(target), Timed(t))

Navigate(hasUrl, hasSession, t) == Unless(~hasUrl \/ ~hasSession, Timed(t))
NavigateBack(t) == One(Timed(t))
NavigateForward(t) == One(Timed(t))
Reload(t) == One(Timed(t))
WaitForNavigation(t) == One(Timed(t))
Evaluate(t) == One(Timed(t))

\* A request_help that is switched off answers for itself; criteria that are no JSON are
\* found after the daemon.
RequestHelp(off, criteriaParse, t) ==
  IF off THEN Command("early", <<>>, "none") ELSE Unless(~criteriaParse, Timed(t))

TabCommand == One(Plain)       \* create, close, select, borrow, return
TabList == One(Plain)
WindowResize == One(Plain)
ReadPage == One(Plain)         \* snapshot, observe
ReadLog == One(Plain)          \* console, network
Download == One(Plain)         \* config, events

\* screenshot and get-html write a file when they have the answer.
Screenshot == One(Plain)
GetHtml == One(Plain)

\* build_params(): the options are checked before the daemon is looked for. A device
\* preset brings the size and the user agent along.
EmulateRefused(a) ==
  LET manual == a.width \/ a.height \/ a.metrics \/ a.ua \/ a.lang \/ a.touch
      merged == [width |-> a.width \/ a.device = "known", height |-> a.height \/ a.device = "known",
                 metrics |-> a.metrics \/ a.device = "known", ua |-> a.ua \/ a.device = "known"]
  IN IF a.off
     THEN a.device # "none" \/ manual
     ELSE \/ a.device = "none" /\ ~manual
          \/ a.device = "unknown"
          \/ merged.width # merged.height
          \/ ~merged.width /\ merged.metrics
          \/ a.lang /\ ~merged.ua

EmulateArgs ==
  [off : BOOLEAN, device : {"none", "known", "unknown"}, width : BOOLEAN, height : BOOLEAN,
   metrics : BOOLEAN, ua : BOOLEAN, lang : BOOLEAN, touch : BOOLEAN]

Emulate(a) == Command(IF EmulateRefused(a) THEN "early" ELSE "no", <<Plain>>, "none")

\* The daemon sleeps itself; what is too long it refuses.
WaitMs(duration) == One(Call("wait", duration, duration + Slack, TRUE))

\* The skills are brought up to date, then the session starts.
SessionStart(width, height) == Unless(width # height, SessionStartCall)
SessionStop(named) == Unless(~named, SessionStopCall(1))
SessionStopAll(n) == One(SessionStopCall(n))
SessionList == One(Call("list", 0, ListIpc, TRUE))

Status(wait) == One(BrowsersCall(wait, StatusIpc))
Browsers(wait) == One(BrowsersCall(wait, BrowsersIpc))

\* A failure at one of the first calls leads to the last.
RecordStart ==
  Command("no", <<SessionStartCall, Plain, Call("tool", Day, Day + Slack, TRUE), SessionStopCall(1)>>, "start")
RecordStop == Command("no", <<RecordStopCall, SessionStopCall(1)>>, "stop")

-----------------------------------------------------------------------------
\* All commands

\* The sessions that one stop --all may find so that its budget lasts.
MaxStopped == 35

InteractionCommands ==
  {Click(target, mods, t) : target \in Targets, mods \in BOOLEAN, t \in Timeouts}
    \cup {Hover(target, mods, t) : target \in Targets, mods \in BOOLEAN, t \in Timeouts}
    \cup {Fill(target, t) : target \in Targets, t \in Timeouts}
    \cup {Press(mods, t) : mods \in BOOLEAN, t \in Timeouts}
    \cup {SelectOption(target, t) : target \in Targets, t \in Timeouts}

NavigationCommands ==
  {Navigate(url, session, t) : url \in BOOLEAN, session \in BOOLEAN, t \in Timeouts}
    \cup {NavigateBack(t) : t \in Timeouts} \cup {NavigateForward(t) : t \in Timeouts}
    \cup {Reload(t) : t \in Timeouts} \cup {WaitForNavigation(t) : t \in Timeouts}

PageCommands ==
  {Evaluate(t) : t \in Timeouts}
    \cup {RequestHelp(off, parse, t) : off \in BOOLEAN, parse \in BOOLEAN, t \in Timeouts}
    \cup {TabCommand, TabList, WindowResize, ReadPage, ReadLog, Download, Screenshot, GetHtml}
    \cup {Emulate(a) : a \in EmulateArgs}

LocalCommands ==
  {WaitMs(duration) : duration \in Durations}
    \cup {Status(wait) : wait \in Durations} \cup {Browsers(wait) : wait \in Durations}

SessionsCommands ==
  {SessionStart(width, height) : width \in BOOLEAN, height \in BOOLEAN}
    \cup {SessionStop(named) : named \in BOOLEAN} \cup {SessionStopAll(n) : n \in 0 .. MaxStopped}
    \cup {SessionList, RecordStart, RecordStop}

Commands == InteractionCommands \cup NavigationCommands \cup PageCommands \cup LocalCommands \cup SessionsCommands

-----------------------------------------------------------------------------
\* Exit codes: exit_code_for(), CliError::exit_code()

ExitCode(reply) ==
  CASE reply = "ok" -> 0
    [] reply \in {"invalid_params", "not_found", "permission_denied", "no_browser_connected",
                  "multiple_browsers_online", "unsupported"} -> 1
    [] reply \in {"protocol_error", "cancelled", "user_aborted", "local"} -> 2
    [] reply = "cdp_failed" -> 3
    [] reply = "timeout" -> 4
    [] reply \in {"unknown_method", "version_too_old"} -> 5
===============================================================================
