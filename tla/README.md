# Formal model of BrowserSkill

BrowserSkill lets command line agents drive a browser. A short-lived CLI
process (`bsk`) talks over a local socket to a daemon, the daemon talks over
one WebSocket per browser to an extension, and the extension drives Chrome.
Almost every hard question about it is about the daemon in the middle: it
answers for commands it has handed to somebody else, while callers time out,
users press stop, sockets die and come back, and sessions are torn down from
five sides at once. The second hard part is the extension: the tabs of the user are
moved in and out of the agents' windows, the debugger, a recording and a request
for help are shared by what runs in a window, and the link to the daemon is lost
and made again. The third is the processes: terminals find, start, stop and
replace a daemon that may replace itself, and both sides of every call have
time limits of their own. This project models the three, checks them with TLC on
small instances and proves the core of them with TLAPS for instances of any
size.

Paths below are relative to `src/`; `daemon/` is `crates/bsk-cli/src/daemon/`,
`ext/` is `apps/extension/src/`.

## 1. Inventory

### Daemon

| part | state | operations | correct when |
|---|---|---|---|
| tool call path (`daemon/ipc.rs`, `queue.rs`, `inflight.rs`) | a bounded channel and a busy flag per session, one worker task per session, an inflight entry per call (cancelled, reason, browser id, WebSocket rpc id) | `handle_tool_dispatch`, `dispatch`, `dispatch_unlocked`, `dispatch_after_closing`, `reopen`, `run_worker`, `forward_one` | one unfinished command per session; the lock is free when the caller has its answer; nothing is sent after a confirmed stop; every call is answered |
| cancellation (`ipc.rs` `handle_cancel`, `cancel_forward.rs`, `session_interrupt.rs`, `ws.rs`) | the cancel token of each entry, one interrupt marker per session | `cancel`, `cancel_session`, `promote_to_forwarded_with`, `mark`, `try_consume` | a cancel is either before the request leaves or behind it on the wire; it is never lost; the first reason wins; one click rejects at most one call |
| sessions (`sessions.rs`) | rows: placeholder, then committed; last use | `reserve_id`, `commit_reservation`, `cancel_reservation`, `remove`, `purge_browser`, `start_session`, `stop_session` | a row stands for a session of the connection in use, a failed start leaves none, a listed session has a queue |
| browsers (`browsers.rs`, `ws.rs`) | one client per instance id with a generation, its sink and its pending slots | `insert`, `remove_if_generation_matches`, `select`, `drive_connection`, `handle_inbound_text` | a late cleanup of an old socket does not touch its successor |
| reapers (`start.rs`) | none of their own | idle sessions are stopped, silent browsers dropped | what is stale goes, what is in use stays |
| waits (`abort.rs`, `handle_wait_ms`) | a token per wait: flag and waiters | register, cancel, unregister | an abort wakes the wait, whenever it comes |
| process (`start.rs`, `lockfile.rs`, `info.rs`) | the lock, `daemon.json`, the socket file | start, stop, restart, idle exit, crash | one daemon; clients find it or start it |
| self-update (`cli/update.rs`, `start.rs`) | the installed binary, the update task | check, download, replace, hand over | a daemon serves after it; it takes no session along; the version does not go back |

The daemon is a multi-threaded tokio program. Its registries are maps under a
`Mutex` each, and an operation that touches two of them takes two locks, one
after the other: this is where the interleavings are. The only waits are on
channels, on response slots and on timers.

### CLI

| part | state | operations | correct when |
|---|---|---|---|
| commands (`cli/*.rs`) | none | each command: what it refuses itself, one call (a recording makes four) | the daemon's limit ends before the command's |
| calls (`cli/business_rpc.rs`, `ipc_client.rs`) | a call with its budget, on Ctrl-C a cancel on a second connection and a grace | call, cancel, give up | every command ends |
| recording (`cli/record.rs`, `record_state.rs`) | `record-session.json` | start, stop | a recording that fails leaves no session and no file |
| discovery (`cli/ensure_daemon.rs`) | none | look, spawn, wait | who starts a daemon gets one |

### Extension

| part | state | operations | correct when |
|---|---|---|---|
| dispatcher (`ext/tools/dispatcher.ts`) | an `AbortController` per request | `dispatch`, cancel fast path, rollback of a start | an aborted handler is told; a session nobody knows is rolled back |
| session manager (`ext/session-manager/*`) | session contexts, window index, borrow reservations, refs | `start`, `stop`, window closed, disconnect cleanup | mirrors the daemon's rows |
| borrowing (`ext/tools/tabs.ts`, `borrow-confirmation.ts`) | borrowed tabs and their homes, one confirmation per tab | reserve, confirm, move, return | a tab has one borrower and comes back |
| connection (`ext/lib/connection-controller.ts`, `ext/transport/*`, `keepalive.ts`, `heartbeat.ts`) | socket and handshake generations, timers, the enabled switch | attach, recover, retry, disable | at most one live socket; it reconnects unless switched off |
| human loop (`ext/tools/human-loop.ts`, `entrypoints/content.ts`) | active requests, the tabs that show them, rearm loops | request, show, answer, time out, clean up | one answer, by the user and for this request; no overlay stays |
| recording (`ext/tools/record.ts`, `content/record-capture.ts`) | the session's recording, captures in the pages, steps on their way | start, arm, step, stop, await, clear | the trace waits for the steps and for the recorded page's word; who awaits it is answered |
| driver (`ext/browser-driver/chromium-cdp.ts`) | attachments, attaches under way, owners of a tab, log buffers | attach, share, roll back, detach, read a page of the log | no debugger is left behind, no entry of one log is lost unseen |
| page tools | none of their own | one handler per tool | Chrome's |

The service worker is single-threaded, so only an `await` separates steps; it
can be killed at any time, and then its maps are empty.

### Interactions

CLI to daemon: request and answer per connection, handled to the end even if
the CLI leaves. Daemon to extension: requests, cancels and their responses on
one FIFO socket; the daemon finds a response's caller by a slot in the client
it was sent to. Extension to daemon: `session.window_closed`,
`session.user_interrupt`, heartbeats. What neither side tells the other is
that it has given up: timeouts are local.

### What is hard

The list is `hazards` in `PROJECT.json`, each with its line and the properties
that would notice. In short: cancel against send; answer against cancel
against timeout; stop against everything that is queued; teardown of one
connection against the birth of the next; a late answer to a request that was
given up; two registries updated one after the other.

## 2. Modules

| module | models |
|---|---|
| `SessionCommands` | the promise, without queues, sockets or tasks: a session is held by one command at a time, a request is sent at most once and not after it was revoked, every command is answered once |
| `ToolDispatch` | the path of a tool call and of `session.stop` through the daemon, the cancel RPC, the stop button, the loss of the socket, the extension's dispatcher; implements `SessionCommands` |
| `ToolDispatchProofs` | theorems about `ToolDispatch` |
| `SessionLifecycle` | how sessions start, stop and are torn down over several connections of a browser, on both sides |
| `SessionLifecycleProofs` | theorems about `SessionLifecycle` |
| `TabLoans` | the promise about the user's tabs, without windows and handlers: a tab is promised to one session, lent to that one or to nobody, and free again when it is returned or the session ends |
| `TabBorrowing` | how sessions borrow the user's tabs: `tab_borrow`, `tab_return`, stops and the disconnect cleanup in the extension, against Chrome and the user; implements `TabLoans` |
| `TabBorrowingProofs` | theorems about `TabBorrowing` |
| `Connection`, `ConnectionProofs` | the extension's link to the daemon: sockets, handshakes, timers, recovery, the user's switch; theorems |
| `CdpDriver`, `CdpDriverProofs` | the debugger of a tab, shared by calls of several sessions, and its log; theorems |
| `AgentWindow` | the tabs whose pages `Recording` and `HumanLoop` talk to: their constants |
| `Recording` | one recording: its start, the pages' captures and steps, its ends |
| `HumanLoop` | `request_help`: the overlays of a session's requests |
| `AgentWindowProofs` | theorems about `Recording` and `HumanLoop` |
| `DaemonProcess`, `DaemonProcessProofs` | the daemon as a process: lock, files, start and stop by several terminals, update; theorems |
| `CliCommands` | every command that calls the daemon: what it refuses, its calls, the limits of both sides |
| `LocalCalls`, `LocalCallsProofs` | terminals that run these commands, and the daemon's handlers of their calls; extends `CliCommands`; theorems |
| `MC...` | constants of the instances |

`ToolDispatch` and `SessionLifecycle` are two views of one daemon: the first has
every step of a call between two teardowns, the second every teardown between
two calls. `LocalCalls` is what a terminal sees of both. `TabBorrowing`,
`CdpDriver`, `Recording` and `HumanLoop` are handlers that `ToolDispatch` runs as
one "handler at work"; `Connection` is what `SessionLifecycle` takes as "a socket
is lost, another connects".

A step of a model is what the code does under one lock, or between two awaits.

### ToolDispatch and the code

| variables | code |
|---|---|
| `pc`, `outcome` | progress of the IPC handler and its answer |
| `inflight`, `reason`, `sent` | `ToolInflightRegistry`; `cancel_reason` and `ws_rpc_id` of an entry |
| `queue`, `busy` | `QueueEntry.accepting` (or no entry), `QueueState.busy` |
| `job`, `result` | the worker in `forward_one`, and what it returned |
| `pending`, `wire` | the client's slot for the response, the frames on the sink |
| `cancelRpc`, `sweep`, `interrupts` | `handle_cancel`, `handle_session_user_interrupt`, the markers |
| `live`, `conn`, `doomed` | rows and registration, and how far the cleanup of the socket is |
| `ext`, `reply` | the handler in the extension and its response |

`Gate`, `Register`, `Dispatch` and `Respond` are `handle_tool_dispatch` in
order; `Take`, `Promote`, `TakeResponse`, `ForwardTimeout`, `BeginCleanup`,
`CleanupResponse` and `CleanupTimeout` are `forward_one`; `ClearBusy` is the
line of `run_worker` before the response is sent. `CancelTrip`,
`CancelForward` and `InterruptCollect` to `InterruptMark` are the cancel paths,
split where the code leaves a lock. `record_stop` runs `forward_one` outside
the worker, as `dispatch_unlocked` does. A call that timed out for its caller
goes on in the worker. An extension handler may run for ever.

Abstracted: what a tool does and returns (ok, failed, cancelled, for a stop
also not found and return failures), parameters and their validation, the
channel's capacity of 64 (the busy flag keeps it at one job), durations. A call is its
own rpc id: the duplicate id error cannot happen.

### SessionLifecycle and the code

| variables | code |
|---|---|
| `registered`, `conn` | `BrowserRegistry`'s client, and where each `drive_connection` is |
| `rows`, `queue` | `SessionRegistry`, `ToolQueueRegistry` |
| `pc`, `client`, `grant` | `start_session`: progress, selected client, response slot |
| `stop`, `via`, `verdict` | `stop_session` called by a CLI or by the idle reaper |
| `reaper`, `doomed` | `spawn_browser_liveness_reaper`; sessions a teardown has removed whose queues it has yet to drop |
| `attached`, `window`, `sweeping` | the extension's connection, its session contexts, its disconnect cleanup |
| `down`, `up` | frames in both directions, per connection |

Every path of `start_session` is there (`Select` to `Spawn`), with the closed
sink, the error, the timeout and the vanished reservation; likewise the
verdicts of `stop_session`. A connection goes through `HandshakePurge`,
`Register`, `Pump`, `SocketLost`, `Unregister`, `CleanupPurge`, `TaskEnds`,
each under the lock the code takes. `Register` has the early return of
`drive_connection` as well: when the reply to the handshake cannot be written the
task ends before its cleanup, and the registration stays, with a closed sink, until
a later one replaces it; the liveness reaper leaves it alone, because it has sent
no heartbeat. Time is a free choice: which session is idle, which browser is
silent, when an answer is late.

Abstracted: tool calls (a stop never meets a busy session here, in
`ToolDispatch` it does), several browsers, ids (each start draws its own),
borrowed tabs (a stop of an open session may just fail). `window` is the
extension's knowledge: after a service worker restart it is empty although
Chrome's windows are still there.

The constant `InOrder` states that the daemon's tasks get to two handshakes of
the same browser in the order they were sent. Nothing in the code enforces it;
without it `RowsAreOfTheConnection` fails, because an older handshake that is
scheduled late replaces the newer registration. What remains then is
`RowsAreNotOlder`, and that it takes an overtaken handshake: section 5.

### TabBorrowing and the code

| variables | code |
|---|---|
| `open`, `closed`, `where` | Chrome: its windows and the window of each tab; the Agent Window of session `s` is called `s` |
| `phase`, `borrowed`, `reserved` | `SessionManager`: its sessions (and with them `windowIndex`), `borrowedTabs`, `borrowReservations` |
| `known` | the sessions the daemon still sends requests for |
| `at`, `home`, `aborted` | per `tab_borrow`: where `handleTabBorrow` is, the original window, its `AbortSignal` |
| `job` | per `tab_return`, `session_stop` and for the disconnect cleanup: where it is and what it has in hand |
| `doomed` | sessions `cleanupSessions` has yet to stop |

`BorrowBegin` is what `handleTabBorrow` does before its first await, with
`tryReserveBorrow`; `BorrowFetch` is `validateBorrowTarget`, `UserAllows` and
`BorrowDenied` are the outcomes of the confirmation, `BorrowMove` to
`BorrowRollback` are `moveTabForBorrow`, `BorrowCommit` is the commit;
every end goes through `Finish`, the `finally` block. `Retrieve` to
`ReturnDone` are `returnBorrowedTab`, which a `tab_return` and a stop share;
`StopNextTab` to `StopForget` are `handleSessionStop` and
`SessionManager.stop`, which the daemon's stop and the cleanup share. Any call
of Chrome may fail, and the user closes windows and tabs and drags tabs between
every two steps.

The daemon runs one command of a session at a time, so `Accepts` waits for the
session to be idle, unless `Overlap` holds: a command that times out in the
daemon frees the session while its handler goes on (section 4, item 1), and a
second borrow of the same session can then be at work on the same tab.
`MayDisconnect` lets the connection go at any time. When it is lost the daemon
forgets its sessions; when the user switches it off the socket stays open until
the cleanup is through. Handlers are not told either way.

Abstracted: positions in a window, activation, overlays; how the confirmation
finds a window to ask in and who answers (page, notification, timeout); a
fallback window that an aborted return closes again is not opened; `tab_close`,
`tab_create` and `tab_select`. Bounds: a session is started once, the user drags
tabs to windows of their own and leaves the window of a starting session alone.

### Connection and the code

| variables | code |
|---|---|
| `socket`, `phase`, `timer` | `WSTransport`: its socket, what the browser and the daemon have done with it, `reconnectTimer` |
| `shake`, `handshake`, `retry` | `ConnectionController`: the handshake of the current `connectionGeneration`, its result, `handshakeRetryTimer` |
| `recovery`, `disabling`, `cleaning` | `disconnectRecovery`, `applyDisabledState` and the shared disconnect cleanup, each where it awaits |
| `attached`, `enabled`, `shown` | `attach()`, the user's switch, `currentState` |
| `sessions` | whether there are sessions of this connection, in a cleanup, or of a lost connection without one |

The worker is single-threaded. A step is a task of the event loop; what a
promise releases runs before the next task (`Released`, `Settled`). Sockets are
reused when their last event is in, so three stand for any number. Abstracted:
the lengths of the backoff, the heartbeat (a socket that fails), the contents of
a handshake (good enough, or not).

### CdpDriver and the code

| variables | code |
|---|---|
| `chrome` | Chrome's side: the attach that it has granted |
| `cached`, `inflight`, `owners` | `attachedTabs`, `attachInFlight`, `tabOwners`, for one tab |
| `call` | per tool call: where `ensureAttached` is, for which session, whose promise it awaits |
| `live` | sessions: live, between `detachSession` and the end of the stop, gone |
| `seq`, `cursor` | the numbering of the log, and each client's `next_since` |
| `current` | history: the clients whose cursor is one of the present log |

All maps of the driver are keyed by tab and no operation relates two, so one tab
stands for each. `ReadPage` is `readBufferedEntries` with its cursor, its limit
and its mark. A detach clears the log and its numbering (`ClearLog`) and leaves the
cursors: those are with the agents, who may use them on the next log. Abstracted: what a command over the debugger does; dialogs,
downloads, references to elements.

### Recording and the code

| variables | code |
|---|---|
| `start`, `target`, `aborted` | `handleRecordStart`: its progress, tab and signal |
| `entry`, `settled`, `tab`, `watch` | the session's entry in `recordings`, its `finishPromise`, `tabId`, the observers |
| `finish`, `todo`, `asked` | `finishRecording`: progress, tabs it has yet to stop, the tab it asks |
| `timers`, `rearm` | `rearmTimers` and the `START` messages of `rearmRecording` |
| `page` | per tab the content script: its capture, the steps on their way, a `STOP` that waits for them |
| `await`, `stop` | `handleRecordAwait`, `handleRecordStop` |
| `flushed` | history: since the tabs are being stopped the page of `tabId` has confirmed its steps, or the recording has gone over to it |

`STOP` and steps are messages of their own and may overtake each other; a
document that is left takes its steps along. Only the page of `recording.tabId` must
confirm its steps; the answer of any other may be a failure or none
(`StopSettled`), and its steps are then missing. Abstracted: what a step contains,
merging and reduction of the trace, what may be recorded at all.

### HumanLoop and the code

| variables | code |
|---|---|
| `req`, `outcome`, `signal` | `handleRequestHelp`: progress, result, abort signal |
| `primary`, `overlays`, `cleanup` | the help object: its tabs, and where `cleanupHelp` is |
| `send` | per request and tab: the loop that sends `HELP_REQUEST` |
| `cancels`, `finishes` | `HELP_CANCEL` and `HELP_FINISH` on their way |
| `shown`, `query` | per tab: the overlay that is mounted, a `HELP_QUERY` under way |
| `clicked` | history: what the user has clicked |

The daemon sends the requests of a session one after the other, the loops and
messages of an earlier one go on all the same. Abstracted: texts, notification,
how completion criteria are evaluated (they may match at any time).
What `Recording` has as well is prefixed here (`HelpInit`, `HelpNext`,
`HelpSpec`), so that `AgentWindowProofs` can extend both.

### DaemonProcess and the code

| variables | code |
|---|---|
| `pc`, `pred`, `term` | per process: where `run_foreground` is, the process it replaces, its `SIGTERM` |
| `lock`, `sock`, `info` | the lock file, the listener behind the socket path, `daemon.json` |
| `img`, `job`, `got`, `live` | its version, its update task, the version that installs, whether it has sessions |
| `release`, `binary`, `stale` | the manifest, the installed binary, terminals whose binary was replaced |
| `at`, `goal`, `target`, `want` | per terminal: `ensure_daemon`, `run_start`, `run_stop`, `restart`, `bsk update` |

`Lock`, `Bind`, `Publish` and `Leave` to `Exit` are `run_foreground` in order,
each a system call that another process can see; `Found` is `read_verified`.
`Check`, `SelfInstall`, `Respawn` and `TakeOver` are the update task and the
handover. The platform is Linux, where `current_exe` of a process whose binary
was replaced leads nowhere. A command ends as "idle" (successful), "failed" (it
started no daemon) or "refused" (its stop was). A pid is not used again; a wait of three seconds is
enough for a start that is under way (`GiveUp`).

### CliCommands, LocalCalls and the code

`CliCommands` has no variables. Each command is an operator of the arguments that
matter to it: what it refuses, before or after the daemon is looked for, and its
calls, each with the time it lets the daemon take, the time it waits, and whether
it listens to Ctrl-C. `Patience` is the time after which the daemon has answered
a call of this kind. Times are seconds.

| variables of `LocalCalls` | code |
|---|---|
| `at`, `cmd`, `step`, `mine`, `wrote`, `failed` | a terminal: its command, the call it is at, the session it has made, its state file |
| `clock`, `until` | seconds since the call was sent, and when the terminal stops to wait |
| `job`, `due`, `reply` | the daemon's handler of the call, when it has answered, the answer |
| `flag`, `woken` | `AbortToken` of a `wait_ms`: the flag, and that its waiter was notified |
| `late` | handlers whose terminal has gone |
| `sessions`, `file`, `online`, `daemon` | what the commands leave behind, whether a browser is connected, the daemon |

The clock of a terminal stops at every deadline of its call, and at the
`Instants` of the instance. `Arrive` dispatches on the kind of call;
`CheckFlag`, `CreateWaiter`, `CheckAgain`, `CancelArrives` and `Notify` are
`AbortToken::cancelled` and `cancel` step by step. Abstracted: a tool call is
answered at any time up to its limit (`ToolDispatch` has its way), `session.stop`
has any of its verdicts (`SessionLifecycle` has how). `disturbed` marks runs in
which somebody interrupted or the daemon was lost.

## 3. Runs

| run | instance | shows |
|---|---|---|
| `dispatch_stop` | one session; a gated command with a cancel, a stop, the socket may fail | `BusyLock`, `NoSendAfterStop`, `ImplementsCommands` (the daemon implements `SessionCommands`), `SessionNeverWedged`, `CancelReachesExtension` |
| `dispatch_interrupt` | a gated command with a cancel, a record_stop, one click, the socket may fail | `QueuedCancelNeverRuns`, `CancelBehindRequest`, `CancelOnItsWay`, `AnswerHasCause` |
| `lifecycle_registry` | one start, a stop by a CLI and by the idle reaper, two connections, the liveness reaper | `RowsAreOfTheConnection`, `ListedSessionHasQueue`, `StopMeansStopped`, `RegistrationGoesWithItsSocket`, `StaleSessionGoes` |
| `borrow_exclusive` | two sessions, one tab, three borrows, two of them of one session and overlapping, a return, one user window | `ImplementsLoans` (the extension implements `TabLoans`), `ReservationHasHandler`, `ReservationEnds` |
| `borrow_stop` | one session, two tabs, two borrows, a stop, a second user window, disconnects | `StopKeepsBorrowedTabs`, `CancelledBorrowGivesBack` |
| `borrow_cleanup` | the same instance | `CleanupKeepsBorrowedTabs` is violated |
| `connection_link` | three sockets, three faults | `OneLiveSocket`, `NoStaleHandshake`, `OffMeansOff`, `Reconnects` |
| `cdp_attach` | two calls, two sessions, a buffer of two, three entries | `CleanSlate`, `WaitersHaveAttach`, `NoSilentLoss` |
| `recording_flow` | two tabs, one step of each page on its way | `AwaitCanEnd`, `StopWaitsForSteps`, `FlushIsConfirmed` |
| `human_help` | two requests, two tabs, one rearm or query, one late answer | `ContinuedByUser`, `ShownIsReached`, `HelpIsAnswered` |
| `daemon_start` | two terminals, two commands, three processes, one release, one fault | `SocketIsServed`, `DiscoveryIsSound`, `NoLockout`, `UpdateServes` |
| `cli_calls` | two terminals, two commands: a recording against its end, a wait, a status; one fault | `DaemonAnswersFirst`, `NoLostWakeup`, `RecordCleansUp`, `CommandEnds` |

Bounds. `Calls`, `Starts` and `Stops` are finite sets, `MaxInterrupts` the
clicks, `MaxConns` the connections. Sessions share nothing but the socket and
the registries' locks, so one session shows what a session can suffer. Two
commands are enough to contend for a lock or a marker, or one of them for a
session that the other closes. Two connections give an old one that is
still cleaning up and one that replaces it. Two sessions and one tab
give every conflict about a reservation; two tabs give a stop that returns one
and fails on the other, and a second user window the fallback when the first is
gone. `Connection` needs a socket in use and two that are closing, and three
faults (`MaxFaults`) for a loss in the recovery from a loss after a bounce. In
`CdpDriver` a buffer of two and three entries (`MaxEntries`) drop one, and two
calls are one that attaches and one that waits; a call that ends is used again.
`Recording` has one step per page in flight (`MaxSends`) and two tabs, the one
that must confirm and another. `HumanLoop` bounds the loops and queries
(`MaxArms`) and answers on their way (`MaxFinishes`); two requests are an old one
and its successor. In `DaemonProcess` three processes (`MaxDaemons`) are one that
ends, its replacement and one that a terminal starts meanwhile; `MaxCommands`,
`MaxReleases` and `MaxFaults` bound the rest. In `LocalCalls` time jumps from
deadline to deadline (`Instants` is empty), `MaxRuns`, `MaxSessions` and
`MaxFaults` bound commands, sessions and disturbances; `Menu` says which terminal
runs what. The theorems below hold without these bounds. Deadlock is checked for
`Connection`, `Recording` and `HumanLoop`, which always have something left to
do; the others stop when every command was answered.

Each property has a mutant in its module, a definition with the bug it is there
to catch (an early release of the lock, a send without the second look at the
cancel flag, a cleanup without the generation check, a page that answers `STOP`
before its steps are through, a silent page that counts as confirmed, a budget no longer than the daemon's limit), and
TLC finds it violated under the mutant.

Fairness. The daemon's tasks are polled when they are ready and tokio's timers
fire, so every step of a handler, worker, cleanup or connection task is weakly
fair; an open socket delivers, so receiving is too. Nothing is assumed of CLIs,
users, the network's failures, or that an extension's handler or Chrome ever
comes back: the answers then come from the timeouts, and the mutants without
them violate the properties. `StaleSessionGoes` needs two strong conditions: a
reaper's stop is repeated for as long as the row is there, and on a connection
that answers it is not outrun by its timeout every single time.
`ReservationEnds` asks only that each borrow's own steps are taken: the
confirmation has a timeout in the service worker
(`ext/tools/borrow-confirmation.ts:472`), and Chrome settles every call, if only
with an error. Whether a user ever answers is left open.
`Reconnects` asks that the event loop runs what is due, that an open socket is
answered or times out, and that the alarm, which Chrome keeps for the worker, is
periodic; not that anybody starts a daemon or flips the switch. `HelpIsAnswered`
asks for the steps of the handler and its timeout only, nothing of pages and
users. `UpdateServes` asks that a process runs and that the update task ticks,
not that a terminal does anything. `CommandEnds` asks that the terminal, the
handler and the clock go on, together: a daemon that hangs takes no step and
the clock does.

## 4. What the checks found

Statements of the code's own comments, messages and types that do not hold. The
first has a run; for the others the configuration is here and run by hand,
`tlc -workers 2 -config X.cfg MCM`, where `M` is the first part of its name. A
configuration with two properties is for one of them at a time: TLC stops at the
first that it finds violated.

1. The cleanup after a disconnect closes an Agent Window on a tab that a borrow
   has moved into it and not entered in `borrowedTabs` yet (`borrow_cleanup`,
   `CleanupKeepsBorrowedTabs`). The daemon's own stop cannot do that as long as
   it meets no command of its session (`StopKeepsBorrowedTabs`, checked without
   `Overlap`; after a borrow that the daemon has timed out it could); the cleanup
   waits for nobody and aborts nobody (`ext/tools/session.ts:185`, comments at
   147 and at `ext/session-manager/disconnect-cleanup.ts:24`).

| configuration | property | what happens |
|---|---|---|
| `ToolDispatch_teardown` | `TeardownNeverRacesTool` | `session.stop` is at work in the extension together with a read that the daemon has timed out: a timeout frees the session without a cancel (`daemon/queue.rs:622`, comment at 371) |
| `ToolDispatch_escape` | `NoInputPastInterrupt` | a click on the stop button misses a command between the interrupt gate and the inflight registry: too late for the old markers, too early for the sweep, and the new marker is for the next one (`daemon/ipc.rs:322`) |
| `SessionLifecycle_fresh` | `FreshSessionsSurvive` | the cleanup of an old socket checks the generation and purges by id in two steps; a reconnect and a start in between lose the new session (`daemon/ws.rs:401`, comment at 397) |
| `SessionLifecycle_orphan` | `NoOrphanWindow` | a start that the daemon timed out leaves its Agent Window, because the extension rolls back only when it cannot send (`ext/tools/dispatcher.ts:268`) |
| `Connection_forgotten` | `NoForgottenSession` | a loss during a recovery shares that recovery's cleanup, which has listed its sessions already; one that started in between is not stopped (`ext/lib/connection-controller.ts:231`) |
| `CdpDriver_cursor` | `CursorsAreFollowed` | a cursor outlives its log: a detach, by Chrome or by the stop of the tab's last session, clears the buffers and the numbering (`ext/browser-driver/chromium-cdp.ts:530`, 616, 627), and the next log is numbered from 1 again. The `next_since` of an earlier read stays with the agent ("`--since <seq>` pages from a cursor", `crates/bsk-cli/skill/SKILL.md:186`); a read from it skips every entry of the new log up to it, with `truncated` false |
| `CdpDriver_stop` | `StopDetaches` | a call of a session attaches after `detachSession`: nobody owns the tab any more and the debugger stays (`ext/browser-driver/chromium-cdp.ts:364`) |
| `Recording_trace` | `TraceIsComplete` | a page other than the recording's tab fails to deliver a step and says so; `record_stop` does not look at its answer, and the trace goes out without the step (`ext/tools/record.ts:353`). A page that navigates while it sends takes its steps along in the same way |
| `Recording_retry` | `RetryIsPossible` | after a `record_stop` that could not flush, "the recording is still active — retry" (`ext/tools/record.ts:762`), but its page records no longer |
| `HumanLoop_cancelled` | `CancelledByUser` | a late attempt to show a request that has settled replaces the overlay of the next one, whose page then reports a cancel by the user (`ext/tools/human-loop.ts:393`) |
| `DaemonProcess_found` | `AlwaysDiscoverable` | `run_stop` removes `daemon.json` without the lock, and it may be the file of the daemon started since (`daemon/start.rs:189`); the daemon serves and no command finds it |
| `DaemonProcess_refused` | `RestartsAreHeard` | a restart (or stop, or update) that meets a daemon which leaves for its replacement, or removes its files, is refused: the pid is alive and does not answer (`daemon/start.rs:172`). Nothing was disturbed; a second try is successful |
| `DaemonProcess_update` | `UpdateSparesSessions` | sessions are counted before the download and not again: those started since end with the daemon (`daemon/start.rs:599`) |
| `DaemonProcess_update` | `UpdateRestarts` | `bsk update` stops the daemon, replaces the binary and then asks for its own path, which is gone (`daemon/start.rs:816`): no daemon is left |
| `DaemonProcess_downgrade` | `NoDowngrade` | two updates replace the binary without a lock; with two releases within one download the slower puts the older back (`cli/update.rs:742`) |
| `LocalCalls_session` | `StartAnswersFirst` | the budget of `session.start` outlasts the wait for a browser by ten seconds, the start itself may take fifteen (`cli/session.rs:26`) |
| `LocalCalls_session` | `MissIsReal` | `session start --browser` looks for the browser and then whether there are any; one that connects in between is reported as not found (`daemon/browsers.rs:382`) |
| `LocalCalls_record` | `RecordingHasFile` | two recordings find no state file and both write it: the second overwrites the first, whose end removes it (`cli/record_state.rs:20`) |
| `LocalCalls_record` | `SuccessMeansStopped` | `record` ends with success although its session stayed: the list of tabs that could not be returned is not looked at (`cli/record.rs:151`) |

Three more are known from reading and have no configuration: handshakes out of order
(see `InOrder`), a queue spawned just after its session was purged
(`daemon/sessions.rs:503`), and a fallback window that is the Agent Window of a
session still starting (`ext/tools/tabs.ts:877`).

## 5. Proofs

`ToolDispatchProofs` proves, for any sets of calls and sessions and any number
of interrupts, from `ConstantsAssumption` alone:

* `TypeCorrect`: `Spec => []TypeOK`. `TypeOK` is not inductive: that an
  answered call has an outcome needs that a worker which is done has a result,
  and a handler's response exists when its slot is resolved. `TypeInv` adds this
  (`VerdictInv`).
* `OneCommandPerSession`: `Spec => []BusyLock`. Relative to the types `BusyLock`
  is inductive, because its second half ties the flag to a holder: an enqueue
  needs a free flag, hence no holder, and only the holder's `ClearBusy` resets it.
* `CancelFirst`: `Spec => []QueuedCancelNeverRuns`. The strengthening `CancelInv`
  says that a request on the wire or in the extension was sent, and that a call
  whose cancel was answered "queued" is cancelled and not sent; `Promote` reads
  the flag in the step that sends, which is what the critical section of
  `promote_to_forwarded_with` is for.
* `Implementation`: `Spec => ImplementsCommands`, the refinement of
  `SessionCommands`. Under `TypeInv`, `BusyLock`, `CancelInv` and `ProgressInv` (a
  handler that waits has put a job on the queue, one that does not wait yet has
  none), every action is one step of the abstract specification or leaves its
  variables alone; the lemmas go by handlers, workers, and the round trip of a call.
* `StopBarrier`: `Spec => NoSendAfterStop`. `StopInv`: from the moment a stop has
  its job on the queue, the queue of its session does not accept, so that the lock
  it took goes to nobody else; one stop of a session is under way at a time; and
  the queue is absent once the stop was answered. That the job of a stop is done
  before it removes the row makes it the last holder.
* `CancelFollowsRequest`: `Spec => []CancelBehindRequest`, and `CancelNeverDropped`:
  `Spec => []CancelOnItsWay`, both from `WireInv`. It adds that a request is written
  once and is unseen while it is on the wire (`OnceInv`), and that what was sent is
  on the wire or has arrived unless the socket is gone (`RequestInv`). Who writes a
  cancel has read "sent" first, so the request is before it.
* `AnswersHaveCauses`: `Spec => []AnswerHasCause`. `CauseInv` follows the cause from
  the answer back: outcome, result, reply of the extension, reason, and the RPC or
  the click behind it.

`SessionLifecycleProofs` proves, for any starts and stops and any number of
connections, from `LifecycleAssumption`:

* `LifecycleTypes`: `Spec => []TypeOK`.
* `LateCleanupSparesRegistration`: `Spec => RegistrationGoesWithItsSocket`. No
  strengthening is needed, the generation check of `Unregister` is the argument.
* `ListedSessionsHaveQueues` and `FailedStartsLeaveNothing`, both from
  `ListingInv`. Every teardown removes a row and drops the queue in two steps, so
  the promise about queues is not inductive by itself: one has to know that a
  session some task has removed (`doomed`, or a stop that is "dropping") is no
  row and can never be one again, because its start is past its reservation
  (`RemovedInv`), and that every row has such a start (`ReservedInv`).
* `RowsAreNeverOlder`: `Spec => []RowsAreNotOlder`, without any condition: no listed
  session belongs to a connection before the registered one. And
  `RowsFollowTheConnection`: `Spec /\ [][NoneOvertaken]_vars =>
  []RowsAreOfTheConnection`: a row of another connection than the registered one
  takes a handshake that is overtaken by a later one (`NoneOvertaken` excludes just
  that step), and nothing else brings it about, no late answer and no teardown. The
  argument goes through the wire. Nothing of a start is in the extension
  before its request is out (`FreshInv`); an answer can only be sent on the
  newest connection (`ConnInv`); so a row whose start has contact with the
  extension (`Contact`: an answer under way, in the slot, or acted on) is from
  before every connection the daemon is still to meet (`RowInv`), and each of
  those purges all rows when it is met. That the registered connection is the newest
  the daemon has met (`NewestInv`) is what the condition is for, and the one place
  where it enters.
* `StoppedIsStopped`: `Spec => []StopMeansStopped`, with or without `InOrder`. What
  could undo a stop is a start that is not through yet: the extension answers
  "not_found" while the window of the session is still opening. `SettleInv` excludes
  it for whatever can be stopped: a request is on the wires once (`OnceInv`), whoever
  was answered is not asked again and opens no window any more, and only a started
  session has a queue to put a stop on. `StopInv` follows the stop from there: the
  frame, the verdict that says the session is gone, the row, the queue.

`TabBorrowingProofs` proves, for any sessions, tabs, windows and requests, with
and without overlapping requests and disconnects, from `BorrowingAssumption`:

* `BorrowingTypes`: `Spec => []TypeOK`. `TypeInv` adds that a job at work
  knows its session and one that moves a tab knows the window (`GoodJobs`).
* `OneBorrower`: `Spec => []ExclusiveBorrower`. What is missing from the property
  is what a reservation is for: while a tab is reserved, only the session that
  reserved it can have it (`ReservedForOne`), and a session that has not begun
  has borrowed nothing (`EmptyUntilLive`). A commit looks at the reservation
  again, so it cannot make a second borrower even when an overlapping borrow of
  the same session has released it. All other steps are `Gentle`: they borrow
  nothing, reserve nothing and revive no session.
* `LoansAreKept`: `Spec => ImplementsLoans`, the refinement of `TabLoans`, with
  `OneBorrowerInv` and two invariants more. What a session has reserved it does not
  have yet (`FreshReservation`), so a commit lends a tab that nobody has; and who
  works for a session began when it was there (`Started`), so a stop that forgets
  its session ends it, or finds that the user has closed its window before. There is one lemma
  per action of the promise (`MapPromise` to `MapBegin`) and one per kind of step
  (`BorrowMaps` to `ForgetMaps`). Hidden are a second borrow of a session on a tab
  it has reserved already, a release that finds nothing, and every step of Chrome.
* `NoLostReservation`: `Spec => []ReservationHasHandler`, inductive with the
  types: a handler that ends releases what its session holds on the tab.
* `CancelledIsUndone`: `Spec => CancelledBorrowGivesBack`. From the window it looks
  at until its end, a borrow remembers one that is not the Agent Window (`HomeInv`),
  and only a rollback refuses a borrow whose tab has moved.
* `StopsSpareBorrowedTabs`: `Spec /\ []StopAlone => StopKeepsBorrowedTabs`, with and
  without overlapping requests. What a stop can miss is a borrow of its own session
  that moves its tab while the stop works, one that the daemon has timed out;
  `StopAlone` says that none is past the user's consent by then, and lets borrows
  that are still looked at or wait for the user overlap with the stop. Unless it has
  failed every borrowed tab is still on the list it copied at its beginning
  (`OnList`); one that closes the window has an empty list. `StopsAreAlone`: without `Overlap`, `Spec => []StopAlone`.
* `CleanupAloneSparesTabs`: `Spec /\ []CleanupAlone => CleanupKeepsBorrowedTabs`.
  `borrow_cleanup` shows that the cleanup closes the window on a tab that is being
  borrowed; this is the only way: while no borrow is at work for the session it
  stops, the cleanup keeps its list as a stop does (`CleanupInv`).

`ConnectionProofs` proves, for any sockets and faults, from
`ConnectionAssumption`, `OneSocket`, `HandshakeOfSocket` and `OffStaysOff`. The
three need each other, so `LinkInv` has all of them: that a bounce closes the
socket that is in use needs `NoStaleHandshake`, and that needs that the transport's
socket is the only one in use and in use as long as the transport has it (`Sole`).
`Quiet` adds that without the controller, and while the switch is off, there is no
handshake, and that one which is switched off is not retried.

`CdpDriverProofs` proves, for any calls, sessions and buffers, from
`CdpAssumption`: `CdpTypes`; `SlateIsClean` and `WaitersAreSettled`, both from
`AttachInv`; and `NothingLostSilently`. `CleanSlate` is about the end of an attach,
the invariant about its course: whoever holds the debugger is in the middle of an
attach or the tab is cached (`Known`), and whoever waits does so for a call that
is attaching and will settle (`Promises`). `NoSilentLoss` is about who pages through
one log: what a page does not show lies before the oldest entry or behind its limit,
and both set the mark (`PageIsWhole`). It says nothing of a cursor that a detach has
left behind; `CursorsOfTheLogAreFollowed`, `Spec /\ [][NoOldCursor]_vars =>
CursorsAreFollowed`, says that such a cursor is the only cause of what
`CdpDriver_cursor` shows.

`AgentWindowProofs` proves, for any tabs and steps on their way, from
`WindowAssumption` and `RecordingAssumption`:
`RecordingTypes`; `AwaitsCanEnd`; `StopsWaitForSteps`; `FlushesAreConfirmed`.
`RecordingInv` adds that steps are owed only to a `STOP` that waits (`Owing`), and
how a recording, its end and who awaits it are tied (`Course`): who has an entry has
one that has not settled, and whoever awaits has an entry. While there is one, only
a page that is captured has other steps on their way; a page that a late `START` has
armed again after its `STOP` is one of those, and its steps are of after the end.
`Confirming` follows the confirmation: while the tabs are being stopped, the page of
`recording.tabId` is one that is still to be asked or awaited, or `flushed` holds, so
that the step that hands the trace out finds it set. That the trace has every step
is not claimed, and does not hold: `Recording_trace`.

For `request_help` it proves, for any tabs, requests, messages and loops, from
`WindowAssumption` and `HelpAssumption`: `HelpTypes`; `OnlyTheUserContinues`, which
is `HelpSpec => []ContinuedByUser`; `OverlaysAreReached`, which is `HelpSpec =>
[]ShownIsReached`. All three come from `HelpInv`. `ContinuedByUser` looks at the
result, `Meant` at the message before it: a `HELP_FINISH` that says "continued" is
one that the user has clicked, as long as its request is not history, and a request
that is active is not (`Ending`). `ShownIsReached` is about active requests; before
that no page, no loop and no query knows the request (`Unheard`), and a page that
acks or asks while the request is active finds a help object that still remembers.
`OnlyTheUserCancels` is conditional: `HelpSpec /\ [][NothingReplaced]_helpVars =>
[]CancelledByUser`. The replacement that `HumanLoop_cancelled` shows is the only
cause: without it, a page reports a cancel only of a request that its user has
cancelled (`CancelInv`).

`DaemonProcessProofs` proves, for any terminals, processes, releases and faults,
from `DaemonAssumption`: `ProcessTypes`; `ServedSocket` and `SoundDiscovery`, from
`LockInv`: the lock has a holder exactly while a process is between `Lock` and
`Unlock`, the socket path leads to the holder from `Bind` to `RemoveSocket`, and a
pid in `daemon.json` that is alive is the holder's. Files of crashed processes may
be anything else: the pid is dead. `NobodyLockedOut` proves `NoLockout` from
`LockoutInv`, which is about the time before the first disturbance: whoever holds
the lock serves, or will, or is leaving for a replacement that waits for its end
(`Succession`, `HolderServes`), and so a terminal that waits for a daemon has one
that can be found or is on its way (`OnTheWay`). It is about commands that start a
daemon; a restart whose stop is refused has not come to that (`RestartsAreHeard`,
which `DaemonProcess_refused` refutes). `ServingIsFound` is the
condition under which `AlwaysDiscoverable` holds, which `DaemonProcess_found` refutes:
as long as a command removes only files of processes that are dead by then
(`ClearsDead`), a daemon that serves is the one in `daemon.json`. Another that
publishes itself or leaves would need the lock.

`LocalCallsProofs` proves, for any terminals, menus, instants, timeouts and
durations, from `TimesAssumption` and `LocalAssumption`: `BudgetsOutlastDaemon`,
`WakeupsArrive` and `RecordingsCleanUp`. The first has two halves: every command's calls last longer
than the daemon's patience (`CommandsSound`, by the commands one after the other;
for `stop --all` up to `MaxStopped` sessions), and a handler at work is due within
that patience (`Row`, per terminal), at which the clock stops. `session.start` is
excepted, see section 4. The second is inductive with `WakeInv`: the flag is set
before the waiters are notified, and looked at after the waiter is made. The
third is `Spec => []RecordCleansUp`, if the menus start sessions only in recordings
(`OnlyRecordings`: `session start` is meant to leave its session). `CleanInv` says
of a time before any disturbance (`Quiet`) that every session has a recording which
will stop it (`Owns`): it was told of the session and has its last call to come,
which `After` skips in no case, or that call has removed the session (`Stopped`).
The state file always has a writer that is not at its end (`FileInv`), disturbed or
not: a terminal removes it even if another has overwritten it.

Each proof has a lemma for the initial state, one step per action or per group
of actions that touch the same variables, and a temporal conclusion. The lemmas
named `...Moves` say what any step may do to one variable; the invariants are
proved from those.

Every invariant and action property of the passing runs is a theorem, two of them
under the condition that section 2 and section 4 name: `RowsAreOfTheConnection` when
no handshake is overtaken and `StopKeepsBorrowedTabs` when no borrow outlives its
timeout into a stop. `FailedStartLeavesNothing`, `RowsAreNotOlder` and
`ExclusiveBorrower` are proved and have no run: the first is local to one start, the
other two follow from what the runs check (`RowsAreOfTheConnection`,
`ImplementsLoans`) on their instances. Only
model-checked are the liveness properties (`SessionNeverWedged`, `CancelReachesExtension`, `StaleSessionGoes`,
`ReservationEnds`, `Reconnects`, `HelpIsAnswered`, `UpdateServes`,
`CommandEnds`): liveness is out of the prover's reach together with `ENABLED`. What
the theorems assume of the world is what the models say of it: the named
assumptions are about constants only.

## 6. Not modelled

* What a tool does to a page: the tools are handlers that run, attach, may be
  aborted and return. The DOM code of overlays and of the capture.
* Dialogs, downloads and element references of the driver.
* `tab_close`, `tab_create`, `tab_select`; the candidates of a confirmation; the
  hover latch of the dispatcher; `stopAll` and the storage flag of live sessions.
* Several browsers: the choice by id or label, checks of origin and version.
* Staging of an update on Windows, `current_exe` elsewhere than on Linux, the
  cache of the update check and its hint.
* Rendering, `doctor`, `install-skill`, `logs`, the packages (page outline,
  translations, UI): I/O or pure functions of their input, without state that
  other parts share.

`PROJECT.json` lists every component with its status.

## 7. Plan

What is left, in this order.

1. The confirmation with its candidates, notification and overlay (settled once;
   one that was aborted or timed out moves nothing), `tab_close` of a borrowed
   tab, a run with two sessions for the fallback window of a starting session.
2. An abstract specification that `HumanLoop` implements: one request, one answer.
3. Proofs about what items 1 and 5 add. For the other statements of section 4 that
   do not hold, the condition under which they do, as `CleanupAlone` (cleanup),
   `NothingReplaced` (cancels), `ClearsDead` (discovery) and `NoOldCursor` (cursors)
   are for four of them.
4. Pure algorithms against reference definitions: browser selection, handshake
   compatibility as both sides compute it, version comparison, reduction of a
   trace.
5. Queries of a reloaded page and late answers in larger numbers (`MaxArms`,
   `MaxFinishes`), two sessions in `ToolDispatch` for `cancel_session`.
