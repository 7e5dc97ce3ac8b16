---------------------------- MODULE LocalCallsProofs ----------------------------
(***************************************************************************)
(* The budgets of the commands outlast the daemon's patience, for every    *)
(* command, timeout and menu, and whatever the terminals and the daemon do *)
(* in between: DaemonAnswersFirst.                                         *)
(*                                                                         *)
(* CommandsSound compares the two sides of every call. The invariant says,   *)
(* for each terminal, that the read's limit is the budget of the call that *)
(* is out, and that a handler at work has answered before the patience of  *)
(* that call is over.                                                      *)
(*                                                                         *)
(* The abort token of wait-ms loses no wake-up, and recordings leave       *)
(* nothing behind: every session has a recording that will stop it, until  *)
(* something comes between.                                                *)
(***************************************************************************)
EXTENDS LocalCalls, TLAPS

-----------------------------------------------------------------------------
\* The commands

Kinds == {"tool", "record_stop", "wait", "browsers", "list", "session_start", "session_stop"}

\* The daemon answers the call before its budget is used up.
Lasts(call) ==
  /\ call.kind \in Kinds /\ call.budget \in Nat /\ Patience(call) \in Nat
  /\ call.kind # "session_start" => Patience(call) < call.budget
  /\ call.kind = "session_start" => ConnectWait + 1 <= Patience(call)

\* All calls of the command do, and a command that is not refused has one.
Sound(m) ==
  /\ Len(m.calls) \in Nat /\ DOMAIN m.calls = 1 .. Len(m.calls)
  /\ \A i \in DOMAIN m.calls : Lasts(m.calls[i])
  /\ m.refused = "no" => Len(m.calls) >= 1
  /\ m.file = "start" => Len(m.calls) = 4

LEMMA LesserNat == ASSUME NEW m \in Nat, NEW n \in Nat PROVE LesserOf(m, n) \in Nat /\ LesserOf(m, n) <= m /\ LesserOf(m, n) <= n
BY DEF LesserOf

\* A timeout of the command line has 15 seconds on top, the daemon takes one.
LEMMA TimedLasts == ASSUME NEW t \in Nat \ {0} PROVE Lasts(Timed(t))
BY DEF Timed, Call, Lasts, Kinds, Patience, Limit, Slack

LEMMA PlainLasts == Lasts(Plain) /\ Lasts(RecordStopCall)
BY DEF Plain, RecordStopCall, Call, Lasts, Kinds, Patience, Limit, NoTimeout, DefaultTool, ToolIpc, CancelCleanup

LEMMA WaitLasts == ASSUME NEW t \in Nat PROVE Lasts(Call("wait", t, t + Slack, TRUE))
BY DEF Call, Lasts, Kinds, Patience, Slack, MaxWait

LEMMA BrowsersLasts == ASSUME NEW wait \in Nat, NEW default \in Nat, default > 1 PROVE Lasts(BrowsersCall(wait, default))
<1> DEFINE clamped == LesserOf(wait, MaxBrowserWait)
<1>1. clamped \in Nat /\ LesserOf(clamped, MaxBrowserWait) = clamped
  BY DEF LesserOf, MaxBrowserWait
<1> QED BY <1>1 DEF BrowsersCall, Call, Lasts, Kinds, Patience, ConnectSlack

LEMMA SessionCallsLast ==
  /\ Lasts(SessionStartCall) /\ Lasts(Call("list", 0, ListIpc, TRUE))
  /\ \A n \in 0 .. MaxStopped : Lasts(SessionStopCall(n))
BY DEF SessionStartCall, SessionStopCall, Call, Lasts, Kinds, Patience, SessionStartIpc, ListIpc, MaxStopped,
       SessionStopIpc, ConnectWait, StartTimeout, StopTimeout

\* A command of n calls.
LEMMA SoundOf ==
  ASSUME NEW m, NEW s, NEW n \in 1 .. 4, m.calls = s, Len(s) = n, DOMAIN s = 1 .. n,
         \A i \in 1 .. n : Lasts(s[i]), n = 4 \/ m.file # "start"
  PROVE  Sound(m)
<1>1. Len(m.calls) \in Nat /\ Len(m.calls) >= 1
  BY SMT
<1>2. m.file = "start" => Len(m.calls) = 4
  OBVIOUS
<1> QED BY <1>1, <1>2 DEF Sound

LEMMA OneSound == ASSUME NEW r, NEW call, Lasts(call) PROVE Sound(Command(r, <<call>>, "none"))
<1> DEFINE m == Command(r, <<call>>, "none")
           s == <<call>>
<1>1. m.calls = s /\ m.file # "start"
  BY DEF Command
<1>2. Len(s) = 1 /\ DOMAIN s = 1 .. 1 /\ (\A i \in 1 .. 1 : s[i] = call) /\ 1 \in 1 .. 4
  OBVIOUS
<1> HIDE DEF m, s
<1>3. Sound(m)
  BY <1>1, <1>2, SoundOf
<1> QED BY <1>3 DEF m

LEMMA UnlessSound == ASSUME NEW refused, NEW call, Lasts(call) PROVE Sound(Unless(refused, call)) /\ Sound(One(call))
BY OneSound DEF Unless, One

LEMMA RecordSound == Sound(RecordStart) /\ Sound(RecordStop)
<1>1. Lasts(Call("tool", Day, Day + Slack, TRUE))
  <2>1. Day \in Nat \ {0}
    BY SMT DEF Day
  <2> QED BY <2>1, TimedLasts DEF Timed
<1>2. Lasts(SessionStopCall(1))
  BY SessionCallsLast DEF MaxStopped
<1>3. Sound(RecordStart)
  <2> DEFINE s == <<SessionStartCall, Plain, Call("tool", Day, Day + Slack, TRUE), SessionStopCall(1)>>
  <2>1. Len(s) = 4 /\ DOMAIN s = 1 .. 4 /\ s[1] = SessionStartCall /\ s[2] = Plain
          /\ s[3] = Call("tool", Day, Day + Slack, TRUE) /\ s[4] = SessionStopCall(1)
    OBVIOUS
  <2> HIDE DEF s
  <2>2. \A i \in 1 .. 4 : i = 1 \/ i = 2 \/ i = 3 \/ i = 4
    OBVIOUS
  <2>3. \A i \in 1 .. 4 : Lasts(s[i])
    BY <2>1, <2>2, <1>1, <1>2, PlainLasts, SessionCallsLast
  <2>4. RecordStart.calls = s
    BY DEF RecordStart, Command, s
  <2> QED BY <2>1, <2>3, <2>4, SoundOf
<1>4. Sound(RecordStop)
  <2> DEFINE s == <<RecordStopCall, SessionStopCall(1)>>
  <2>1. Len(s) = 2 /\ DOMAIN s = 1 .. 2 /\ s[1] = RecordStopCall /\ s[2] = SessionStopCall(1)
    OBVIOUS
  <2> HIDE DEF s
  <2>2. \A i \in 1 .. 2 : Lasts(s[i])
    BY <2>1, <1>2, PlainLasts
  <2>3. RecordStop.calls = s /\ RecordStop.file # "start"
    BY DEF RecordStop, Command, s
  <2> QED BY <2>1, <2>2, <2>3, SoundOf
<1> QED BY <1>3, <1>4

LEMMA HelpSound == ASSUME NEW off \in BOOLEAN, NEW parse \in BOOLEAN, NEW t \in Nat \ {0} PROVE Sound(RequestHelp(off, parse, t))
<1>1. CASE off
  <2> DEFINE m == Command("early", <<>>, "none")
  <2>1. m.calls = <<>> /\ m.refused = "early" /\ m.file = "none"
    BY DEF Command
  <2>2. Len(m.calls) = 0 /\ DOMAIN m.calls = {}
    BY <2>1
  <2>3. Sound(m)
    BY <2>1, <2>2 DEF Sound
  <2> QED BY <1>1, <2>3 DEF RequestHelp
<1>2. CASE ~off
  BY <1>2, UnlessSound, TimedLasts DEF RequestHelp
<1> QED BY <1>1, <1>2

\* Every command is sound: 35 seconds are more than the daemon's 31 and 32, and so on,
\* for every timeout that parse_timeout_ms() lets through.
LEMMA CommandsSound == ASSUME NEW m \in Commands PROVE Sound(m)
<1>1. \A t \in ValidTimeouts : t \in Nat /\ t # 0
  <2>1. MaxTimeout \in Nat
    BY SMT DEF MaxTimeout
  <2> QED BY <2>1 DEF ValidTimeouts
<1>2. (\A t \in Timeouts : t \in Nat \ {0} /\ Lasts(Timed(t))) /\ \A d \in Durations : d \in Nat
  BY <1>1, TimesAssumption, TimedLasts DEF ValidDurations
<1>3. \A t \in Timeouts :
        /\ Sound(NavigateBack(t)) /\ Sound(NavigateForward(t)) /\ Sound(Reload(t))
        /\ Sound(WaitForNavigation(t)) /\ Sound(Evaluate(t))
  BY <1>2, UnlessSound DEF NavigateBack, NavigateForward, Reload, WaitForNavigation, Evaluate
<1>4. /\ \A target \in Targets, mods \in BOOLEAN, t \in Timeouts : Sound(Click(target, mods, t)) /\ Sound(Hover(target, mods, t))
      /\ \A target \in Targets, t \in Timeouts : Sound(Fill(target, t)) /\ Sound(SelectOption(target, t))
      /\ \A mods \in BOOLEAN, t \in Timeouts : Sound(Press(mods, t))
  BY <1>2, UnlessSound DEF Click, Hover, Fill, Press, SelectOption
<1>5. \A url \in BOOLEAN, session \in BOOLEAN, t \in Timeouts :
        Sound(Navigate(url, session, t)) /\ Sound(RequestHelp(url, session, t))
  BY <1>1, <1>2, UnlessSound, HelpSound DEF Navigate
<1>6. \A x \in {TabCommand, TabList, WindowResize, ReadPage, ReadLog, Download, Screenshot, GetHtml} : Sound(x)
  BY PlainLasts, UnlessSound DEF TabCommand, TabList, WindowResize, ReadPage, ReadLog, Download, Screenshot, GetHtml
<1>7. \A a \in EmulateArgs : Sound(Emulate(a))
  BY PlainLasts, OneSound DEF Emulate
<1>8. \A d \in Durations : Sound(WaitMs(d)) /\ Sound(Status(d)) /\ Sound(Browsers(d))
  <2> SUFFICES ASSUME NEW d \in Durations PROVE Sound(WaitMs(d)) /\ Sound(Status(d)) /\ Sound(Browsers(d))
    OBVIOUS
  <2>1. Lasts(BrowsersCall(d, StatusIpc)) /\ Lasts(BrowsersCall(d, BrowsersIpc))
    BY <1>2, BrowsersLasts DEF StatusIpc, BrowsersIpc
  <2>2. Lasts(Call("wait", d, d + Slack, TRUE))
    BY <1>2, WaitLasts
  <2> QED BY <2>1, <2>2, UnlessSound DEF WaitMs, Status, Browsers
<1>9. /\ \A w \in BOOLEAN, h \in BOOLEAN : Sound(SessionStart(w, h))
      /\ \A named \in BOOLEAN : Sound(SessionStop(named))
      /\ \A n \in 0 .. MaxStopped : Sound(SessionStopAll(n))
      /\ Sound(SessionList)
  <2>1. 1 \in 0 .. MaxStopped
    BY DEF MaxStopped
  <2> QED BY <2>1, SessionCallsLast, UnlessSound DEF SessionStart, SessionStop, SessionStopAll, SessionList
<1>10. CASE m \in InteractionCommands
  BY <1>4, <1>10 DEF InteractionCommands
<1>11. CASE m \in NavigationCommands
  BY <1>3, <1>5, <1>11 DEF NavigationCommands
<1>12. CASE m \in PageCommands
  BY <1>3, <1>5, <1>6, <1>7, <1>12 DEF PageCommands
<1>13. CASE m \in LocalCommands
  BY <1>8, <1>13 DEF LocalCommands
<1>14. CASE m \in SessionsCommands
  BY <1>9, RecordSound, <1>14 DEF SessionsCommands
<1> QED BY <1>10, <1>11, <1>12, <1>13, <1>14 DEF Commands

-----------------------------------------------------------------------------
\* The invariant

Waiting == {"waiting", "cancelling", "tripping", "grace"}

Types ==
  /\ at \in [Clients -> Waiting \cup {"idle", "ready", "writing"}]
  /\ cmd \in [Clients -> Nat] /\ step \in [Clients -> Nat]
  /\ clock \in [Clients -> Nat] /\ until \in [Clients -> Nat] /\ due \in [Clients -> Nat]
  /\ job \in [Clients -> Busy \cup {"none", "answered"}]
  /\ daemon \in {"up", "hung", "down"}

\* A terminal with a call out waits as long as the call's budget says, and the handler of
\* the call keeps the limit of its kind. Only a daemon that is up keeps its time.
Row(c) ==
  /\ at[c] = "idle" => step[c] = 1
  /\ at[c] # "idle" => cmd[c] \in DOMAIN Menu[c] /\ step[c] \in 1 .. LastStep(c)
  /\ at[c] \notin Waiting => clock[c] = 0 /\ due[c] = 0 /\ job[c] = "none"
  /\ at[c] \in Waiting => job[c] \in Busy \cup {"answered"}
  /\ at[c] = "waiting" => until[c] = TheCall(c).budget
  /\ job[c] \in Busy /\ daemon = "up" => clock[c] <= due[c]
  /\ daemon = "down" => job[c] \notin Busy
  /\ job[c] \in Busy /\ TheCall(c).kind # "session_start" => due[c] <= Patience(TheCall(c))
  /\ job[c] \in {"selecting", "missed", "opening"} => TheCall(c).kind = "session_start"
  /\ job[c] = "sent" => due[c] = 0

Inv == Types /\ \A c \in Clients : Row(c)

\* Nothing has happened to d.
Same(d) ==
  /\ at'[d] = at[d] /\ cmd'[d] = cmd[d] /\ step'[d] = step[d] /\ clock'[d] = clock[d]
  /\ until'[d] = until[d] /\ job'[d] = job[d] /\ due'[d] = due[d]

\* A step of one terminal leaves the others alone; it may start the daemon.
LEMMA OneMoves ==
  ASSUME Inv, NEW c \in Clients, Types', Row(c)', \A d \in Clients \ {c} : Same(d),
         daemon' = daemon \/ (daemon = "down" /\ daemon' = "up")
  PROVE  Inv'
<1> SUFFICES ASSUME NEW d \in Clients, d # c PROVE Row(d)'
  BY DEF Inv
<1>1. Same(d) /\ Row(d)
  BY DEF Inv
<1> QED BY <1>1 DEF Row, Same, TheCall, TheCommand, LastStep

LEMMA NobodyMoves == ASSUME Inv, \A d \in Clients : Same(d), Types', daemon' \in {daemon, "hung"}, daemon # "down" \/ daemon' = daemon PROVE Inv'
<1> SUFFICES ASSUME NEW d \in Clients PROVE Row(d)'
  BY DEF Inv
<1>1. Same(d) /\ Row(d)
  BY DEF Inv
<1> QED BY <1>1 DEF Row, Same, TheCall, TheCommand, LastStep

\* The command and the call of a terminal that is not idle.
LEMMA CallSound ==
  ASSUME Inv, NEW c \in Clients, at[c] # "idle"
  PROVE  /\ Sound(TheCommand(c)) /\ Lasts(TheCall(c)) /\ cmd[c] \in DOMAIN Menu[c]
         /\ LastStep(c) \in Nat \ {0} /\ step[c] \in 1 .. LastStep(c)
<1>1. cmd[c] \in DOMAIN Menu[c] /\ step[c] \in 1 .. LastStep(c)
  BY DEF Inv, Row
<1>2. Menu[c] \in Seq(Commands)
  BY LocalAssumption
<1>3. TheCommand(c) \in Commands
  BY <1>1, <1>2 DEF TheCommand
<1>4. Sound(TheCommand(c))
  BY <1>3, CommandsSound
<1>5. LastStep(c) \in Nat /\ LastStep(c) # 0
  BY <1>1, <1>4 DEF Sound, LastStep
<1>6. Lasts(TheCall(c))
  BY <1>1, <1>4 DEF Sound, TheCall, LastStep
<1> QED BY <1>1, <1>4, <1>5, <1>6

LEMMA AfterBound ==
  ASSUME Inv, NEW c \in Clients, at[c] # "idle", NEW code
  PROVE  After(c, code) \in 1 .. (LastStep(c) + 1) /\ LastStep(c) + 1 \in 1 .. (LastStep(c) + 1)
<1>1. Sound(TheCommand(c)) /\ LastStep(c) \in Nat \ {0} /\ step[c] \in 1 .. LastStep(c)
  BY CallSound
<1>2. TheCommand(c).file = "start" => LastStep(c) = 4
  BY <1>1 DEF Sound, LastStep
<1> QED BY <1>1, <1>2 DEF After

\* Goes: the next call, or the end of the command.
LEMMA GoesKeeps ==
  ASSUME Inv, NEW c \in Clients, at[c] # "idle", NEW code, NEW to \in 1 .. (LastStep(c) + 1),
         Goes(c, code, to), daemon' = daemon
  PROVE  Inv'
<1>1. LastStep(c) \in Nat \ {0} /\ cmd[c] \in DOMAIN Menu[c] /\ DOMAIN Menu[c] \subseteq Nat
  BY CallSound, LocalAssumption
<1>2. Types'
  BY <1>1 DEF Inv, Types, Goes, Waiting
<1>3. \A d \in Clients \ {c} : Same(d)
  BY DEF Inv, Types, Goes, Same
<1>4. /\ clock'[c] = 0 /\ due'[c] = 0 /\ job'[c] = "none" /\ at'[c] \in {"idle", "ready", "writing"}
      /\ at'[c] = "idle" => step'[c] = 1
      /\ at'[c] # "idle" => step'[c] = to /\ cmd'[c] = cmd[c] /\ to <= LastStep(c)
  BY <1>1 DEF Inv, Types, Goes
<1>5. Row(c)'
  BY <1>1, <1>4 DEF Row, Waiting, Busy, Registered, Tracked, LastStep, TheCommand
<1> QED BY <1>2, <1>3, <1>5, OneMoves

\* Answers: the handler is at its end.
LEMMA AnswersKeeps ==
  ASSUME Inv, NEW c \in Clients, job[c] \in Busy, NEW code, Answers(c, code),
         UNCHANGED <<at, cmd, step, timing, daemon>>
  PROVE  Inv'
<1>1. Types'
  BY DEF Inv, Types, Answers, timing
<1>2. \A d \in Clients \ {c} : Same(d)
  BY DEF Inv, Types, Answers, Same, timing
<1>3. job'[c] = "answered" /\ at[c] \in Waiting
  BY DEF Inv, Types, Row, Answers, Busy, Registered, Tracked
<1>4. Row(c)'
  BY <1>3 DEF Inv, Row, Answers, Waiting, Busy, Registered, Tracked, LastStep, TheCommand, TheCall, timing
<1> QED BY <1>1, <1>2, <1>4, OneMoves

\* Waits: the handler's next wait.
LEMMA WaitsKeeps ==
  ASSUME Inv, NEW c \in Clients, job[c] \in Busy, NEW where \in Busy \ {"sent"}, NEW deadline \in Nat, Waits(c, where, deadline),
         clock[c] <= deadline, TheCall(c).kind # "session_start" => deadline <= Patience(TheCall(c)),
         where \in {"selecting", "missed", "opening"} => TheCall(c).kind = "session_start",
         at' \in [Clients -> Waiting \cup {"idle", "ready", "writing"}], at'[c] \in Waiting,
         \A d \in Clients \ {c} : at'[d] = at[d] /\ until'[d] = until[d],
         at'[c] = "waiting" => at[c] = "waiting" /\ until'[c] = until[c],
         until' \in [Clients -> Nat], UNCHANGED <<cmd, step, clock>>, daemon = "up", daemon' = "up"
  PROVE  Inv'
<1>1. Types'
  BY DEF Inv, Types, Waits
<1>2. \A d \in Clients \ {c} : Same(d)
  BY DEF Inv, Types, Waits, Same
<1>3. job'[c] = where /\ due'[c] = deadline /\ at[c] \in Waiting
  BY DEF Inv, Types, Row, Waits, Busy, Registered, Tracked
<1>4. Row(c)'
  BY <1>3 DEF Inv, Row, Waiting, Busy, Registered, Tracked, LastStep, TheCommand, TheCall
<1> QED BY <1>1, <1>2, <1>4, OneMoves

-----------------------------------------------------------------------------
\* The steps

LEMMA InitInv == Init => Inv
<1> SUFFICES ASSUME Init PROVE Inv
  OBVIOUS
<1>1. Types
  BY DEF Init, Types, All
<1>2. ASSUME NEW c \in Clients PROVE Row(c)
  BY DEF Init, Row, All, Waiting, Busy, Registered, Tracked
<1> QED BY <1>1, <1>2 DEF Inv

\* A new command: it is ready for its first call.
LEMMA RunKeeps == ASSUME Inv, NEW c \in Clients, NEW n \in DOMAIN Menu[c], Run(c, n) PROVE Inv'
<1> DEFINE m == Menu[c][n]
<1> USE DEF timing, handler
<1>1. CASE m.refused # "no" \/ (m.file = "start" /\ file # None) \/ (m.file = "stop" /\ file = None) \/ daemon = "hung"
  <2>1. UNCHANGED <<at, cmd, step, timing, handler, daemon>>
    BY <1>1 DEF Run, client
  <2>2. Types'
    BY <2>1 DEF Inv, Types
  <2>3. \A d \in Clients : Same(d)
    BY <2>1 DEF Same
  <2> QED BY <2>1, <2>2, <2>3, NobodyMoves
<1>2. CASE ~(m.refused # "no" \/ (m.file = "start" /\ file # None) \/ (m.file = "stop" /\ file = None) \/ daemon = "hung")
  <2>1. /\ at[c] = "idle" /\ at' = [at EXCEPT ![c] = "ready"] /\ cmd' = [cmd EXCEPT ![c] = n] /\ daemon' = "up"
        /\ UNCHANGED <<step, timing, handler>> /\ daemon # "hung" /\ m.refused = "no"
    BY <1>2 DEF Run
  <2>2. Menu[c] \in Seq(Commands) /\ DOMAIN Menu[c] \subseteq Nat
    BY LocalAssumption
  <2>3. Sound(m)
    BY <2>2, CommandsSound
  <2>4. Types'
    BY <2>1, <2>2 DEF Inv, Types
  <2>5. \A d \in Clients \ {c} : Same(d)
    BY <2>1 DEF Inv, Types, Same
  <2>6. cmd'[c] = n /\ step'[c] = 1 /\ at'[c] = "ready" /\ Len(m.calls) \in Nat /\ Len(m.calls) >= 1
    BY <2>1, <2>3 DEF Inv, Types, Row, Sound
  <2>7. clock'[c] = 0 /\ due'[c] = 0 /\ job'[c] = "none"
    BY <2>1 DEF Inv, Row, Waiting
  <2>8. Row(c)'
    BY <2>6, <2>7 DEF Row, Waiting, Busy, Registered, Tracked, LastStep, TheCommand
  <2>9. daemon' = daemon \/ (daemon = "down" /\ daemon' = "up")
    BY <2>1 DEF Inv, Types
  <2> QED BY <2>4, <2>5, <2>8, <2>9, OneMoves
<1> QED BY <1>1, <1>2

LEMMA SendKeeps == ASSUME Inv, NEW c \in Clients, Send(c) PROVE Inv'
<1>1. at[c] = "ready" /\ daemon' = daemon
  BY DEF Send, world
<1>2. CASE daemon = "down"
  <2>1. After(c, "local") \in 1 .. (LastStep(c) + 1)
    BY <1>1, AfterBound
  <2> QED BY <1>1, <1>2, <2>1, GoesKeeps DEF Send
<1>3. CASE daemon # "down"
  <2>1. /\ at' = [at EXCEPT ![c] = "waiting"] /\ until' = [until EXCEPT ![c] = TheCall(c).budget]
        /\ job' = [job EXCEPT ![c] = "sent"] /\ UNCHANGED <<cmd, step, clock, due>>
    BY <1>3 DEF Send
  <2>2. Lasts(TheCall(c)) /\ cmd[c] \in DOMAIN Menu[c] /\ step[c] \in 1 .. LastStep(c)
    BY <1>1, CallSound
  <2>3. Types'
    BY <1>1, <2>1, <2>2 DEF Inv, Types, Waiting, Busy, Lasts
  <2>4. \A d \in Clients \ {c} : Same(d)
    BY <2>1 DEF Inv, Types, Same
  <2>5. clock[c] = 0 /\ due[c] = 0
    BY <1>1 DEF Inv, Row, Waiting
  <2>6. at'[c] = "waiting" /\ job'[c] = "sent" /\ until'[c] = TheCall(c).budget /\ TheCall(c)' = TheCall(c) /\ LastStep(c)' = LastStep(c)
    BY <2>1 DEF Inv, Types, TheCall, TheCommand, LastStep
  <2>7. 0 <= Patience(TheCall(c)) /\ Patience(TheCall(c))' = Patience(TheCall(c))
    BY <2>2, <2>6 DEF Lasts
  <2>8. Row(c)'
    BY <1>1, <1>3, <2>1, <2>2, <2>5, <2>6, <2>7 DEF Row, Waiting, Busy, Registered, Tracked
  <2> QED BY <1>1, <2>3, <2>4, <2>8, OneMoves
<1> QED BY <1>2, <1>3

LEMMA WriteStateKeeps == ASSUME Inv, NEW c \in Clients, WriteState(c) PROVE Inv'
<1> USE DEF timing, handler, world
<1>1. at[c] = "writing" /\ at' = [at EXCEPT ![c] = "ready"] /\ UNCHANGED <<cmd, step, timing, handler, daemon>>
  BY DEF WriteState
<1>2. Types'
  BY <1>1 DEF Inv, Types
<1>3. \A d \in Clients \ {c} : Same(d)
  BY <1>1 DEF Inv, Types, Same
<1>4. Row(c)'
  BY <1>1 DEF Inv, Types, Row, Waiting, Busy, Registered, Tracked, LastStep, TheCommand
<1> QED BY <1>1, <1>2, <1>3, <1>4, OneMoves

\* The ends of a call.
LEMMA EndsKeep ==
  ASSUME Inv, NEW c \in Clients, Result(c) \/ GiveUp(c) \/ GraceEnds(c)
  PROVE  Inv'
<1>1. at[c] # "idle" /\ daemon' = daemon
  BY DEF Result, GiveUp, GraceEnds, world
<1>2. \E code \in {reply[c], "local", "cancelled"} : Goes(c, code, After(c, code))
  BY DEF Result, GiveUp, GraceEnds
<1>3. PICK code \in {reply[c], "local", "cancelled"} : Goes(c, code, After(c, code))
  BY <1>2
<1>4. After(c, code) \in 1 .. (LastStep(c) + 1)
  BY <1>1, AfterBound
<1> QED BY <1>1, <1>3, <1>4, GoesKeeps

\* Ctrl-C and what follows: the handler goes on, the terminal waits anew.
LEMMA CancelKeeps ==
  ASSUME Inv, NEW c \in Clients, at[c] \in Waiting, NEW where \in Waiting \ {"waiting"}, NEW limit \in Nat,
         at' = [at EXCEPT ![c] = where], until' = [until EXCEPT ![c] = limit],
         UNCHANGED <<cmd, step, clock, due, job, daemon>>
  PROVE  Inv'
<1>1. Types'
  BY DEF Inv, Types, Waiting
<1>2. \A d \in Clients \ {c} : Same(d)
  BY DEF Inv, Types, Same
<1>3. at'[c] = where
  BY DEF Inv, Types
<1>4. Row(c)'
  BY <1>3 DEF Inv, Row, Waiting, LastStep, TheCommand, TheCall
<1> QED BY <1>1, <1>2, <1>4, OneMoves

LEMMA InterruptKeeps == ASSUME Inv, NEW c \in Clients, Interrupt(c) PROVE Inv'
<1>1. at[c] = "waiting" /\ daemon' = daemon /\ clock[c] \in Nat
  BY DEF Interrupt, Inv, Types
<1>2. CASE TheCall(c).listens
  <2>1. clock[c] + 2 * CancelFrame \in Nat
    BY <1>1 DEF CancelFrame
  <2> QED BY <1>1, <1>2, <2>1, CancelKeeps DEF Interrupt, Waiting, handler
<1>3. CASE ~TheCall(c).listens
  <2>1. LastStep(c) + 1 \in 1 .. (LastStep(c) + 1)
    BY <1>1, AfterBound
  <2> QED BY <1>1, <1>3, <2>1, GoesKeeps DEF Interrupt
<1> QED BY <1>2, <1>3

LEMMA GraceKeeps == ASSUME Inv, NEW c \in Clients, CancelGivesUp(c) \/ Notify(c) PROVE Inv'
<1>1. at[c] \in {"cancelling", "tripping"} /\ GraceBegins(c) /\ UNCHANGED <<cmd, step, clock, due, job, daemon>>
  BY DEF CancelGivesUp, Notify, handler, world
<1>2. clock[c] + CancelGrace \in Nat
  BY DEF Inv, Types, CancelGrace
<1> QED BY <1>1, <1>2, CancelKeeps DEF GraceBegins, Waiting

\* Two ways of a handler's step that leave its terminal alone.
LEMMA StillWaits ==
  ASSUME Inv, NEW c \in Clients, job[c] \in Busy, NEW where \in Busy \ {"sent"}, NEW deadline \in Nat, Waits(c, where, deadline),
         clock[c] <= deadline, TheCall(c).kind # "session_start" => deadline <= Patience(TheCall(c)),
         where \in {"selecting", "missed", "opening"} => TheCall(c).kind = "session_start",
         UNCHANGED <<at, cmd, step, timing, daemon>>, daemon = "up"
  PROVE  Inv'
<1>1. at' \in [Clients -> Waiting \cup {"idle", "ready", "writing"}] /\ at'[c] \in Waiting /\ until' \in [Clients -> Nat]
  BY DEF Inv, Types, Row, Busy, Registered, Tracked, timing
<1>2. /\ \A d \in Clients \ {c} : at'[d] = at[d] /\ until'[d] = until[d]
      /\ at'[c] = "waiting" => at[c] = "waiting" /\ until'[c] = until[c]
  BY DEF timing
<1>3. UNCHANGED <<cmd, step, clock>> /\ daemon' = "up"
  BY DEF timing
<1> QED BY <1>1, <1>2, <1>3, WaitsKeeps

LEMMA MovesOn ==
  ASSUME Inv, NEW c \in Clients, job[c] \in Busy, NEW where \in Busy \ {"sent", "selecting", "missed", "opening"},
         job' = [job EXCEPT ![c] = where], UNCHANGED <<at, cmd, step, timing, due, daemon>>, job[c] # "sent"
  PROVE  Inv'
<1>1. Types'
  BY DEF Inv, Types, timing
<1>2. \A d \in Clients \ {c} : Same(d)
  BY DEF Inv, Types, Same, timing
<1>3. job'[c] = where /\ at[c] \in Waiting
  BY DEF Inv, Types, Row, Busy, Registered, Tracked
<1>4. Row(c)'
  BY <1>3 DEF Inv, Row, Waiting, LastStep, TheCommand, TheCall, timing
<1> QED BY <1>1, <1>2, <1>4, OneMoves

\* A request arrives at once, before any time has passed.
LEMMA ArriveKeeps == ASSUME Inv, NEW c \in Clients, Arrive(c) PROVE Inv'
<1> DEFINE call == TheCall(c)
<1>1. job[c] = "sent" /\ daemon = "up" /\ UNCHANGED <<at, cmd, step, timing, daemon>> /\ job[c] \in Busy
  BY DEF Arrive, client, world, Busy
<1>2. clock[c] = 0 /\ at[c] # "idle"
  BY <1>1 DEF Inv, Types, Row, Waiting
<1>3. Lasts(call) /\ Patience(call) \in Nat /\ 0 <= Patience(call)
  BY <1>2, CallSound DEF Lasts
<1>4. CASE \E code : Answers(c, code)
  BY <1>1, <1>4, AnswersKeeps
<1>5. CASE \E where \in {"working", "fresh", "polling"} : Waits(c, where, Patience(call))
  <2>1. PICK where \in {"working", "fresh", "polling"} : Waits(c, where, Patience(call))
    BY <1>5
  <2>2. where \in Busy \ {"sent"} /\ where \notin {"selecting", "missed", "opening"}
    BY DEF Busy, Registered, Tracked
  <2> QED BY <1>1, <1>2, <1>3, <2>1, <2>2, StillWaits
<1>6. CASE call.kind = "session_start" /\ Waits(c, "selecting", ConnectWait + 1)
  <2>1. "selecting" \in Busy \ {"sent"} /\ ConnectWait + 1 \in Nat /\ 0 <= ConnectWait + 1
    BY DEF Busy, ConnectWait
  <2> QED BY <1>1, <1>2, <1>6, <2>1, StillWaits
<1> QED BY <1>4, <1>5, <1>6 DEF Arrive

\* The answers of the handlers.
LEMMA HandlersKeep ==
  ASSUME Inv, NEW c \in Clients, ToolAnswers(c) \/ StopAnswers(c) \/ PollAnswers(c) \/ Missed(c) \/ StartAnswers(c) \/ WaitAnswers(c)
  PROVE  Inv'
<1>1. job[c] \in Busy /\ UNCHANGED <<at, cmd, step, timing, daemon>>
  BY DEF ToolAnswers, StopAnswers, PollAnswers, Missed, StartAnswers, WaitAnswers, client, world, Busy, Registered, Tracked
<1>2. \E code : Answers(c, code)
  BY DEF ToolAnswers, StopAnswers, PollAnswers, Missed, StartAnswers, WaitAnswers
<1> QED BY <1>1, <1>2, AnswersKeeps

\* The abort token of wait-ms: the flag, the waiter, the flag again.
LEMMA TokenKeeps == ASSUME Inv, NEW c \in Clients, CheckFlag(c) \/ CreateWaiter(c) \/ CheckAgain(c) PROVE Inv'
<1>1. job[c] \in Busy /\ job[c] # "sent" /\ UNCHANGED <<at, cmd, step, timing, daemon>>
  BY DEF CheckFlag, CreateWaiter, CheckAgain, client, world, Busy, Registered
<1>2. \/ Answers(c, "cancelled")
      \/ due' = due /\ \E where \in {"checked", "created", "asleep"} : job' = [job EXCEPT ![c] = where]
  BY DEF CheckFlag, CreateWaiter, CheckAgain
<1>3. CASE Answers(c, "cancelled")
  BY <1>1, <1>3, AnswersKeeps
<1>4. CASE due' = due /\ \E where \in {"checked", "created", "asleep"} : job' = [job EXCEPT ![c] = where]
  <2>1. {"checked", "created", "asleep"} \subseteq Busy \ {"sent", "selecting", "missed", "opening"}
    BY DEF Busy, Registered
  <2> QED BY <1>1, <1>4, <2>1, MovesOn
<1> QED BY <1>2, <1>3, <1>4

\* session.start: its time may begin anew, which is why its budget is no match.
LEMMA SelectKeeps == ASSUME Inv, NEW c \in Clients, Select(c) PROVE Inv'
<1>1. job[c] \in Busy /\ daemon = "up" /\ UNCHANGED <<at, cmd, step, timing, daemon>> /\ job[c] \in {"selecting", "missed"}
  BY DEF Select, client, world, Busy
<1>2. TheCall(c).kind = "session_start" /\ clock[c] <= due[c] /\ clock[c] \in Nat /\ due[c] \in Nat
  BY <1>1 DEF Inv, Types, Row
<1>3. clock[c] + StartTimeout \in Nat /\ clock[c] <= clock[c] + StartTimeout
  BY <1>2 DEF StartTimeout
<1>4. "opening" \in Busy \ {"sent"} /\ "missed" \in Busy \ {"sent"}
  BY DEF Busy
<1>5. Waits(c, "opening", clock[c] + StartTimeout) \/ Waits(c, "missed", due[c])
  BY DEF Select
<1> QED BY <1>1, <1>2, <1>3, <1>4, <1>5, StillWaits

\* A cancel at the daemon: a tool call has its cleanup, and not more time than it had.
LEMMA CancelArrivesKeeps == ASSUME Inv, NEW c \in Clients, CancelArrives(c) PROVE Inv'
<1>1. at[c] = "cancelling" /\ daemon = "up" /\ UNCHANGED <<cmd, step, clock, daemon>>
  BY DEF CancelArrives, world
<1>2. clock[c] \in Nat /\ due[c] \in Nat /\ at[c] \in Waiting /\ clock[c] + CancelGrace \in Nat /\ until[c] \in Nat
  BY <1>1 DEF Inv, Types, Waiting, CancelGrace
<1>3. CASE job[c] \in Registered
  <2>1. at' = [at EXCEPT ![c] = "tripping"] /\ UNCHANGED <<until, job, due>>
    BY <1>3 DEF CancelArrives, Registered
  <2>2. until' = [until EXCEPT ![c] = until[c]]
    BY <2>1 DEF Inv, Types
  <2> QED BY <1>1, <1>2, <2>1, <2>2, CancelKeeps DEF Waiting
<1>4. CASE job[c] \notin Registered /\ job[c] = "working" /\ TheCall(c).kind # "session_stop"
  <2> DEFINE deadline == LesserOf(due[c], clock[c] + CancelCleanup)
  <2>1. Waits(c, "cleaning", deadline) /\ GraceBegins(c)
    BY <1>4 DEF CancelArrives
  <2>2. job[c] \in Busy /\ "cleaning" \in Busy \ {"sent"}
    BY <1>4 DEF Busy, Tracked
  <2>3. clock[c] <= due[c] /\ (TheCall(c).kind # "session_start" => due[c] <= Patience(TheCall(c)))
    BY <1>1, <2>2 DEF Inv, Row
  <2>4. deadline \in Nat /\ clock[c] <= deadline /\ deadline <= due[c]
    BY <1>2, <2>3 DEF LesserOf, CancelCleanup
  <2>5. Lasts(TheCall(c))
    BY <1>1, CallSound
  <2>6. TheCall(c).kind # "session_start" => deadline <= Patience(TheCall(c))
    BY <1>2, <2>3, <2>4, <2>5 DEF Lasts
  <2>7. /\ at' \in [Clients -> Waiting \cup {"idle", "ready", "writing"}] /\ at'[c] = "grace" /\ until' \in [Clients -> Nat]
        /\ \A d \in Clients \ {c} : at'[d] = at[d] /\ until'[d] = until[d]
    BY <1>2, <2>1 DEF GraceBegins, Inv, Types, Waiting
  <2>8. at'[c] \in Waiting /\ at'[c] # "waiting"
    BY <2>7 DEF Waiting
  <2> HIDE DEF deadline
  <2> QED BY <1>1, <2>1, <2>2, <2>4, <2>6, <2>7, <2>8, WaitsKeeps
<1>5. CASE job[c] \notin Registered /\ ~(job[c] = "working" /\ TheCall(c).kind # "session_stop")
  <2>1. GraceBegins(c) /\ UNCHANGED <<job, due>>
    BY <1>5 DEF CancelArrives
  <2> QED BY <1>1, <1>2, <2>1, CancelKeeps DEF GraceBegins, Waiting
<1> QED BY <1>3, <1>4, <1>5

\* Time: it stops where a handler that works has its deadline.
LEMMA TickKeeps == ASSUME Inv, NEW c \in Clients, Tick(c) PROVE Inv'
<1>1. PICK t \in Instants \cup {until[c], due[c]} :
        (daemon = "up" => t <= due[c]) /\ clock' = [clock EXCEPT ![c] = t]
  BY DEF Tick
<1>2. UNCHANGED <<at, cmd, step, until, job, due, daemon>> /\ at[c] \in Waiting /\ (daemon = "up" => job[c] \in Busy /\ ~Prompt(c))
  BY DEF Tick, client, handler, world, Waiting
<1>3. t \in Nat
  BY LocalAssumption DEF Inv, Types
<1>4. Types'
  BY <1>1, <1>2, <1>3 DEF Inv, Types
<1>5. \A d \in Clients \ {c} : Same(d)
  BY <1>1, <1>2 DEF Inv, Types, Same
<1>6. clock'[c] = t
  BY <1>1 DEF Inv, Types
<1>7. Row(c)'
  BY <1>1, <1>2, <1>6 DEF Inv, Row, LastStep, TheCommand, TheCall
<1> QED BY <1>2, <1>4, <1>5, <1>7, OneMoves

\* The steps of nobody's call.
LEMMA WorldKeeps ==
  ASSUME Inv, BrowserTurns \/ DaemonHangs \/ (\E h \in late : LateEffect(h)) \/ UNCHANGED vars
  PROVE  Inv'
<1>1. UNCHANGED <<at, cmd, step, timing, job, due>> /\ daemon' \in {daemon, "hung"} /\ (daemon # "down" \/ daemon' = daemon)
  BY DEF BrowserTurns, DaemonHangs, LateEffect, vars, client, handler, world
<1>2. Types'
  BY <1>1 DEF Inv, Types, timing
<1>3. \A d \in Clients : Same(d)
  BY <1>1 DEF Same, timing
<1> QED BY <1>1, <1>2, <1>3, NobodyMoves

LEMMA DaemonEndsKeeps == ASSUME Inv, DaemonEnds PROVE Inv'
<1>1. /\ daemon' = "down" /\ UNCHANGED <<cmd, step, timing>>
      /\ job' = [d \in Clients |-> IF job[d] \in Busy THEN "answered" ELSE job[d]]
      /\ due' = [d \in Clients |-> 0]
      /\ at' = [d \in Clients |-> IF at[d] = "tripping" THEN "cancelling" ELSE at[d]]
  BY DEF DaemonEnds, All
<1>2. Types'
  BY <1>1 DEF Inv, Types, timing, Waiting, Busy
<1>3. ASSUME NEW c \in Clients PROVE Row(c)'
  <2>1. job'[c] \notin Busy /\ due'[c] = 0 /\ at'[c] = (IF at[c] = "tripping" THEN "cancelling" ELSE at[c]) /\ daemon' # "up"
        /\ job'[c] = (IF job[c] \in Busy THEN "answered" ELSE job[c])
    BY <1>1 DEF Busy, Registered, Tracked
  <2>2. clock'[c] = clock[c] /\ until'[c] = until[c] /\ cmd'[c] = cmd[c] /\ step'[c] = step[c]
    BY <1>1 DEF timing
  <2>3. Row(c)
    BY DEF Inv
  <2> QED BY <2>1, <2>2, <2>3 DEF Row, Waiting, Busy, Registered, Tracked, LastStep, TheCommand, TheCall
<1> QED BY <1>2, <1>3 DEF Inv

LEMMA NextInv == Inv /\ [Next]_vars => Inv'
<1> SUFFICES ASSUME Inv, [Next]_vars PROVE Inv'
  OBVIOUS
<1>1. CASE UNCHANGED vars \/ BrowserTurns \/ DaemonHangs \/ \E h \in late : LateEffect(h)
  BY <1>1, WorldKeeps
<1>2. CASE DaemonEnds
  BY <1>2, DaemonEndsKeeps
<1>3. ASSUME NEW c \in Clients, ClientStep(c) PROVE Inv'
  BY <1>3, SendKeeps, WriteStateKeeps, EndsKeep, GraceKeeps DEF ClientStep
<1>4. ASSUME NEW c \in Clients, JobStep(c) PROVE Inv'
  BY <1>4, ArriveKeeps, HandlersKeep, TokenKeeps, SelectKeeps, CancelArrivesKeeps, GraceKeeps DEF JobStep
<1>5. ASSUME NEW c \in Clients, Tick(c) \/ Interrupt(c) \/ \E n \in DOMAIN Menu[c] : Run(c, n) PROVE Inv'
  BY <1>5, TickKeeps, InterruptKeeps, RunKeeps
<1> QED BY <1>1, <1>2, <1>3, <1>4, <1>5 DEF Next

-----------------------------------------------------------------------------
\* The result

\* While the daemon is up no terminal gives a call up, for every menu, number of terminals
\* and timeout: a handler at work has a limit that is below the budget of its call.
THEOREM BudgetsOutlastDaemon == Spec => []DaemonAnswersFirst
<1>1. Inv => DaemonAnswersFirst
  <2> SUFFICES ASSUME Inv, NEW c \in Clients, at[c] = "waiting", daemon = "up", job[c] # "answered", TheCall(c).kind # "session_start"
               PROVE  clock[c] < until[c]
    BY DEF DaemonAnswersFirst
  <2>1. job[c] \in Busy /\ until[c] = TheCall(c).budget /\ clock[c] \in Nat /\ due[c] \in Nat
    BY DEF Inv, Types, Row, Waiting
  <2>2. clock[c] <= due[c] /\ due[c] <= Patience(TheCall(c))
    BY <2>1 DEF Inv, Row
  <2>3. Lasts(TheCall(c))
    BY CallSound
  <2>4. Patience(TheCall(c)) \in Nat /\ TheCall(c).budget \in Nat /\ Patience(TheCall(c)) < TheCall(c).budget
    BY <2>3 DEF Lasts
  <2> QED BY <2>1, <2>2, <2>4
<1> QED BY <1>1, InitInv, NextInv, PTL DEF Spec

-----------------------------------------------------------------------------
\* The abort token

Tokens == flag \in [Clients -> BOOLEAN] /\ woken \in [Clients -> BOOLEAN]

\* Between the flag and the notification the terminal is at "tripping"; nothing but the
\* notification, and the end of the daemon, takes it from there.
WakeInv == Tokens /\ NoLostWakeup

LEMMA AnswersWake ==
  ASSUME Types, WakeInv, NEW c \in Clients, NEW code, Answers(c, code), at' = at
  PROVE  WakeInv'
BY DEF Types, WakeInv, Tokens, NoLostWakeup, Answers

LEMMA GoesWake ==
  ASSUME Types, WakeInv, NEW c \in Clients, at[c] # "tripping", NEW code, NEW to, Goes(c, code, to)
  PROVE  WakeInv'
<1>1. Tokens'
  BY DEF WakeInv, Tokens, Goes
<1>2. job'[c] = "none" /\ \A d \in Clients \ {c} : at'[d] = at[d] /\ job'[d] = job[d] /\ flag'[d] = flag[d] /\ woken'[d] = woken[d]
  BY DEF Types, WakeInv, Tokens, Goes
<1> QED BY <1>1, <1>2 DEF WakeInv, NoLostWakeup

\* The terminal or the handler moves, the token does not.
LEMMA MoveWakes ==
  ASSUME Types, Types', WakeInv, NEW c \in Clients, UNCHANGED <<flag, woken>>,
         \A d \in Clients \ {c} : at'[d] = at[d] /\ job'[d] = job[d],
         at'[c] = "tripping" \/ at[c] # "tripping" \/ woken[c],
         job'[c] = "asleep" => job[c] = "asleep" \/ ~flag[c]
  PROVE  WakeInv'
BY DEF WakeInv, Tokens, NoLostWakeup

LEMMA ClientWakes ==
  ASSUME Types, Types', WakeInv, NEW c \in Clients, ClientStep(c) \/ Tick(c) \/ Interrupt(c) \/ \E n \in DOMAIN Menu[c] : Run(c, n)
  PROVE  WakeInv'
<1>1. CASE at[c] # "tripping" /\ \E code, to : Goes(c, code, to)
  BY <1>1, GoesWake
<1>2. CASE /\ UNCHANGED <<flag, woken>> /\ at[c] # "tripping" /\ (job'[c] = "asleep" => job[c] = "asleep")
           /\ \A d \in Clients \ {c} : at'[d] = at[d] /\ job'[d] = job[d]
  BY <1>2, MoveWakes
<1>3. ASSUME Send(c) \/ WriteState(c) \/ CancelGivesUp(c) \/ Tick(c)
      PROVE  \/ at[c] # "tripping" /\ \E code, to : Goes(c, code, to)
             \/ /\ UNCHANGED <<flag, woken>> /\ at[c] # "tripping" /\ (job'[c] = "asleep" => job[c] = "asleep")
                /\ \A d \in Clients \ {c} : at'[d] = at[d] /\ job'[d] = job[d]
  BY <1>3 DEF Types, Send, WriteState, CancelGivesUp, GraceBegins, Tick, client, handler, token
<1>4. ASSUME Result(c) \/ GiveUp(c) \/ GraceEnds(c)
      PROVE  at[c] # "tripping" /\ \E code, to : Goes(c, code, to)
  BY <1>4 DEF Result, GiveUp, GraceEnds
<1>5. ASSUME Interrupt(c)
      PROVE  \/ at[c] # "tripping" /\ \E code, to : Goes(c, code, to)
             \/ /\ UNCHANGED <<flag, woken>> /\ at[c] # "tripping" /\ (job'[c] = "asleep" => job[c] = "asleep")
                /\ \A d \in Clients \ {c} : at'[d] = at[d] /\ job'[d] = job[d]
  BY <1>5 DEF Types, Interrupt, handler, token
<1>6. ASSUME NEW n \in DOMAIN Menu[c], Run(c, n) PROVE WakeInv'
  <2>1. UNCHANGED <<flag, woken, job>> /\ at[c] = "idle" /\ \A d \in Clients \ {c} : at'[d] = at[d]
    BY <1>6 DEF Types, Run, client, handler, token
  <2> QED BY <2>1, MoveWakes
<1> QED BY <1>1, <1>2, <1>3, <1>4, <1>5, <1>6 DEF ClientStep

LEMMA HandlerWakes == ASSUME Types, Types', WakeInv, NEW c \in Clients, JobStep(c) PROVE WakeInv'
<1>1. CASE at' = at /\ \E code : Answers(c, code)
  BY <1>1, AnswersWake
<1>2. ASSUME ToolAnswers(c) \/ StopAnswers(c) \/ PollAnswers(c) \/ Missed(c) \/ StartAnswers(c) \/ WaitAnswers(c)
      PROVE  at' = at /\ \E code : Answers(c, code)
  BY <1>2 DEF ToolAnswers, StopAnswers, PollAnswers, Missed, StartAnswers, WaitAnswers, client
<1>3. ASSUME Arrive(c) \/ Select(c), ~\E code : Answers(c, code) PROVE WakeInv'
  <2>1. UNCHANGED <<at, flag, woken>>
    BY <1>3 DEF Arrive, Select, client, token
  <2>2. \E where \in {"working", "fresh", "polling", "selecting", "opening", "missed"} : \E deadline : Waits(c, where, deadline)
    BY <1>3 DEF Arrive, Select
  <2>3. job'[c] # "asleep" /\ \A d \in Clients \ {c} : at'[d] = at[d] /\ job'[d] = job[d]
    BY <2>1, <2>2 DEF Waits, Types
  <2>4. at'[c] = "tripping" \/ at[c] # "tripping" \/ woken[c]
    BY <2>1
  <2> QED BY <2>1, <2>3, <2>4, MoveWakes
<1>4. ASSUME Arrive(c) \/ Select(c) PROVE at' = at
  BY <1>4 DEF Arrive, Select, client
\* The flag is looked at once more after the waiter is there.
<1>5. ASSUME CheckFlag(c) \/ CreateWaiter(c) \/ CheckAgain(c), ~\E code : Answers(c, code) PROVE WakeInv'
  <2>1. /\ UNCHANGED <<at, flag, woken>>
        /\ \/ job' = [job EXCEPT ![c] = "checked"]
           \/ job' = [job EXCEPT ![c] = "created"]
           \/ job' = [job EXCEPT ![c] = "asleep"] /\ ~flag[c]
    <3>1. CASE CheckFlag(c)
      BY <1>5, <3>1 DEF CheckFlag, client, token
    <3>2. CASE CreateWaiter(c)
      BY <3>2 DEF CreateWaiter, client, token
    <3>3. CASE CheckAgain(c)
      BY <1>5, <3>3 DEF CheckAgain, client, token
    <3> QED BY <1>5, <3>1, <3>2, <3>3
  <2>2. job'[c] = "asleep" => ~flag[c]
    BY <2>1 DEF Types
  <2>3. \A d \in Clients \ {c} : at'[d] = at[d] /\ job'[d] = job[d]
    BY <2>1 DEF Types
  <2>4. at'[c] = "tripping" \/ at[c] # "tripping" \/ woken[c]
    BY <2>1
  <2> QED BY <2>1, <2>2, <2>3, <2>4, MoveWakes
<1>6. ASSUME CheckFlag(c) \/ CreateWaiter(c) \/ CheckAgain(c) PROVE at' = at
  BY <1>6 DEF CheckFlag, CreateWaiter, CheckAgain, client
<1>7. ASSUME CancelArrives(c) PROVE WakeInv'
  <2>1. CASE job[c] \in Registered
    <3>1. flag' = [flag EXCEPT ![c] = TRUE] /\ at' = [at EXCEPT ![c] = "tripping"] /\ job' = job /\ woken' = woken
      BY <1>7, <2>1 DEF CancelArrives, Registered
    <3> QED BY <3>1 DEF Types, WakeInv, Tokens, NoLostWakeup
  <2>2. CASE job[c] \notin Registered
    <3>1. /\ UNCHANGED <<flag, woken>> /\ at[c] = "cancelling" /\ at' = [at EXCEPT ![c] = "grace"]
          /\ job' = job \/ job' = [job EXCEPT ![c] = "cleaning"]
      BY <1>7, <2>2 DEF CancelArrives, GraceBegins, Waits
    <3>2. (job'[c] = "asleep" => job[c] = "asleep") /\ \A d \in Clients \ {c} : at'[d] = at[d] /\ job'[d] = job[d]
      BY <3>1 DEF Types
    <3> QED BY <3>1, <3>2, MoveWakes
  <2> QED BY <2>1, <2>2
<1>8. ASSUME Notify(c) PROVE WakeInv'
  <2>1. woken' = [woken EXCEPT ![c] = job[c] \in {"created", "asleep"}] /\ flag' = flag /\ job' = job /\ at' = [at EXCEPT ![c] = "grace"]
    BY <1>8 DEF Notify, GraceBegins, handler
  <2> QED BY <2>1 DEF Types, WakeInv, Tokens, NoLostWakeup
<1> QED BY <1>1, <1>2, <1>3, <1>4, <1>5, <1>6, <1>7, <1>8 DEF JobStep

\* No wake-up of an abort token is lost, in whatever order the handler of wait-ms and the
\* handler of cancel take their steps.
THEOREM WakeupsArrive == Spec => []NoLostWakeup
<1>1. Init => WakeInv
  BY DEF Init, WakeInv, Tokens, NoLostWakeup, All
<1>2. ASSUME Inv, Inv', WakeInv, [Next]_vars PROVE WakeInv'
  <2>1. Types /\ Types'
    BY <1>2 DEF Inv
  <2>2. CASE UNCHANGED vars \/ BrowserTurns \/ DaemonHangs \/ \E h \in late : LateEffect(h)
    <3>1. UNCHANGED <<at, job, flag, woken>>
      BY <2>2 DEF BrowserTurns, DaemonHangs, LateEffect, vars, client, handler, token
    <3> QED BY <1>2, <3>1 DEF WakeInv, Tokens, NoLostWakeup
  <2>3. CASE DaemonEnds
    BY <1>2, <2>3 DEF DaemonEnds, All, WakeInv, Tokens, NoLostWakeup
  <2>4. ASSUME NEW c \in Clients, ClientStep(c) \/ Tick(c) \/ Interrupt(c) \/ \E n \in DOMAIN Menu[c] : Run(c, n) PROVE WakeInv'
    BY <1>2, <2>1, <2>4, ClientWakes
  <2>5. ASSUME NEW c \in Clients, JobStep(c) PROVE WakeInv'
    BY <1>2, <2>1, <2>5, HandlerWakes
  <2> QED BY <1>2, <2>2, <2>3, <2>4, <2>5 DEF Next
<1>3. WakeInv => NoLostWakeup
  BY DEF WakeInv
<1> QED BY <1>1, <1>2, <1>3, InitInv, NextInv, PTL DEF Spec
-----------------------------------------------------------------------------
\* What a recording leaves behind

\* Only recordings start sessions: session start leaves its session to the user.
OnlyRecordings ==
  \A c \in Clients : \A n \in DOMAIN Menu[c] : \A i \in DOMAIN Menu[c][n].calls :
    Menu[c][n].calls[i].kind = "session_start" => Menu[c][n].file = "start"

\* Only record start writes the state file, and only record stop takes it.
LEMMA FilesOfCommands == ASSUME NEW m \in Commands PROVE m.file = "start" => m = RecordStart
<1>1. \A refused, calls, kept : Command(refused, calls, kept).file = kept
  BY DEF Command
<1>2. \A refused, call : Unless(refused, call).file = "none" /\ One(call).file = "none"
  BY <1>1 DEF Unless, One
<1>3. CASE m \in InteractionCommands
  BY <1>2, <1>3 DEF InteractionCommands, Click, Hover, Fill, Press, SelectOption
<1>4. CASE m \in NavigationCommands
  BY <1>2, <1>4 DEF NavigationCommands, Navigate, NavigateBack, NavigateForward, Reload, WaitForNavigation
<1>5. CASE m \in PageCommands
  BY <1>1, <1>2, <1>5 DEF PageCommands, Evaluate, RequestHelp, TabCommand, TabList, WindowResize, ReadPage, ReadLog,
                          Download, Screenshot, GetHtml, Emulate
<1>6. CASE m \in LocalCommands
  BY <1>2, <1>6 DEF LocalCommands, WaitMs, Status, Browsers
<1>7. CASE m \in SessionsCommands \ {RecordStart}
  <2>1. /\ \A w \in BOOLEAN, h \in BOOLEAN : SessionStart(w, h).file # "start"
        /\ \A named \in BOOLEAN : SessionStop(named).file # "start"
        /\ \A n \in 0 .. MaxStopped : SessionStopAll(n).file # "start"
    BY <1>1, <1>2 DEF SessionStart, SessionStop, SessionStopAll
  <2>2. SessionList.file # "start"
    BY <1>2 DEF SessionList
  <2>3. RecordStop.file # "start"
    BY <1>1 DEF RecordStop
  <2> QED BY <1>7, <2>1, <2>2, <2>3 DEF SessionsCommands
<1> QED BY <1>3, <1>4, <1>5, <1>6, <1>7 DEF Commands

\* record start: the first of its four calls makes the session, the last one stops it.
LEMMA RecordStartCalls ==
  /\ RecordStart.file = "start" /\ Len(RecordStart.calls) = 4
  /\ \A i \in 1 .. 4 : /\ RecordStart.calls[i].kind = "session_start" => i = 1
                       /\ i = 4 => RecordStart.calls[i].kind = "session_stop"
<1> DEFINE s == <<SessionStartCall, Plain, Call("tool", Day, Day + Slack, TRUE), SessionStopCall(1)>>
<1>1. /\ Len(s) = 4 /\ s[1] = SessionStartCall /\ s[2] = Plain
      /\ s[3] = Call("tool", Day, Day + Slack, TRUE) /\ s[4] = SessionStopCall(1)
  OBVIOUS
<1>2. Plain.kind = "tool" /\ Call("tool", Day, Day + Slack, TRUE).kind = "tool" /\ SessionStopCall(1).kind = "session_stop"
  BY DEF Plain, Call, SessionStopCall
<1>3. RecordStart.calls = s /\ RecordStart.file = "start"
  BY DEF RecordStart, Command
<1> HIDE DEF s
<1>4. \A i \in 1 .. 4 : i = 1 \/ i = 2 \/ i = 3 \/ i = 4
  OBVIOUS
<1>5. ASSUME NEW i \in 1 .. 4, s[i].kind = "session_start" PROVE i = 1
  BY <1>1, <1>2, <1>4, <1>5
<1> QED BY <1>1, <1>2, <1>3, <1>5

\* A terminal that records.
Records(c) == at[c] # "idle" /\ TheCommand(c).file = "start"

LEMMA RecorderCalls ==
  ASSUME Inv, NEW c \in Clients, Records(c)
  PROVE  /\ LastStep(c) = 4 /\ step[c] \in 1 .. 4
         /\ TheCall(c).kind = "session_start" => step[c] = 1
         /\ step[c] = 4 => TheCall(c).kind = "session_stop"
<1>1. cmd[c] \in DOMAIN Menu[c] /\ step[c] \in 1 .. LastStep(c)
  BY DEF Inv, Row, Records
<1>2. TheCommand(c) \in Commands
  BY <1>1, LocalAssumption DEF TheCommand
<1>3. TheCommand(c) = RecordStart
  BY <1>2, FilesOfCommands DEF Records
<1> QED BY <1>1, <1>3, RecordStartCalls DEF LastStep, TheCall

\* It will stop this session: the start has been answered, and the last call is to come.
Owns(c, s) == Records(c) /\ mine[c] = s /\ (step[c] = 1 => job[c] = "answered" /\ reply[c] = "ok")

\* It has been told what has become of its session, and means to end.
Stopped(c) ==
  Records(c) /\ step[c] = 4 /\ job[c] = "answered"
    => reply[c] \in {"kept", "timeout"} \/ mine[c] \notin sessions

Codes == {"none", "ok", "invalid_params", "cdp_failed", "cancelled", "kept", "not_found", "timeout",
          "no_browser_connected", "local"}

\* Sessions are numbered from 1, and whoever has written the state file is at work.
Numbers ==
  /\ born \in Nat /\ born <= MaxSessions
  /\ sessions \subseteq 1 .. born
  /\ mine \in [Clients -> (1 .. born) \cup {None}]
  /\ reply \in [Clients -> Codes]

FileInv ==
  /\ file \in (1 .. born) \cup {None}
  /\ wrote \in [Clients -> BOOLEAN]
  /\ \A c \in Clients : at[c] = "idle" => ~wrote[c]
  /\ file # None => \E c \in Clients : wrote[c]

\* The handlers of the kinds of calls.
KindRow(c) ==
  /\ job[c] \in Registered => TheCall(c).kind = "wait"
  /\ job[c] = "polling" => TheCall(c).kind = "browsers"

KindInv == \A c \in Clients : KindRow(c)

\* When nothing has come between, every session has its recording.
Quiet ==
  /\ late = {}
  /\ \A c \in Clients : at[c] \notin {"cancelling", "tripping", "grace"}
  /\ \A s \in sessions : \E c \in Clients : Owns(c, s)
  /\ \A c \in Clients : Stopped(c)

CleanInv == Numbers /\ FileInv /\ KindInv /\ (~disturbed => Quiet)

\* Numbers: sessions are only ever added under the next number.
LEMMA NumbersKeep == ASSUME Inv, Numbers, FileInv, [Next]_vars PROVE Numbers'
<1>1. MaxSessions \in Nat
  BY LocalAssumption
<1>2. CASE UNCHANGED <<mine, reply>> /\ UNCHANGED <<born, sessions>>
  BY <1>2 DEF Numbers
<1>3. ASSUME NEW c \in Clients, NEW code, NEW to, Goes(c, code, to), UNCHANGED <<born, sessions>> PROVE Numbers'
  BY <1>3 DEF Numbers, Goes, Codes
<1>4. ASSUME NEW c \in Clients, NEW code \in Codes, Answers(c, code), mine' = mine, born' = born, sessions' \subseteq sessions PROVE Numbers'
  BY <1>4 DEF Numbers, Answers
<1>5. ASSUME NEW c \in Clients, ClientStep(c) \/ Tick(c) \/ Interrupt(c) PROVE Numbers'
  <2>1. ASSUME Send(c) \/ WriteState(c) \/ CancelGivesUp(c) \/ Tick(c)
        PROVE  UNCHANGED <<born, sessions>> /\ (UNCHANGED <<mine, reply>> \/ \E code, to : Goes(c, code, to))
    BY <2>1 DEF Send, WriteState, CancelGivesUp, Tick, client, handler, world
  <2>2. ASSUME Result(c) \/ GiveUp(c) \/ GraceEnds(c) \/ Interrupt(c)
        PROVE  UNCHANGED <<born, sessions>> /\ (UNCHANGED <<mine, reply>> \/ \E code, to : Goes(c, code, to))
    BY <2>2 DEF Result, GiveUp, GraceEnds, Interrupt, handler, world
  <2> QED BY <1>2, <1>3, <1>5, <2>1, <2>2 DEF ClientStep
<1>6. ASSUME NEW c \in Clients, NEW n \in DOMAIN Menu[c], Run(c, n) PROVE Numbers'
  BY <1>6 DEF Run, client, handler, Numbers, FileInv
<1>7. ASSUME NEW c \in Clients, JobStep(c) PROVE Numbers'
  <2>1. CASE StartAnswers(c)
    <3>1. CASE UNCHANGED <<born, sessions, mine>>
      BY <1>4, <2>1, <3>1 DEF StartAnswers, Codes
    <3>2. CASE born < MaxSessions /\ born' = born + 1 /\ sessions' = sessions \cup {born + 1} /\ mine' = [mine EXCEPT ![c] = born + 1]
      <4>1. reply' \in [Clients -> Codes]
        BY <2>1, <3>2 DEF StartAnswers, Answers, Codes, Numbers
      <4>2. born' \in Nat /\ born' <= MaxSessions /\ 1 .. born \subseteq 1 .. born' /\ born + 1 \in 1 .. born'
        BY <1>1, <3>2 DEF Numbers
      <4> QED BY <3>2, <4>1, <4>2 DEF Numbers
    <3> QED BY <2>1, <3>1, <3>2 DEF StartAnswers
  <2>2. ASSUME ToolAnswers(c) \/ PollAnswers(c) \/ Missed(c) \/ WaitAnswers(c) \/ Arrive(c)
        PROVE  UNCHANGED <<mine, born, sessions>> /\ (reply' = reply \/ \E code \in Codes : Answers(c, code))
    BY <2>2 DEF ToolAnswers, PollAnswers, Missed, WaitAnswers, Arrive, client, world, Codes
  <2>3. ASSUME Select(c) \/ CheckFlag(c) \/ CreateWaiter(c) \/ CheckAgain(c) \/ CancelArrives(c) \/ Notify(c)
        PROVE  UNCHANGED <<mine, born, sessions>> /\ (reply' = reply \/ \E code \in Codes : Answers(c, code))
    BY <2>3 DEF Select, CheckFlag, CreateWaiter, CheckAgain, CancelArrives, Notify, client, handler, world, Codes
  <2>4. ASSUME StopAnswers(c)
        PROVE  mine' = mine /\ born' = born /\ sessions' \subseteq sessions /\ \E code \in Codes : Answers(c, code)
    BY <2>4 DEF StopAnswers, client, Codes
  <2> QED BY <1>2, <1>4, <1>7, <2>1, <2>2, <2>3, <2>4 DEF JobStep
<1>8. CASE UNCHANGED vars \/ BrowserTurns \/ DaemonHangs
  BY <1>2, <1>8 DEF BrowserTurns, DaemonHangs, vars, client, handler, world
<1>9. ASSUME NEW h \in late, LateEffect(h) PROVE Numbers'
  <2>1. UNCHANGED <<mine, reply>> /\ ((born' = born /\ sessions' \subseteq sessions) \/ (born < MaxSessions /\ born' = born + 1 /\ sessions' = sessions \cup {born + 1}))
    BY <1>9 DEF LateEffect, client, handler
  <2>2. CASE born' = born /\ sessions' \subseteq sessions
    BY <2>1, <2>2 DEF Numbers
  <2>3. CASE born < MaxSessions /\ born' = born + 1 /\ sessions' = sessions \cup {born + 1}
    <3>1. born' \in Nat /\ born' <= MaxSessions /\ 1 .. born \subseteq 1 .. born' /\ born + 1 \in 1 .. born'
      BY <1>1, <2>3 DEF Numbers
    <3> QED BY <2>1, <2>3, <3>1 DEF Numbers
  <2> QED BY <2>1, <2>2, <2>3
<1>10. CASE DaemonEnds
  <2>1. reply' \in [Clients -> Codes] /\ UNCHANGED <<mine, born>> /\ sessions' = {}
    BY <1>10 DEF DaemonEnds, Numbers, Codes
  <2> QED BY <2>1 DEF Numbers
<1> QED BY <1>5, <1>6, <1>7, <1>8, <1>9, <1>10 DEF Next

\* The state file has a writer, and goes with him.
LEMMA GoesFile ==
  ASSUME Inv, FileInv, NEW c \in Clients, at[c] # "idle", NEW code, NEW to, Goes(c, code, to), born' = born
  PROVE  FileInv'
<1>1. wrote' \in [Clients -> BOOLEAN] /\ \A d \in Clients \ {c} : at'[d] = at[d] /\ wrote'[d] = wrote[d]
  BY DEF Inv, Types, FileInv, Goes
<1>2. CASE to > LastStep(c)
  <2>1. wrote'[c] = FALSE /\ file' = (IF wrote[c] \/ TheCommand(c).file = "stop" THEN None ELSE file)
    BY <1>2 DEF FileInv, Goes
  <2> QED BY <1>1, <2>1 DEF FileInv
<1>3. CASE ~(to > LastStep(c))
  <2>1. wrote'[c] = wrote[c] /\ file' = file
    BY <1>3 DEF FileInv, Goes
  <2>2. at'[c] # "idle"
    BY <1>3 DEF Inv, Types, Goes
  <2> QED BY <1>1, <2>1, <2>2 DEF FileInv
<1> QED BY <1>2, <1>3

LEMMA FileKeeps == ASSUME Inv, Numbers, Numbers', FileInv, [Next]_vars PROVE FileInv'
<1>1. CASE UNCHANGED <<wrote, file, at>> /\ (born' = born \/ born' = born + 1)
  <2>1. 1 .. born \subseteq 1 .. born'
    BY <1>1 DEF Numbers
  <2> QED BY <1>1, <2>1 DEF FileInv
<1>2. ASSUME NEW c \in Clients, at[c] # "idle" \/ ~wrote[c], UNCHANGED <<wrote, file, born>>, NEW w, w # "idle", at' = [at EXCEPT ![c] = w] PROVE FileInv'
  BY <1>2 DEF Inv, Types, FileInv
<1>3. ASSUME NEW c \in Clients, ClientStep(c) \/ Tick(c) \/ Interrupt(c) PROVE FileInv'
  <2>1. CASE WriteState(c)
    <3>1. at[c] = "writing" /\ at' = [at EXCEPT ![c] = "ready"] /\ file' = mine[c] /\ wrote' = [wrote EXCEPT ![c] = TRUE] /\ born' = born
      BY <2>1 DEF WriteState, world
    <3> QED BY <3>1 DEF Inv, Types, FileInv, Numbers
  <2>2. ASSUME Send(c) \/ CancelGivesUp(c) \/ Tick(c)
        PROVE  /\ at[c] # "idle" /\ born' = born
               /\ \/ \E code, to : Goes(c, code, to)
                  \/ UNCHANGED <<wrote, file>> /\ (at' = at \/ \E w : w # "idle" /\ at' = [at EXCEPT ![c] = w])
    BY <2>2 DEF Send, CancelGivesUp, GraceBegins, Tick, client, world
  <2>3. ASSUME Result(c) \/ GiveUp(c) \/ GraceEnds(c) \/ Interrupt(c)
        PROVE  /\ at[c] # "idle" /\ born' = born
               /\ \/ \E code, to : Goes(c, code, to)
                  \/ UNCHANGED <<wrote, file>> /\ (at' = at \/ \E w : w # "idle" /\ at' = [at EXCEPT ![c] = w])
    BY <2>3 DEF Result, GiveUp, GraceEnds, Interrupt, world
  <2> QED BY <1>1, <1>2, <1>3, <2>1, <2>2, <2>3, GoesFile DEF ClientStep
<1>4. ASSUME NEW c \in Clients, NEW n \in DOMAIN Menu[c], Run(c, n) PROVE FileInv'
  <2>1. at[c] = "idle" /\ UNCHANGED <<wrote, file, born>> /\ (at' = at \/ at' = [at EXCEPT ![c] = "ready"])
    BY <1>4 DEF Run, client
  <2> QED BY <1>1, <1>2, <2>1 DEF FileInv
<1>5. ASSUME NEW c \in Clients, JobStep(c) PROVE FileInv'
  <2>1. ASSUME CancelArrives(c) \/ Notify(c)
        PROVE  at[c] # "idle" /\ UNCHANGED <<wrote, file, born>> /\ \E w : w # "idle" /\ at' = [at EXCEPT ![c] = w]
    BY <2>1 DEF CancelArrives, Notify, GraceBegins, world
  <2>2. ASSUME Arrive(c) \/ ToolAnswers(c) \/ StopAnswers(c) \/ PollAnswers(c) \/ Select(c) \/ Missed(c)
        PROVE  UNCHANGED <<wrote, file, at, born>>
    BY <2>2 DEF Arrive, ToolAnswers, StopAnswers, PollAnswers, Select, Missed, client, world
  <2>3. ASSUME StartAnswers(c) \/ CheckFlag(c) \/ CreateWaiter(c) \/ CheckAgain(c) \/ WaitAnswers(c)
        PROVE  UNCHANGED <<wrote, file, at>> /\ (born' = born \/ born' = born + 1)
    BY <2>3 DEF StartAnswers, CheckFlag, CreateWaiter, CheckAgain, WaitAnswers, client, world
  <2> QED BY <1>1, <1>2, <1>5, <2>1, <2>2, <2>3 DEF JobStep
<1>6. CASE UNCHANGED vars \/ BrowserTurns \/ DaemonHangs \/ \E h \in late : LateEffect(h)
  BY <1>1, <1>6 DEF BrowserTurns, DaemonHangs, LateEffect, vars, client, world
<1>7. CASE DaemonEnds
  <2>1. UNCHANGED <<wrote, file, born>> /\ \A c \in Clients : at'[c] = "idle" => at[c] = "idle"
    BY <1>7 DEF DaemonEnds
  <2> QED BY <2>1 DEF FileInv
<1> QED BY <1>3, <1>4, <1>5, <1>6, <1>7 DEF Next

\* A wait is for a wait, and a poll for a browser.
LEMMA KindMoves ==
  ASSUME Inv, KindInv, NEW c \in Clients, \A d \in Clients \ {c} : job'[d] = job[d] /\ cmd'[d] = cmd[d] /\ step'[d] = step[d], KindRow(c)'
  PROVE  KindInv'
BY DEF KindInv, KindRow, TheCall, TheCommand

LEMMA KindKeeps == ASSUME Inv, KindInv, [Next]_vars PROVE KindInv'
<1>1. CASE UNCHANGED <<job, cmd, step>>
  BY <1>1 DEF KindInv, KindRow, TheCall, TheCommand
<1>2. ASSUME NEW c \in Clients, NEW code, NEW to, Goes(c, code, to) PROVE KindInv'
  <2>1. job'[c] = "none" /\ \A d \in Clients \ {c} : job'[d] = job[d] /\ cmd'[d] = cmd[d] /\ step'[d] = step[d]
    BY <1>2 DEF Inv, Types, Goes
  <2> QED BY <2>1, KindMoves DEF KindRow, Registered
<1>3. ASSUME NEW c \in Clients, NEW where, job' = [job EXCEPT ![c] = where], UNCHANGED <<cmd, step>>,
             where \in Registered => TheCall(c).kind = "wait", where = "polling" => TheCall(c).kind = "browsers"
      PROVE  KindInv'
  <2>1. job'[c] = where /\ \A d \in Clients \ {c} : job'[d] = job[d]
    BY <1>3 DEF Inv, Types
  <2>2. TheCall(c)' = TheCall(c)
    BY <1>3 DEF TheCall, TheCommand
  <2> QED BY <1>3, <2>1, <2>2, KindMoves DEF KindRow
<1>4. ASSUME NEW c \in Clients, ClientStep(c) \/ Tick(c) \/ Interrupt(c) PROVE KindInv'
  <2>1. ASSUME Send(c) \/ WriteState(c) \/ CancelGivesUp(c) \/ Tick(c)
        PROVE  \/ \E code, to : Goes(c, code, to)
               \/ UNCHANGED <<cmd, step>> /\ (job' = job \/ job' = [job EXCEPT ![c] = "sent"])
    BY <2>1 DEF Send, WriteState, CancelGivesUp, Tick, client, handler
  <2>2. ASSUME Result(c) \/ GiveUp(c) \/ GraceEnds(c) \/ Interrupt(c)
        PROVE  (\E code, to : Goes(c, code, to)) \/ UNCHANGED <<job, cmd, step>>
    BY <2>2 DEF Result, GiveUp, GraceEnds, Interrupt, handler
  <2>3. "sent" \notin Registered
    BY DEF Registered
  <2> QED BY <1>1, <1>2, <1>3, <1>4, <2>1, <2>2, <2>3 DEF ClientStep
<1>5. ASSUME NEW c \in Clients, NEW n \in DOMAIN Menu[c], Run(c, n) PROVE KindInv'
  <2>1. job'[c] = "none"
    BY <1>5 DEF Run, handler, Inv, Row, Waiting
  <2>2. \A d \in Clients \ {c} : job'[d] = job[d] /\ cmd'[d] = cmd[d] /\ step'[d] = step[d]
    BY <1>5 DEF Run, handler, client, Inv, Types
  <2> QED BY <2>1, <2>2, KindMoves DEF KindRow, Registered
<1>6. ASSUME NEW c \in Clients, JobStep(c) PROVE KindInv'
  <2>1. UNCHANGED <<cmd, step>>
    BY <1>6 DEF JobStep, Arrive, ToolAnswers, StopAnswers, PollAnswers, Select, Missed, StartAnswers, CheckFlag, CreateWaiter,
                CheckAgain, WaitAnswers, CancelArrives, Notify, client
  <2>2. CASE Arrive(c)
    <3>1. \E where : /\ job' = [job EXCEPT ![c] = where]
                     /\ where \in Registered => TheCall(c).kind = "wait"
                     /\ where = "polling" => TheCall(c).kind = "browsers"
      BY <2>2 DEF Arrive, Waits, Answers, Registered
    <3> QED BY <1>3, <2>1, <3>1
  <2>3. CASE ToolAnswers(c) \/ StopAnswers(c) \/ PollAnswers(c) \/ Missed(c) \/ StartAnswers(c) \/ WaitAnswers(c)
    <3>1. job' = [job EXCEPT ![c] = "answered"]
      BY <2>3 DEF ToolAnswers, StopAnswers, PollAnswers, Missed, StartAnswers, WaitAnswers, Answers
    <3> QED BY <1>3, <2>1, <3>1 DEF Registered
  <2>4. CASE Select(c)
    <3>1. \E where \in {"opening", "missed"} : job' = [job EXCEPT ![c] = where]
      BY <2>4 DEF Select, Waits
    <3> QED BY <1>3, <2>1, <3>1 DEF Registered
  <2>5. CASE CheckFlag(c) \/ CreateWaiter(c) \/ CheckAgain(c)
    <3>1. job[c] \in Registered /\ \E where : job' = [job EXCEPT ![c] = where] /\ where # "polling"
      BY <2>5 DEF CheckFlag, CreateWaiter, CheckAgain, Answers, Registered
    <3>2. TheCall(c).kind = "wait"
      BY <3>1 DEF KindInv, KindRow
    <3> QED BY <1>3, <2>1, <3>1, <3>2
  <2>6. CASE CancelArrives(c) \/ Notify(c)
    <3>1. job' = job \/ job' = [job EXCEPT ![c] = "cleaning"]
      BY <2>6 DEF CancelArrives, Notify, Waits, handler
    <3> QED BY <1>1, <1>3, <2>1, <3>1 DEF Registered
  <2> QED BY <1>6, <2>2, <2>3, <2>4, <2>5, <2>6 DEF JobStep
<1>7. CASE UNCHANGED vars \/ BrowserTurns \/ DaemonHangs \/ \E h \in late : LateEffect(h)
  BY <1>1, <1>7 DEF BrowserTurns, DaemonHangs, LateEffect, vars, client, handler
<1>8. CASE DaemonEnds
  <2>1. /\ UNCHANGED <<cmd, step>>
        /\ job' = [c \in Clients |-> IF job[c] \in Busy THEN "answered" ELSE job[c]]
    BY <1>8 DEF DaemonEnds
  <2>2. "answered" \notin Registered \cup {"polling"} /\ Registered \cup {"polling"} \subseteq Busy
    BY DEF Busy, Registered
  <2> QED BY <2>1, <2>2 DEF KindInv, KindRow, TheCall, TheCommand
<1> QED BY <1>4, <1>5, <1>6, <1>7, <1>8 DEF Next

\* Nothing has come between, and c takes a step: it keeps its session, or it is gone.
LEMMA QuietMoves ==
  ASSUME Quiet, NEW c \in Clients, late' = {}, at'[c] \notin {"cancelling", "tripping", "grace"},
         \A d \in Clients \ {c} :
           at'[d] = at[d] /\ cmd'[d] = cmd[d] /\ step'[d] = step[d] /\ mine'[d] = mine[d] /\ job'[d] = job[d] /\ reply'[d] = reply[d],
         \A s \in sessions' : \/ s \in sessions /\ (Owns(c, s) => Owns(c, s)')
                              \/ Owns(c, s)' /\ \A d \in Clients \ {c} : mine[d] # s,
         Stopped(c)'
  PROVE  Quiet'
<1>1. ASSUME NEW d \in Clients \ {c}, NEW s PROVE Owns(d, s)' <=> Owns(d, s)
  BY <1>1 DEF Owns, Records, TheCommand
<1>2. \A d \in Clients : at'[d] \notin {"cancelling", "tripping", "grace"}
  BY DEF Quiet
<1>3. ASSUME NEW s \in sessions' PROVE \E d \in Clients : Owns(d, s)'
  BY <1>1, <1>3 DEF Quiet
<1>4. ASSUME NEW d \in Clients PROVE Stopped(d)'
  <2>1. CASE d # c
    <3>1. Stopped(d) /\ (Records(d)' <=> Records(d))
      BY <2>1 DEF Quiet, Records, TheCommand
    <3>2. mine[d] \notin sessions => mine[d] \notin sessions'
      BY <2>1
    <3> QED BY <2>1, <3>1, <3>2 DEF Stopped
  <2> QED BY <2>1
<1> QED BY <1>2, <1>3, <1>4 DEF Quiet

\* A recording that has a session goes on: its next call is not the first, and there is one.
LEMMA GoesQuiet ==
  ASSUME Inv, Numbers, Quiet, NEW c \in Clients, at[c] # "idle", NEW code, NEW to, Goes(c, code, to),
         late' = late, sessions' = sessions, \A s \in sessions : Owns(c, s) => to # 1 /\ ~(to > LastStep(c))
  PROVE  Quiet'
<1>1. \A d \in Clients \ {c} :
        at'[d] = at[d] /\ cmd'[d] = cmd[d] /\ step'[d] = step[d] /\ mine'[d] = mine[d] /\ job'[d] = job[d] /\ reply'[d] = reply[d]
  BY DEF Inv, Types, Numbers, Goes
<1>2. at'[c] \in {"idle", "ready", "writing"} /\ job'[c] = "none"
  BY DEF Inv, Types, Goes
<1>3. ASSUME NEW s \in sessions, Owns(c, s) PROVE Owns(c, s)'
  <2>1. at'[c] \in {"ready", "writing"} /\ cmd'[c] = cmd[c] /\ step'[c] = to /\ mine'[c] = mine[c] /\ to # 1
    BY <1>3 DEF Inv, Types, Numbers, Goes
  <2> QED BY <1>3, <2>1 DEF Owns, Records, TheCommand
<1>4. Stopped(c)'
  BY <1>2 DEF Stopped
<1> QED BY <1>1, <1>2, <1>3, <1>4, QuietMoves DEF Quiet

\* A terminal that is not told anything: the recording it has, it still has.
LEMMA StaysQuiet ==
  ASSUME Inv, Numbers, Quiet, NEW c \in Clients, at[c] # "idle", NEW w \in {"ready", "waiting"}, at' = [at EXCEPT ![c] = w],
         UNCHANGED <<cmd, step, mine, reply, late, sessions>>,
         job' = job \/ \E where : job' = [job EXCEPT ![c] = where] /\ where # "answered",
         job[c] # "answered"
  PROVE  Quiet'
<1>1. \A d \in Clients \ {c} :
        at'[d] = at[d] /\ cmd'[d] = cmd[d] /\ step'[d] = step[d] /\ mine'[d] = mine[d] /\ job'[d] = job[d] /\ reply'[d] = reply[d]
  BY DEF Inv, Types
<1>2. at'[c] = w /\ job'[c] # "answered"
  BY DEF Inv, Types
<1>3. ASSUME NEW s, Owns(c, s) PROVE Owns(c, s)'
  BY <1>2, <1>3 DEF Owns, Records, TheCommand
<1>4. Stopped(c)'
  BY <1>2 DEF Stopped
<1> QED BY <1>1, <1>2, <1>3, <1>4, QuietMoves DEF Quiet

\* The result of the stop ends the recording; any other leads to the stop.
LEMMA ResultQuiet == ASSUME Inv, Numbers, Quiet, NEW c \in Clients, Result(c), ~disturbed' PROVE Quiet'
<1>1. job[c] = "answered" /\ reply[c] \notin {"kept", "timeout"} /\ at[c] # "idle" /\ UNCHANGED <<late, sessions>>
  BY DEF Result, world
<1>2. ASSUME NEW s \in sessions, Owns(c, s) PROVE After(c, reply[c]) # 1 /\ ~(After(c, reply[c]) > LastStep(c))
  <2>1. Records(c) /\ LastStep(c) = 4 /\ step[c] \in 1 .. 4
    BY <1>2, RecorderCalls DEF Owns
  <2>2. step[c] # 4
    BY <1>1, <1>2, <2>1 DEF Quiet, Stopped, Owns
  <2>3. step[c] = 1 => reply[c] = "ok"
    BY <1>2 DEF Owns
  <2>4. TheCommand(c).file = "start"
    BY <2>1 DEF Records
  <2>5. After(c, reply[c]) \in {2, 3, 4}
    BY <2>1, <2>2, <2>3, <2>4 DEF After
  <2> QED BY <2>1, <2>5
<1> QED BY <1>1, <1>2, GoesQuiet DEF Result

LEMMA ClientQuiet == ASSUME Inv, Numbers, Quiet, NEW c \in Clients, ClientStep(c) \/ Tick(c) \/ Interrupt(c), ~disturbed' PROVE Quiet'
<1>1. at[c] \notin {"cancelling", "tripping", "grace"}
  BY DEF Quiet
<1>2. ~(GiveUp(c) \/ Interrupt(c) \/ CancelGivesUp(c) \/ GraceEnds(c))
  BY <1>1 DEF GiveUp, Interrupt, CancelGivesUp, GraceEnds
<1>3. CASE Send(c)
  <2>1. at[c] = "ready" /\ at' = [at EXCEPT ![c] = "waiting"] /\ job' = [job EXCEPT ![c] = "sent"]
        /\ UNCHANGED <<cmd, step, mine, reply, late, sessions>>
    BY <1>3 DEF Send, world
  <2>2. job[c] = "none"
    BY <2>1 DEF Inv, Row, Waiting
  <2>3. \E where : job' = [job EXCEPT ![c] = where] /\ where # "answered"
    <3>1. "sent" # "answered"
      OBVIOUS
    <3> QED BY <2>1, <3>1, Zenon
  <2> QED BY <2>1, <2>2, <2>3, StaysQuiet
<1>4. CASE WriteState(c)
  <2>1. at[c] = "writing" /\ at' = [at EXCEPT ![c] = "ready"] /\ UNCHANGED <<cmd, step, mine, job, reply, late, sessions>>
    BY <1>4 DEF WriteState, handler, world
  <2>2. job[c] = "none"
    BY <2>1 DEF Inv, Row, Waiting
  <2> QED BY <2>1, <2>2, StaysQuiet
<1>5. CASE Result(c)
  BY <1>5, ResultQuiet
<1>6. CASE Tick(c)
  <2>1. UNCHANGED <<at, cmd, step, mine, job, reply, late, sessions>>
    BY <1>6 DEF Tick, client, handler, world
  <2> QED BY <2>1 DEF Quiet, Owns, Stopped, Records, TheCommand
<1> QED BY <1>2, <1>3, <1>4, <1>5, <1>6 DEF ClientStep

\* A new command owns no session yet.
LEMMA RunQuiet == ASSUME Inv, Numbers, Quiet, NEW c \in Clients, NEW n \in DOMAIN Menu[c], Run(c, n) PROVE Quiet'
<1>1. at[c] = "idle" /\ UNCHANGED <<step, job, reply, late, sessions>>
  BY DEF Run, client, handler
<1>2. \/ UNCHANGED <<at, cmd, mine>>
      \/ at' = [at EXCEPT ![c] = "ready"] /\ \E x : cmd' = [cmd EXCEPT ![c] = n] /\ mine' = [mine EXCEPT ![c] = x]
  BY DEF Run, client
<1>3. \A d \in Clients \ {c} :
        at'[d] = at[d] /\ cmd'[d] = cmd[d] /\ step'[d] = step[d] /\ mine'[d] = mine[d] /\ job'[d] = job[d] /\ reply'[d] = reply[d]
  BY <1>1, <1>2 DEF Inv, Types, Numbers
<1>4. at'[c] \in {"idle", "ready"} /\ job'[c] = "none"
  BY <1>1, <1>2 DEF Inv, Types, Row, Waiting
<1>5. \A s : ~Owns(c, s)
  BY <1>1 DEF Owns, Records
<1>6. Stopped(c)'
  BY <1>4 DEF Stopped
<1> QED BY <1>1, <1>3, <1>4, <1>5, <1>6, QuietMoves DEF Quiet

\* A handler at work: sessions may go, and the stop of a recording says what it has done.
LEMMA HandlerQuiet ==
  ASSUME Inv, Numbers, Quiet, NEW c \in Clients, job[c] \in Busy, UNCHANGED <<at, cmd, step, mine, late>>, sessions' \subseteq sessions,
         NEW where, job' = [job EXCEPT ![c] = where], reply' = reply \/ \E code : reply' = [reply EXCEPT ![c] = code],
         where = "answered" => \/ TheCall(c).kind # "session_stop"
                               \/ TheCommand(c).file = "start" => reply'[c] \in {"kept", "timeout"} \/ mine[c] \notin sessions'
  PROVE  Quiet'
<1>1. \A d \in Clients \ {c} :
        at'[d] = at[d] /\ cmd'[d] = cmd[d] /\ step'[d] = step[d] /\ mine'[d] = mine[d] /\ job'[d] = job[d] /\ reply'[d] = reply[d]
  BY DEF Inv, Types, Numbers
<1>2. job[c] # "answered" /\ job'[c] = where
  BY DEF Inv, Types, Busy, Registered, Tracked
<1>3. ASSUME NEW s, Owns(c, s) PROVE Owns(c, s)'
  BY <1>2, <1>3 DEF Owns, Records, TheCommand
<1>4. Stopped(c)'
  <2> SUFFICES ASSUME Records(c)', step'[c] = 4, job'[c] = "answered" PROVE reply'[c] \in {"kept", "timeout"} \/ mine'[c] \notin sessions'
    BY DEF Stopped
  <2>1. Records(c) /\ TheCommand(c).file = "start"
    BY DEF Records, TheCommand
  <2>2. TheCall(c).kind = "session_stop"
    BY <2>1, RecorderCalls
  <2> QED BY <1>2, <2>1, <2>2
<1>5. at'[c] \notin {"cancelling", "tripping", "grace"} /\ late' = {}
  BY DEF Quiet
<1> QED BY <1>1, <1>3, <1>4, <1>5, QuietMoves

\* The answer to the start of a recording comes before any other: the recording owned none.
LEMMA StartQuiet == ASSUME OnlyRecordings, Inv, Numbers, Quiet, NEW c \in Clients, StartAnswers(c) PROVE Quiet'
<1>1. job[c] = "opening" /\ job[c] \in Busy /\ UNCHANGED <<at, cmd, step, late>> /\ \E code : Answers(c, code)
  BY DEF StartAnswers, Busy
<1>2. TheCall(c).kind = "session_start" /\ at[c] # "idle"
  BY <1>1 DEF Inv, Row, Waiting
<1>3. CASE UNCHANGED <<sessions, mine>>
  <2>1. sessions' \subseteq sessions /\ mine' = mine /\ job' = [job EXCEPT ![c] = "answered"] /\ \E code : reply' = [reply EXCEPT ![c] = code]
    BY <1>1, <1>3 DEF Answers
  <2> QED BY <1>1, <1>2, <2>1, HandlerQuiet
<1>4. CASE ~UNCHANGED <<sessions, mine>>
  <2>0. PICK id \in Nat : id = born + 1
    BY DEF Numbers
  <2>1. sessions' = sessions \cup {id} /\ mine' = [mine EXCEPT ![c] = id] /\ Answers(c, "ok") /\ born < MaxSessions
    BY <1>4, <2>0 DEF StartAnswers
  <2>2. mine'[c] = id /\ job'[c] = "answered" /\ reply'[c] = "ok"
    BY <2>1 DEF Answers, Inv, Types, Numbers
  <2>3. \A d \in Clients \ {c} :
          at'[d] = at[d] /\ cmd'[d] = cmd[d] /\ step'[d] = step[d] /\ mine'[d] = mine[d] /\ job'[d] = job[d] /\ reply'[d] = reply[d]
    BY <1>1, <2>1 DEF Answers, Inv, Types, Numbers
  <2>4. cmd[c] \in DOMAIN Menu[c] /\ step[c] \in 1 .. LastStep(c)
    BY <1>2 DEF Inv, Row
  <2>5. Menu[c] \in Seq(Commands)
    BY LocalAssumption
  <2>6. Sound(TheCommand(c))
    BY <1>2, CallSound
  <2>7. TheCommand(c).file = "start"
    BY <1>2, <2>4, <2>6 DEF OnlyRecordings, TheCall, TheCommand, LastStep, Sound
  <2>8. Records(c) /\ step[c] = 1
    BY <1>2, <2>7, RecorderCalls DEF Records
  <2>9. Owns(c, id)' /\ \A s : ~Owns(c, s)
    BY <1>1, <2>2, <2>8 DEF Owns, Records, TheCommand
  <2>10. \A d \in Clients : mine[d] # id
    <3>1. id \in Sessions
      BY <2>0, <2>1, LocalAssumption DEF Numbers, Sessions
    <3>2. None # id
      BY <3>1, LocalAssumption
    <3> QED BY <2>0, <3>2 DEF Numbers
  <2>11. Stopped(c)'
    BY <1>1, <2>8 DEF Stopped
  <2>12. at'[c] \notin {"cancelling", "tripping", "grace"} /\ late' = {}
    BY <1>1 DEF Quiet
  <2> QED BY <2>1, <2>3, <2>9, <2>10, <2>11, <2>12, QuietMoves
<1> QED BY <1>3, <1>4

LEMMA JobQuiet == ASSUME OnlyRecordings, Inv, Numbers, KindInv, Quiet, NEW c \in Clients, JobStep(c) PROVE Quiet'
<1>1. ~(CancelArrives(c) \/ Notify(c))
  BY DEF Quiet, CancelArrives, Notify
<1>2. CASE StartAnswers(c)
  BY <1>2, StartQuiet
<1>3. ASSUME NEW where, job' = [job EXCEPT ![c] = where], job[c] \in Busy, UNCHANGED <<at, cmd, step, mine, late, sessions>>,
             reply' = reply \/ \E code : reply' = [reply EXCEPT ![c] = code], where = "answered" => TheCall(c).kind # "session_stop"
      PROVE  Quiet'
  BY <1>3, HandlerQuiet
<1>4. ASSUME Arrive(c) PROVE Quiet'
  <2>1. job[c] \in Busy /\ UNCHANGED <<at, cmd, step, mine, late, sessions>>
    BY <1>4 DEF Arrive, client, world, Busy
  <2>2. \E where : /\ job' = [job EXCEPT ![c] = where]
                   /\ reply' = reply \/ \E code : reply' = [reply EXCEPT ![c] = code]
                   /\ where = "answered" => TheCall(c).kind # "session_stop"
    BY <1>4 DEF Arrive, Waits, Answers
  <2> QED BY <1>3, <2>1, <2>2
<1>5. ASSUME ToolAnswers(c) \/ PollAnswers(c) \/ Missed(c) \/ WaitAnswers(c) PROVE Quiet'
  <2>1. job[c] \in Busy /\ UNCHANGED <<at, cmd, step, mine, late, sessions>>
    BY <1>5 DEF ToolAnswers, PollAnswers, Missed, WaitAnswers, client, world, Busy, Registered, Tracked
  <2>2. job' = [job EXCEPT ![c] = "answered"] /\ \E code : reply' = [reply EXCEPT ![c] = code]
    BY <1>5 DEF ToolAnswers, PollAnswers, Missed, WaitAnswers, Answers
  <2>3. TheCall(c).kind # "session_stop"
    BY <1>5 DEF ToolAnswers, PollAnswers, Missed, WaitAnswers, Inv, Row, KindInv, KindRow, Registered
  <2> QED BY <1>3, <2>1, <2>2, <2>3
<1>6. ASSUME Select(c) PROVE Quiet'
  <2>1. job[c] \in Busy /\ UNCHANGED <<at, cmd, step, mine, late, sessions, reply>>
    BY <1>6 DEF Select, client, world, Busy
  <2>2. \E where \in {"opening", "missed"} : job' = [job EXCEPT ![c] = where]
    BY <1>6 DEF Select, Waits
  <2> QED BY <1>3, <2>1, <2>2
<1>7. ASSUME CheckFlag(c) \/ CreateWaiter(c) \/ CheckAgain(c) PROVE Quiet'
  <2>1. job[c] \in Registered /\ UNCHANGED <<at, cmd, step, mine, late, sessions>>
    BY <1>7 DEF CheckFlag, CreateWaiter, CheckAgain, client, world, Registered
  <2>2. /\ \E where : job' = [job EXCEPT ![c] = where]
        /\ reply' = reply \/ \E code : reply' = [reply EXCEPT ![c] = code]
    BY <1>7 DEF CheckFlag, CreateWaiter, CheckAgain, Answers
  <2>3. TheCall(c).kind # "session_stop" /\ job[c] \in Busy
    BY <2>1 DEF KindInv, KindRow, Busy
  <2> QED BY <1>3, <2>1, <2>2, <2>3
<1>8. ASSUME StopAnswers(c) PROVE Quiet'
  <2>1. job[c] \in Busy /\ UNCHANGED <<at, cmd, step, mine, late>>
    BY <1>8 DEF StopAnswers, client, Busy, Tracked
  <2>2. job' = [job EXCEPT ![c] = "answered"] /\ (\E code : reply' = [reply EXCEPT ![c] = code]) /\ sessions' \subseteq sessions
    BY <1>8 DEF StopAnswers, Answers
  <2>3. TheCommand(c).file = "start" => reply'[c] \in {"kept", "timeout"} \/ mine[c] \notin sessions'
    BY <1>8 DEF StopAnswers, Answers, Numbers
  <2> QED BY <2>1, <2>2, <2>3, HandlerQuiet
<1> QED BY <1>1, <1>2, <1>4, <1>5, <1>6, <1>7, <1>8 DEF JobStep

LEMMA QuietKeeps ==
  ASSUME OnlyRecordings, Inv, Numbers, KindInv, ~disturbed => Quiet, [Next]_vars
  PROVE  ~disturbed' => Quiet'
<1> SUFFICES ASSUME ~disturbed' PROVE Quiet'
  OBVIOUS
<1>1. ~disturbed
  BY DEF Next, ClientStep, JobStep, Send, WriteState, Result, GiveUp, CancelGivesUp, GraceEnds, Arrive, ToolAnswers, StopAnswers,
         PollAnswers, Select, Missed, StartAnswers, CheckFlag, CreateWaiter, CheckAgain, WaitAnswers, CancelArrives, Notify,
         LateEffect, Tick, Interrupt, Run, BrowserTurns, DaemonHangs, DaemonEnds, vars
<1>2. ASSUME NEW c \in Clients, ClientStep(c) \/ Tick(c) \/ Interrupt(c) PROVE Quiet'
  BY <1>1, <1>2, ClientQuiet
<1>3. ASSUME NEW c \in Clients, NEW n \in DOMAIN Menu[c], Run(c, n) PROVE Quiet'
  BY <1>1, <1>3, RunQuiet
<1>4. ASSUME NEW c \in Clients, JobStep(c) PROVE Quiet'
  BY <1>1, <1>4, JobQuiet
<1>5. ~(DaemonHangs \/ DaemonEnds \/ \E h \in late : LateEffect(h))
  BY <1>1 DEF DaemonHangs, DaemonEnds, Quiet
<1>6. CASE UNCHANGED vars \/ BrowserTurns
  <2>1. UNCHANGED <<at, cmd, step, mine, job, reply, late, sessions>>
    BY <1>6 DEF BrowserTurns, vars, client, handler, world
  <2> QED BY <1>1, <2>1 DEF Quiet, Owns, Stopped, Records, TheCommand
<1> QED BY <1>2, <1>3, <1>4, <1>5, <1>6 DEF Next

\* When all commands are over and nothing has come between, no recording has left a session
\* or its state file behind: for any number of terminals, and every menu whose sessions are
\* those of its recordings.
THEOREM RecordingsCleanUp == ASSUME OnlyRecordings PROVE Spec => []RecordCleansUp
<1>1. Init => CleanInv
  <2> SUFFICES ASSUME Init PROVE CleanInv
    OBVIOUS
  <2>1. Numbers
    BY LocalAssumption DEF Init, Numbers, Codes, All
  <2>2. FileInv
    BY DEF Init, FileInv, All
  <2>3. KindInv
    BY DEF Init, KindInv, KindRow, Registered, All
  <2>4. Quiet
    BY DEF Init, Quiet, Stopped, Records, All
  <2> QED BY <2>1, <2>2, <2>3, <2>4 DEF CleanInv
<1>2. ASSUME Inv, CleanInv, [Next]_vars PROVE CleanInv'
  <2>1. Numbers'
    BY <1>2, NumbersKeep DEF CleanInv
  <2>2. FileInv'
    BY <1>2, <2>1, FileKeeps DEF CleanInv
  <2>3. KindInv'
    BY <1>2, KindKeeps DEF CleanInv
  <2>4. ~disturbed' => Quiet'
    BY <1>2, QuietKeeps DEF CleanInv
  <2> QED BY <2>1, <2>2, <2>3, <2>4 DEF CleanInv
<1>3. CleanInv => RecordCleansUp
  BY DEF CleanInv, FileInv, Quiet, Owns, Records, RecordCleansUp
<1> QED BY <1>1, <1>2, <1>3, InitInv, NextInv, PTL DEF Spec
===============================================================================
