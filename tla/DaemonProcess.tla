------------------------------ MODULE DaemonProcess ------------------------------
(***************************************************************************)
(* The daemon as a process: how commands find it, start it, stop it and    *)
(* how it, or `bsk update`, replaces the binary by a newer version.        *)
(* Processes meet in the binary and in three files of ~/.bsk only: the     *)
(* lock, the socket path and daemon.json.                                  *)
(*                                                                         *)
(* A pid is not used again. The three seconds that a command waits for a   *)
(* daemon are enough for a start that is under way: GiveUp. The platform   *)
(* is Linux: a process whose binary has been replaced cannot find it. A    *)
(* daemon asks for its path early enough; a `bsk update` that asks too     *)
(* late ends here (it would write a second binary beside the installed     *)
(* one).                                                                   *)
(***************************************************************************)
EXTENDS Naturals, FiniteSets

CONSTANTS
  MaxDaemons,  \* bound: daemon processes, each runs once
  Clients,     \* terminals, each runs one command at a time
  MaxCommands, \* bound: commands
  MaxReleases, \* bound: releases after the version that is installed at first
  MaxFaults,   \* bound: daemons that die, go idle or wait no longer, updates that fail
  None         \* no process

Daemons == 1 .. MaxDaemons

ASSUME DaemonAssumption == MaxDaemons \in Nat \ {0} /\ {MaxCommands, MaxReleases, MaxFaults} \subseteq Nat /\ None \notin Daemons

VARIABLES
  pc,       \* per daemon: where run_start and run_foreground are
  pred,     \* per daemon: the process whose end it waits for, or none
  lock,     \* the daemon that holds the lock
  sock,     \* the daemon whose listener the socket path leads to
  info,     \* the pid in daemon.json
  term,     \* daemons with a SIGTERM
  img,      \* per daemon: the version that it runs
  job,      \* per daemon: where its update task is
  got,      \* per daemon: the version that the task installs
  live,     \* daemons with sessions
  release,  \* the version in the manifest
  binary,   \* the version of the installed binary
  stale,    \* clients whose binary has been replaced since they were started
  at,       \* per client: where its command is
  goal,     \* per client: the command
  target,   \* per client: the daemon that its stop ends
  want,     \* per client: the version that its update installs
  commands, \* commands so far
  faults,   \* such faults so far
  disturbed \* a daemon was stopped, has crashed, gone idle, or was too slow; an update failed

files   == <<lock, sock, info>>
clients == <<at, goal, target, want, commands>>
task    == <<img, job, got, live>>
program == <<release, binary, stale>>
vars    == <<pc, pred, files, term, task, program, clients, faults, disturbed>>

\* No daemon runs, or one does.
Init ==
  /\ \/ pc = [d \in Daemons |-> "none"] /\ lock = None
     \/ pc = [d \in Daemons |-> IF d = 1 THEN "serving" ELSE "none"] /\ lock = 1
  /\ sock = lock /\ info = lock
  /\ pred = [d \in Daemons |-> None] /\ term = {}
  /\ at = [c \in Clients |-> "idle"] /\ goal = [c \in Clients |-> "none"]
  /\ target = [c \in Clients |-> None] /\ commands = 0
  /\ want = [c \in Clients |-> 0]
  /\ img = [d \in Daemons |-> 0] /\ job = [d \in Daemons |-> "idle"] /\ got = [d \in Daemons |-> 0] /\ live = {}
  /\ release = 0 /\ binary = 0 /\ stale = {}
  /\ faults = 0 /\ disturbed = FALSE

-----------------------------------------------------------------------------
\* Helpers

Alive(d) == pc[d] \notin {"none", "dead"}

\* The ends of a command: it was successful, it has started no daemon, its stop was refused.
Ended == {"idle", "failed", "refused"}

\* The terminals with a process, whose binary goes when it is replaced.
Running == {c \in Clients : at[c] \notin Ended}

\* The next process; its number is its pid.
New(d) == pc[d] = "none" /\ \A e \in 1 .. (d - 1) : pc[e] # "none"

\* The daemons that have spawned their replacement.
Replaced == {pred[r] : r \in Daemons} \ {None}

Starting == {"waiting", "spawned", "locked", "bound"}

\* read_verified(), verified_existing_daemon(): the recorded pid is alive and it is
\* what answers on the socket.
Found == info # None /\ sock = info /\ pc[info] = "serving"

\* Something that commands and updates may not survive.
Fault == faults < MaxFaults /\ faults' = faults + 1 /\ disturbed' = TRUE

\* The process ends: the kernel drops its lock, the files stay.
Ends(d) ==
  /\ pc' = [pc EXCEPT ![d] = "dead"]
  /\ lock' = IF lock = d THEN None ELSE lock

\* The command goes on, or ends.
Goes(c, where) ==
  /\ at' = [at EXCEPT ![c] = where]
  /\ IF where \in Ended
     THEN goal' = [goal EXCEPT ![c] = "none"] /\ want' = [want EXCEPT ![c] = 0]
     ELSE UNCHANGED <<goal, want>>

-----------------------------------------------------------------------------
\* Actions: the daemon's start

\* wait_for_replaced_daemon(): a replacement waits until its predecessor is gone.
TakeOver(r) ==
  /\ pc[r] = "waiting" /\ pc[pred[r]] = "dead"
  /\ pc' = [pc EXCEPT ![r] = "spawned"]
  /\ UNCHANGED <<pred, files, term, task, program, clients, faults, disturbed>>

\* It waits for 30 seconds at most.
PatienceEnds(r) ==
  /\ pc[r] = "waiting" /\ pc[pred[r]] # "dead" /\ Fault
  /\ pc' = [pc EXCEPT ![r] = "spawned"]
  /\ UNCHANGED <<pred, files, term, task, program, clients>>

\* lockfile::acquire(): it does not wait; who does not get the lock gives up.
Lock(d) ==
  /\ pc[d] = "spawned"
  /\ IF lock = None
     THEN lock' = d /\ pc' = [pc EXCEPT ![d] = "locked"]
     ELSE pc' = [pc EXCEPT ![d] = "dead"] /\ UNCHANGED lock
  /\ UNCHANGED <<pred, sock, info, term, task, program, clients, faults, disturbed>>

\* ipc::bind(): what is at the path goes, the daemon's listener comes.
Bind(d) ==
  /\ pc[d] = "locked"
  /\ pc' = [pc EXCEPT ![d] = "bound"] /\ sock' = d
  /\ UNCHANGED <<pred, lock, info, term, task, program, clients, faults, disturbed>>

\* The port of the WebSocket server is taken: the process ends, its socket stays.
BindFails(d) ==
  /\ pc[d] = "bound" /\ Fault /\ Ends(d)
  /\ UNCHANGED <<pred, sock, info, term, task, program, clients>>

\* daemon.json is renamed into its place, the IPC server runs.
Publish(d) ==
  /\ pc[d] = "bound"
  /\ pc' = [pc EXCEPT ![d] = "serving"] /\ info' = d
  /\ UNCHANGED <<pred, lock, sock, term, task, program, clients, faults, disturbed>>

-----------------------------------------------------------------------------
\* Actions: sessions and the update task

\* A session starts, or the last one ends.
SessionsChange(d) ==
  /\ pc[d] = "serving"
  /\ live' = IF d \in live THEN live \ {d} ELSE live \cup {d}
  /\ UNCHANGED <<pc, pred, files, term, img, job, got, program, clients, faults, disturbed>>

\* A tick: the manifest has a newer version than this process, and there are no sessions.
\* What follows runs in a thread of its own, which a shutdown does not end.
Check(d) ==
  /\ pc[d] = "serving" /\ job[d] = "idle" /\ img[d] < release /\ d \notin live
  /\ job' = [job EXCEPT ![d] = "loading"] /\ got' = [got EXCEPT ![d] = release]
  /\ UNCHANGED <<pc, pred, files, term, img, live, program, clients, faults, disturbed>>

\* self_install_candidate(), replace_binary_atomically(): the new binary is downloaded,
\* verified and renamed into its place.
SelfInstall(d) ==
  /\ Alive(d) /\ job[d] = "loading"
  /\ binary' = got[d] /\ stale' = stale \cup Running
  /\ job' = [job EXCEPT ![d] = "installed"] /\ got' = [got EXCEPT ![d] = 0]
  /\ UNCHANGED <<pc, pred, files, term, img, live, release, clients, faults, disturbed>>

\* The download, the installation or the start of the new version fails; the next tick
\* tries again.
TaskFails(d) ==
  /\ Alive(d) /\ job[d] \in {"loading", "installed"} /\ Fault
  /\ job' = [job EXCEPT ![d] = "idle"] /\ got' = [got EXCEPT ![d] = 0]
  /\ UNCHANGED <<pc, pred, files, term, img, live, program, clients>>

\* Mutant of Respawn: the replacement does not wait for its predecessor.
RespawnAtOnce(d) ==
  /\ pc[d] \in {"serving", "leaving"} /\ job[d] = "installed"
  /\ \E r \in Daemons :
       /\ New(r) /\ pc' = [pc EXCEPT ![r] = "spawned"] /\ pred' = [pred EXCEPT ![r] = d] /\ img' = [img EXCEPT ![r] = binary]
  /\ job' = [job EXCEPT ![d] = "over"]
  /\ UNCHANGED <<files, term, got, live, program, clients, faults, disturbed>>

\* The task spawns the new version, which waits for this process, and asks this one to
\* leave.
Respawn(d) ==
  /\ pc[d] \in {"serving", "leaving"} /\ job[d] = "installed"
  /\ \E r \in Daemons :
       /\ New(r) /\ pc' = [pc EXCEPT ![r] = "waiting"] /\ pred' = [pred EXCEPT ![r] = d] /\ img' = [img EXCEPT ![r] = binary]
  /\ job' = [job EXCEPT ![d] = "over"]
  /\ UNCHANGED <<files, term, got, live, program, clients, faults, disturbed>>

-----------------------------------------------------------------------------
\* Actions: the daemon's end

\* The select! of run_foreground: a signal or the update ends the service, and the
\* listener is closed first.
Leave(d) ==
  /\ pc[d] = "serving"
  /\ d \in term \cup Replaced
  /\ pc' = [pc EXCEPT ![d] = "leaving"] /\ live' = live \ {d}
  /\ UNCHANGED <<pred, files, term, img, job, got, program, clients, faults, disturbed>>

\* The idle task: no connection, browser or session for long enough.
IdleOut(d) ==
  /\ pc[d] = "serving" /\ d \notin live /\ Fault
  /\ pc' = [pc EXCEPT ![d] = "leaving"]
  /\ UNCHANGED <<pred, files, term, task, program, clients>>

\* Mutant of RemoveInfo: daemon.json stays behind.
RemoveInfoForgotten(d) ==
  /\ pc[d] = "leaving"
  /\ pc' = [pc EXCEPT ![d] = "forgotten"]
  /\ UNCHANGED <<pred, files, term, task, program, clients, faults, disturbed>>

RemoveInfo(d) ==
  /\ pc[d] = "leaving"
  /\ pc' = [pc EXCEPT ![d] = "forgotten"] /\ info' = None
  /\ UNCHANGED <<pred, lock, sock, term, task, program, clients, faults, disturbed>>

RemoveSocket(d) ==
  /\ pc[d] = "forgotten"
  /\ pc' = [pc EXCEPT ![d] = "unlinked"] /\ sock' = None
  /\ UNCHANGED <<pred, lock, info, term, task, program, clients, faults, disturbed>>

\* Mutant of Unlock: the lock is dropped before the files are removed.
UnlockEarly(d) ==
  /\ \/ pc[d] \in {"leaving", "forgotten"} /\ UNCHANGED pc
     \/ pc[d] = "unlinked" /\ pc' = [pc EXCEPT ![d] = "unlocked"]
  /\ lock' = IF lock = d THEN None ELSE lock
  /\ UNCHANGED <<pred, sock, info, term, task, program, clients, faults, disturbed>>

Unlock(d) ==
  /\ pc[d] = "unlinked"
  /\ pc' = [pc EXCEPT ![d] = "unlocked"]
  /\ lock' = IF lock = d THEN None ELSE lock
  /\ UNCHANGED <<pred, sock, info, term, task, program, clients, faults, disturbed>>

\* The runtime is dropped: blocking work (a download) ends first.
Exit(d) ==
  /\ pc[d] = "unlocked" /\ job[d] # "loading"
  /\ pc' = [pc EXCEPT ![d] = "dead"]
  /\ UNCHANGED <<pred, files, term, task, program, clients, faults, disturbed>>

Crash(d) ==
  /\ Alive(d) /\ Fault /\ Ends(d)
  /\ UNCHANGED <<pred, sock, info, term, task, program, clients>>

-----------------------------------------------------------------------------
\* Actions: commands

\* A command that uses the daemon looks for it first; start looks and starts; stop and
\* restart begin with run_stop.
Command(c, what) ==
  /\ at[c] \in Ended /\ commands < MaxCommands
  /\ commands' = commands + 1
  /\ goal' = [goal EXCEPT ![c] = what] /\ stale' = stale \ {c}
  /\ at' = [at EXCEPT ![c] = CASE what = "use" -> "looking" [] what = "start" -> "starting" [] OTHER -> "stopping"]
  /\ UNCHANGED <<pc, pred, files, term, task, release, binary, target, want, faults, disturbed>>

\* bsk update: the manifest has a newer version than this process, and the user wants it.
Fetch(c) ==
  /\ at[c] \in Ended /\ commands < MaxCommands /\ binary < release
  /\ commands' = commands + 1
  /\ goal' = [goal EXCEPT ![c] = "update"] /\ stale' = stale \ {c}
  /\ at' = [at EXCEPT ![c] = "downloading"] /\ want' = [want EXCEPT ![c] = release]
  /\ UNCHANGED <<pc, pred, files, term, task, release, binary, target, faults, disturbed>>

\* ensure_daemon(): `bsk daemon start` runs unless a daemon is found.
Look(c) ==
  /\ at[c] = "looking"
  /\ Goes(c, IF Found THEN "idle" ELSE IF c \in stale THEN "failed" ELSE "starting")
  /\ UNCHANGED <<pc, pred, files, term, task, program, target, commands, faults, disturbed>>

\* What follows a run_start that is successful.
Started(c) == Goes(c, IF goal[c] = "use" THEN "ensuring" ELSE "idle")

\* run_start(), spawn_detached(): a daemon is there already, or a child of the same binary
\* is spawned and waited for.
Start(c) ==
  /\ at[c] = "starting"
  /\ \/ Found /\ Started(c) /\ UNCHANGED <<pc, img>>
     \/ ~Found /\ c \in stale /\ Goes(c, "failed") /\ UNCHANGED <<pc, img>>
     \/ /\ ~Found /\ c \notin stale /\ Goes(c, "waiting")
        /\ \E d \in Daemons : New(d) /\ pc' = [pc EXCEPT ![d] = "spawned"] /\ img' = [img EXCEPT ![d] = binary]
  /\ UNCHANGED <<pred, files, term, job, got, live, program, target, commands, faults, disturbed>>

\* wait_for_ready() of run_start and of ensure_daemon: any daemon will do.
Ready(c) ==
  /\ Found
  /\ \/ at[c] = "waiting" /\ Started(c)
     \/ at[c] = "ensuring" /\ Goes(c, "idle")
  /\ UNCHANGED <<pc, pred, files, term, task, program, target, commands, faults, disturbed>>

\* They wait for three seconds: a start that is under way ends before.
GiveUp(c) ==
  /\ at[c] \in {"waiting", "ensuring"} /\ ~Found
  /\ \A d \in Daemons : pc[d] \notin Starting
  /\ Goes(c, "failed")
  /\ UNCHANGED <<pc, pred, files, term, task, program, target, commands, faults, disturbed>>

\* What follows a run_stop that is successful.
Stopped(c) == Goes(c, CASE goal[c] = "restart" -> "starting" [] goal[c] = "update" -> "replacing" [] OTHER -> "idle")

\* run_stop(): no daemon.json, a pid that is dead, a daemon that does not answer for
\* its pid (the stop is refused, and with it a restart or an update), or one that gets a
\* SIGTERM.
Stop(c) ==
  /\ at[c] = "stopping"
  /\ \/ info = None /\ Stopped(c) /\ UNCHANGED <<term, target, disturbed>>
     \/ info # None /\ ~Alive(info) /\ Goes(c, "clearing") /\ UNCHANGED <<term, target, disturbed>>
     \/ info # None /\ Alive(info) /\ ~Found /\ Goes(c, "refused") /\ UNCHANGED <<term, target, disturbed>>
     \/ /\ Found /\ Goes(c, "ending")
        /\ term' = term \cup {info} /\ target' = [target EXCEPT ![c] = info] /\ disturbed' = TRUE
  /\ UNCHANGED <<pc, pred, files, task, program, commands, faults>>

\* daemon.json goes when the pid is seen dead, whatever it says by then; a daemon that
\* takes more than five seconds is killed.
Clear(c) ==
  /\ \/ at[c] = "clearing" /\ UNCHANGED <<pc, lock>>
     \/ at[c] = "ending" /\ ~Alive(target[c]) /\ UNCHANGED <<pc, lock>>
     \/ at[c] = "ending" /\ Alive(target[c]) /\ Ends(target[c])
  /\ info' = None /\ disturbed' = TRUE
  /\ Stopped(c) /\ target' = [target EXCEPT ![c] = None]
  /\ UNCHANGED <<pred, sock, term, task, program, commands, faults>>

\* install_candidate_with_client(): a daemon that runs is stopped first and started again
\* afterwards, unless the user does not want that; a download that fails ends the command.
Download(c) ==
  /\ at[c] = "downloading"
  /\ \/ c \notin stale /\ info # None /\ Alive(info) /\ Goes(c, "stopping")
     \/ c \notin stale /\ Goes(c, "installing")
     \/ Goes(c, "idle")
  /\ UNCHANGED <<pc, pred, files, term, task, program, target, commands, faults, disturbed>>

\* The binary is replaced, under this process as well, or that fails.
Install(c) ==
  /\ at[c] \in {"installing", "replacing"}
  /\ \/ binary' = want[c] /\ stale' = stale \cup Running /\ Goes(c, IF at[c] = "replacing" THEN "starting" ELSE "idle")
     \/ UNCHANGED <<binary, stale>> /\ Goes(c, "idle")
  /\ UNCHANGED <<pc, pred, files, term, task, release, target, commands, faults, disturbed>>

\* A newer version is published.
Release ==
  /\ release < MaxReleases /\ release' = release + 1
  /\ UNCHANGED <<pc, pred, files, term, task, binary, stale, clients, faults, disturbed>>

-----------------------------------------------------------------------------
\* Specification

DaemonStep(d) ==
  \/ TakeOver(d) \/ Lock(d) \/ Bind(d) \/ Publish(d)
  \/ Leave(d) \/ RemoveInfo(d) \/ RemoveSocket(d) \/ Unlock(d) \/ Exit(d)

TaskStep(d) == Check(d) \/ SelfInstall(d) \/ Respawn(d)

Disturbance(d) == PatienceEnds(d) \/ BindFails(d) \/ IdleOut(d) \/ Crash(d) \/ TaskFails(d)

ClientStep(c) ==
  \/ Look(c) \/ Start(c) \/ Ready(c) \/ GiveUp(c) \/ Stop(c) \/ Clear(c)
  \/ Download(c) \/ Install(c)

Next ==
  \/ \E d \in Daemons : DaemonStep(d) \/ TaskStep(d) \/ Disturbance(d) \/ SessionsChange(d)
  \/ \E c \in Clients :
       ClientStep(c) \/ Fetch(c) \/ \E what \in {"use", "start", "stop", "restart"} : Command(c, what)
  \/ Release

Spec == Init /\ [][Next]_vars

\* The processes run, and the update task ticks.
FairSpec == Spec /\ \A d \in Daemons : WF_vars(DaemonStep(d)) /\ WF_vars(TaskStep(d))

-----------------------------------------------------------------------------
\* Properties

\* The files, the processes and the commands have the values the code gives them.
TypeOK ==
  /\ pc \in [Daemons -> Starting \cup {"none", "serving", "leaving", "forgotten", "unlinked", "unlocked", "dead"}]
  /\ pred \in [Daemons -> Daemons \cup {None}]
  /\ {lock, sock, info} \subseteq Daemons \cup {None}
  /\ term \subseteq Daemons
  /\ at \in [Clients -> Ended \cup {"looking", "starting", "waiting", "ensuring",
                                   "stopping", "clearing", "ending", "downloading", "installing", "replacing"}]
  /\ goal \in [Clients -> {"none", "use", "start", "stop", "restart", "update"}]
  /\ target \in [Clients -> Daemons \cup {None}]
  /\ {release, binary} \subseteq 0 .. MaxReleases /\ stale \subseteq Clients /\ live \subseteq Daemons
  /\ {img, got} \subseteq [Daemons -> 0 .. MaxReleases] /\ want \in [Clients -> 0 .. MaxReleases]
  /\ job \in [Daemons -> {"idle", "loading", "installed", "over"}]
  /\ commands \in 0 .. MaxCommands /\ faults \in 0 .. MaxFaults /\ disturbed \in BOOLEAN

\* The socket path leads to the daemon that serves: nobody unlinks it under a daemon
\* that runs (ipc::bind and the end of run_foreground unlink whatever is there).
SocketIsServed == \A d \in Daemons : pc[d] = "serving" => sock = d

\* The pid in daemon.json, if it is alive, is that of the daemon that holds the lock and
\* that the socket path leads to: what run_stop confirms is what it signals.
DiscoveryIsSound == info # None /\ Alive(info) => lock = info /\ sock = info

\* A command that starts a daemon gets one, however many commands start one at the same
\* time and even while the daemon replaces itself; unless its own binary was replaced. (A
\* restart whose stop is refused does not come to start one: RestartsAreHeard.)
NoLockout == \A c \in Clients : at[c] = "failed" => disturbed \/ c \in stale

\* Nothing but a disturbance makes run_stop refuse a stop, a restart or an update. This does
\* not hold: a daemon that leaves for its replacement, or one that removes its files, does
\* not answer for its pid.
RestartsAreHeard == \A c \in Clients : at[c] = "refused" => disturbed

\* The daemons that serve a version older than r.
Older(r) == {d \in Daemons : pc[d] = "serving" /\ img[d] < r}

\* A new version comes to run by itself: when a daemon serves an older one, a daemon will
\* serve the new one, as long as there are no sessions (and, here, a process is left for it).
UpdateServes ==
  \A r \in 1 .. MaxReleases :
    release >= r /\ Older(r) # {}
      ~> \/ \E d \in Daemons : pc[d] = "serving" /\ img[d] >= r
         \/ disturbed \/ live # {}
         \/ Older(r) # {} /\ pc[MaxDaemons] # "none"

\* "While any agent session is live the tick postpones the install": a daemon that leaves
\* for its replacement takes no session along.
UpdateSparesSessions ==
  [][\A d \in Daemons : pc[d] = "serving" /\ pc'[d] = "leaving" /\ d \notin term => d \notin live]_vars

\* bsk update starts the daemon again that it has stopped.
UpdateRestarts ==
  [][\A c \in Clients : goal[c] = "update" /\ at[c] = "starting" => at'[c] # "failed"]_vars

\* An update installs no older version.
NoDowngrade == [][binary' >= binary]_vars

\* A daemon that serves is found: daemon.json is "the canonical `where is the running
\* daemon` discovery file". run_stop removes the file without the lock.
AlwaysDiscoverable == \A d \in Daemons : pc[d] = "serving" => info = d
===============================================================================
