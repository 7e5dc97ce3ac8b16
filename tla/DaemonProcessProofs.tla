--------------------------- MODULE DaemonProcessProofs ---------------------------
(***************************************************************************)
(* What the files of ~/.bsk say about the processes, for every number of   *)
(* processes, terminals, commands, releases and faults: SocketIsServed and *)
(* DiscoveryIsSound; and that a start succeeds, NoLockout.                 *)
(*                                                                         *)
(* The argument is the lock: a process holds it from the moment it has it  *)
(* until it has removed its files, or is dead. Whoever writes or unlinks a *)
(* file as a daemon holds the lock, so the files between the binding of a  *)
(* daemon and its end are its own.                                         *)
(* Whoever holds it serves or will, or has a replacement that waits for    *)
(* its end, as long as nothing was disturbed.                              *)
(***************************************************************************)
EXTENDS DaemonProcess, TLAPS

-----------------------------------------------------------------------------
\* Types

LEMMA TypeInit == Init => TypeOK
<1> SUFFICES ASSUME Init PROVE TypeOK
  OBVIOUS
<1>1. 1 \in Daemons /\ 0 \in 0 .. MaxReleases /\ 0 \in 0 .. MaxCommands /\ 0 \in 0 .. MaxFaults
  BY DaemonAssumption DEF Daemons
<1>2. /\ {lock, sock, info} \subseteq Daemons \cup {None}
      /\ pc \in [Daemons -> {"none", "serving"}] /\ pred \in [Daemons -> Daemons \cup {None}]
  BY <1>1 DEF Init
<1>3. /\ img \in [Daemons -> 0 .. MaxReleases] /\ got \in [Daemons -> 0 .. MaxReleases]
      /\ job \in [Daemons -> {"idle"}] /\ live \subseteq Daemons /\ term \subseteq Daemons
  BY <1>1 DEF Init
<1>4. /\ at \in [Clients -> {"idle"}] /\ goal \in [Clients -> {"none"}] /\ target \in [Clients -> Daemons \cup {None}]
      /\ want \in [Clients -> 0 .. MaxReleases] /\ stale \subseteq Clients
  BY <1>1 DEF Init
<1>5. release = 0 /\ binary = 0 /\ commands = 0 /\ faults = 0 /\ disturbed = FALSE
  BY DEF Init
<1> QED BY <1>1, <1>2, <1>3, <1>4, <1>5 DEF TypeOK, Starting, Ended

\* The steps of a daemon's start and end.
LEMMA TypeDaemon == ASSUME TypeOK, NEW d \in Daemons, DaemonStep(d) \/ SessionsChange(d) PROVE TypeOK'
<1> USE DEF TypeOK, Starting, files, clients, task, program
<1>1. CASE TakeOver(d)
  BY <1>1 DEF TakeOver
<1>2. CASE Lock(d)
  BY <1>2 DEF Lock
<1>3. CASE Bind(d)
  BY <1>3 DEF Bind
<1>4. CASE Publish(d)
  BY <1>4 DEF Publish
<1>5. CASE Leave(d)
  BY <1>5 DEF Leave
<1>6. CASE RemoveInfo(d)
  BY <1>6 DEF RemoveInfo
<1>7. CASE RemoveSocket(d)
  BY <1>7 DEF RemoveSocket
<1>8. CASE Unlock(d)
  BY <1>8 DEF Unlock
<1>9. CASE Exit(d)
  BY <1>9 DEF Exit
<1>10. CASE SessionsChange(d)
  BY <1>10 DEF SessionsChange
<1> QED BY <1>1, <1>2, <1>3, <1>4, <1>5, <1>6, <1>7, <1>8, <1>9, <1>10 DEF DaemonStep

LEMMA FaultCounts == ASSUME TypeOK, Fault PROVE faults' \in 0 .. MaxFaults /\ disturbed' \in BOOLEAN
BY DaemonAssumption DEF TypeOK, Fault

\* The update task, and what goes wrong.
LEMMA TypeTask == ASSUME TypeOK, NEW d \in Daemons, TaskStep(d) \/ Disturbance(d) PROVE TypeOK'
<1> USE DEF TypeOK, Starting, files, clients, task, program
<1>1. CASE Check(d)
  BY <1>1 DEF Check
<1>2. CASE SelfInstall(d)
  <2>1. got[d] \in 0 .. MaxReleases /\ 0 \in 0 .. MaxReleases /\ Running \subseteq Clients
    BY DaemonAssumption DEF Running
  <2> QED BY <1>2, <2>1 DEF SelfInstall
<1>3. CASE Respawn(d)
  BY <1>3 DEF Respawn
<1>4. CASE PatienceEnds(d)
  BY <1>4, FaultCounts DEF PatienceEnds
<1>5. CASE BindFails(d)
  BY <1>5, FaultCounts DEF BindFails, Ends
<1>6. CASE IdleOut(d)
  BY <1>6, FaultCounts DEF IdleOut
<1>7. CASE Crash(d)
  BY <1>7, FaultCounts DEF Crash, Ends
<1>8. CASE TaskFails(d)
  <2>1. 0 \in 0 .. MaxReleases
    BY DaemonAssumption
  <2> QED BY <1>8, <2>1, FaultCounts DEF TaskFails
<1> QED BY <1>1, <1>2, <1>3, <1>4, <1>5, <1>6, <1>7, <1>8 DEF TaskStep, Disturbance

Places == Ended \cup {"looking", "starting", "waiting", "ensuring",
                     "stopping", "clearing", "ending", "downloading", "installing", "replacing"}

LEMMA GoesType ==
  ASSUME TypeOK, NEW c \in Clients, NEW where \in Places, Goes(c, where)
  PROVE  /\ at' \in [Clients -> Places]
         /\ goal' \in [Clients -> {"none", "use", "start", "stop", "restart", "update"}]
         /\ want' \in [Clients -> 0 .. MaxReleases]
BY DaemonAssumption DEF TypeOK, Goes, Places

\* The steps of a command.
LEMMA TypeClient == ASSUME TypeOK, NEW c \in Clients, ClientStep(c) PROVE TypeOK'
<1> USE DEF files, clients, task, program
<1>1. ASSUME Look(c) \/ Ready(c) \/ GiveUp(c) \/ Download(c) PROVE TypeOK'
  <2>1. \E where \in Places : Goes(c, where)
    BY <1>1 DEF Look, Ready, GiveUp, Download, Started, Ended, Places
  <2>2. UNCHANGED <<pc, pred, files, term, task, program, target, commands, faults, disturbed>>
    BY <1>1 DEF Look, Ready, GiveUp, Download
  <2> QED BY <2>1, <2>2, GoesType DEF TypeOK, Places
<1>2. ASSUME Start(c) PROVE TypeOK'
  <2>1. \E where \in Places : Goes(c, where)
    BY <1>2 DEF Start, Started, Ended, Places
  <2>2. /\ pc' \in [Daemons -> Starting \cup {"none", "serving", "leaving", "forgotten", "unlinked", "unlocked", "dead"}]
        /\ img' \in [Daemons -> 0 .. MaxReleases]
    BY <1>2 DEF Start, TypeOK, Starting
  <2> QED BY <1>2, <2>1, <2>2, GoesType DEF Start, TypeOK, Places
<1>3. ASSUME Stop(c) PROVE TypeOK'
  <2>1. \E where \in Places : Goes(c, where)
    BY <1>3 DEF Stop, Stopped, Ended, Places
  <2>2. term' \subseteq Daemons /\ target' \in [Clients -> Daemons \cup {None}] /\ disturbed' \in BOOLEAN
    BY <1>3 DEF Stop, Found, TypeOK
  <2> QED BY <1>3, <2>1, <2>2, GoesType DEF Stop, TypeOK, Places
<1>4. ASSUME Clear(c) PROVE TypeOK'
  <2>1. \E where \in Places : Goes(c, where)
    BY <1>4 DEF Clear, Stopped, Ended, Places
  <2>2. /\ pc' \in [Daemons -> Starting \cup {"none", "serving", "leaving", "forgotten", "unlinked", "unlocked", "dead"}]
        /\ {lock', sock', info'} \subseteq Daemons \cup {None}
    BY <1>4 DEF Clear, Ends, TypeOK, Starting
  <2> QED BY <1>4, <2>1, <2>2, GoesType DEF Clear, TypeOK, Places
<1>5. ASSUME Install(c) PROVE TypeOK'
  <2>1. \E where \in Places : Goes(c, where)
    BY <1>5 DEF Install, Ended, Places
  <2>2. binary' \in 0 .. MaxReleases /\ stale' \subseteq Clients
    BY <1>5 DEF Install, Running, TypeOK
  <2> QED BY <1>5, <2>1, <2>2, GoesType DEF Install, TypeOK, Places
<1> QED BY <1>1, <1>2, <1>3, <1>4, <1>5 DEF ClientStep

\* A new command, a new release.
LEMMA TypeWorld ==
  ASSUME TypeOK, Release \/ \E c \in Clients : Fetch(c) \/ \E what \in {"use", "start", "stop", "restart"} : Command(c, what)
  PROVE  TypeOK'
<1> USE DaemonAssumption DEF TypeOK, files, clients, task, program
<1>1. CASE Release
  BY <1>1 DEF Release
<1>2. ASSUME NEW c \in Clients, Fetch(c) PROVE TypeOK'
  BY <1>2 DEF Fetch
<1>3. ASSUME NEW c \in Clients, NEW what \in {"use", "start", "stop", "restart"}, Command(c, what) PROVE TypeOK'
  BY <1>3 DEF Command
<1> QED BY <1>1, <1>2, <1>3

LEMMA TypeNext == TypeOK /\ [Next]_vars => TypeOK'
<1>1. ASSUME TypeOK, UNCHANGED vars PROVE TypeOK'
  BY <1>1 DEF vars, files, clients, task, program, TypeOK
<1> QED BY <1>1, TypeDaemon, TypeTask, TypeClient, TypeWorld DEF Next

\* Type correctness.
THEOREM ProcessTypes == Spec => []TypeOK
BY TypeInit, TypeNext, PTL DEF Spec

-----------------------------------------------------------------------------
\* The lock

Holding == {"locked", "bound", "serving", "leaving", "forgotten", "unlinked"}

\* The lock is that of the process that has it, and protects what is found at the socket
\* path and in daemon.json.
Row(d) ==
  /\ lock = d <=> pc[d] \in Holding
  /\ pc[d] \in {"bound", "serving", "leaving", "forgotten"} => sock = d
  /\ info = d => pc[d] \in {"serving", "leaving", "dead"}

LockInv == TypeOK /\ \A d \in Daemons : Row(d)

LEMMA LockInit == Init => LockInv
<1> SUFFICES ASSUME Init, NEW d \in Daemons PROVE Row(d)
  BY TypeInit DEF LockInv
<1> QED BY DaemonAssumption DEF Init, Row, Holding, Daemons

\* A process moves that does not have the lock, and does not get it.
LEMMA Outside ==
  ASSUME LockInv, TypeOK', NEW d \in Daemons, NEW to, pc' = [pc EXCEPT ![d] = to],
         pc[d] \notin Holding \cup {"dead"}, to \notin Holding, UNCHANGED <<sock, lock>>, info' \in {info, None}
  PROVE  LockInv'
BY DaemonAssumption DEF LockInv, Row, TypeOK, Holding

\* A process ends, from wherever it is.
LEMMA EndsKeeps ==
  ASSUME LockInv, TypeOK', NEW d \in Daemons \cup {None}, Ends(d), sock' = sock, info' \in {info, None}
  PROVE  LockInv'
BY DaemonAssumption DEF LockInv, Row, TypeOK, Holding, Ends

\* The steps of a start and of an end.
LEMMA LockDaemon == ASSUME LockInv, TypeOK', NEW d \in Daemons, DaemonStep(d) PROVE LockInv'
<1>1. CASE TakeOver(d) \/ Exit(d)
  BY <1>1, Outside DEF TakeOver, Exit, Holding, files
<1>2. CASE Lock(d)
  BY <1>2, DaemonAssumption DEF Lock, LockInv, Row, TypeOK, Holding
<1>3. CASE Bind(d)
  BY <1>3, DaemonAssumption DEF Bind, LockInv, Row, TypeOK, Holding
<1>4. CASE Publish(d)
  BY <1>4, DaemonAssumption DEF Publish, LockInv, Row, TypeOK, Holding
<1>5. CASE Leave(d)
  BY <1>5, DaemonAssumption DEF Leave, files, LockInv, Row, TypeOK, Holding
<1>6. CASE RemoveInfo(d)
  BY <1>6, DaemonAssumption DEF RemoveInfo, LockInv, Row, TypeOK, Holding
<1>7. CASE RemoveSocket(d)
  BY <1>7, DaemonAssumption DEF RemoveSocket, LockInv, Row, TypeOK, Holding
<1>8. CASE Unlock(d)
  BY <1>8, DaemonAssumption DEF Unlock, LockInv, Row, TypeOK, Holding
<1> QED BY <1>1, <1>2, <1>3, <1>4, <1>5, <1>6, <1>7, <1>8 DEF DaemonStep

\* No file, no process but one that waits or is new.
LEMMA Untouched ==
  ASSUME LockInv, TypeOK', UNCHANGED <<lock, sock>>, info' \in {info, None}, pc' = pc
  PROVE  LockInv'
BY DaemonAssumption DEF LockInv, Row, TypeOK

\* A process is spawned.
LEMMA SpawnKeeps ==
  ASSUME LockInv, TypeOK', NEW d \in Daemons, New(d), NEW to \in {"spawned", "waiting"}, pc' = [pc EXCEPT ![d] = to],
         UNCHANGED files
  PROVE  LockInv'
BY Outside DEF New, Holding, files

\* The update task, faults and sessions.
LEMMA LockTask == ASSUME LockInv, TypeOK', NEW d \in Daemons, TaskStep(d) \/ Disturbance(d) \/ SessionsChange(d) PROVE LockInv'
<1>1. CASE Check(d) \/ SelfInstall(d) \/ TaskFails(d) \/ SessionsChange(d)
  BY <1>1, Untouched DEF Check, SelfInstall, TaskFails, SessionsChange, files
<1>2. CASE Respawn(d)
  BY <1>2, SpawnKeeps DEF Respawn
<1>3. CASE PatienceEnds(d)
  BY <1>3, Outside DEF PatienceEnds, Holding, files
<1>4. CASE BindFails(d) \/ Crash(d)
  BY <1>4, EndsKeeps DEF BindFails, Crash
<1>5. CASE IdleOut(d)
  BY <1>5, DaemonAssumption DEF IdleOut, files, LockInv, Row, TypeOK, Holding
<1> QED BY <1>1, <1>2, <1>3, <1>4, <1>5 DEF TaskStep, Disturbance

\* Commands spawn, stop and kill daemons, and remove daemon.json without the lock.
LEMMA LockClient == ASSUME LockInv, TypeOK', NEW c \in Clients, ClientStep(c) PROVE LockInv'
<1>1. CASE Look(c) \/ Ready(c) \/ GiveUp(c) \/ Stop(c) \/ Download(c) \/ Install(c)
  BY <1>1, Untouched DEF Look, Ready, GiveUp, Stop, Download, Install, files
<1>2. CASE Start(c)
  BY <1>2, Untouched, SpawnKeeps DEF Start, files
<1>3. CASE Clear(c)
  <2>1. target[c] \in Daemons \cup {None}
    BY DEF LockInv, TypeOK
  <2>2. sock' = sock /\ info' \in {info, None} /\ (UNCHANGED <<pc, lock>> \/ Ends(target[c]))
    BY <1>3 DEF Clear
  <2> QED BY <2>1, <2>2, Untouched, EndsKeeps
<1> QED BY <1>1, <1>2, <1>3 DEF ClientStep

LEMMA LockNext == LockInv /\ [Next]_vars => LockInv'
<1> SUFFICES ASSUME LockInv, [Next]_vars PROVE LockInv'
  OBVIOUS
<1>1. TypeOK'
  BY TypeNext DEF LockInv
<1>2. CASE UNCHANGED vars \/ Release \/ \E c \in Clients : Fetch(c) \/ \E what \in {"use", "start", "stop", "restart"} : Command(c, what)
  BY <1>1, <1>2, Untouched DEF vars, files, Release, Fetch, Command
<1> QED BY <1>1, <1>2, LockDaemon, LockTask, LockClient DEF Next

-----------------------------------------------------------------------------
\* Starts

\* A command that waits will find a daemon, or one that starts.
OnTheWay == Found \/ \E d \in Daemons : pc[d] \in Starting

\* As long as nothing was disturbed, a daemon that serves is the one to be found, and
\* who leaves does so for a replacement that waits for it.
Succession ==
  /\ term = {}
  /\ \A d \in Daemons : pc[d] = "serving" => info = d
  /\ \A r \in Daemons : pred[r] # None /\ pc[pred[r]] # "dead" => pc[r] = "waiting"
  /\ \A d \in Daemons : pc[d] \in {"leaving", "forgotten", "unlinked"} => \E r \in Daemons : pred[r] = d

LockoutInv ==
  /\ LockInv
  /\ \A r \in Daemons : pred[r] # None => pc[r] # "none" /\ pc[pred[r]] # "none"
  /\ ~disturbed => Succession /\ \A c \in Clients : at[c] \in {"waiting", "ensuring"} => OnTheWay
  /\ NoLockout

\* Nothing undoes a disturbance.
LEMMA StaysDisturbed == ASSUME TypeOK, [Next]_vars, disturbed PROVE disturbed'
<1>1. ASSUME NEW d \in Daemons, DaemonStep(d) \/ SessionsChange(d) PROVE disturbed'
  BY <1>1 DEF DaemonStep, SessionsChange, TakeOver, Lock, Bind, Publish, Leave, RemoveInfo, RemoveSocket, Unlock, Exit
<1>2. ASSUME NEW d \in Daemons, TaskStep(d) \/ Disturbance(d) PROVE disturbed'
  BY <1>2 DEF TaskStep, Disturbance, Check, SelfInstall, Respawn, PatienceEnds, BindFails, IdleOut, Crash, TaskFails, Fault
<1>3. ASSUME NEW c \in Clients, ClientStep(c) PROVE disturbed'
  BY <1>3 DEF ClientStep, Look, Start, Ready, GiveUp, Stop, Clear, Download, Install
<1>4. CASE UNCHANGED vars \/ Release \/ \E c \in Clients : Fetch(c) \/ \E what \in {"use", "start", "stop", "restart"} : Command(c, what)
  BY <1>4 DEF vars, Release, Fetch, Command
<1> QED BY <1>1, <1>2, <1>3, <1>4 DEF Next

\* A step without a disturbance: a daemon goes on, a process is spawned, or no process moves.
DaemonMove(d) ==
  /\ \/ pc[d] = "waiting" /\ pc' = [pc EXCEPT ![d] = "spawned"] /\ pc[pred[d]] = "dead" /\ UNCHANGED files
     \/ pc[d] = "spawned" /\ pc' = [pc EXCEPT ![d] = "locked"] /\ lock' = d /\ UNCHANGED <<sock, info>>
     \/ pc[d] = "spawned" /\ pc' = [pc EXCEPT ![d] = "dead"] /\ lock # None /\ UNCHANGED files
     \/ pc[d] = "locked" /\ pc' = [pc EXCEPT ![d] = "bound"] /\ sock' = d /\ UNCHANGED <<lock, info>>
     \/ pc[d] = "bound" /\ pc' = [pc EXCEPT ![d] = "serving"] /\ info' = d /\ UNCHANGED <<lock, sock>>
     \/ pc[d] = "serving" /\ pc' = [pc EXCEPT ![d] = "leaving"] /\ (d \in term \cup Replaced) /\ UNCHANGED files
     \/ pc[d] = "leaving" /\ pc' = [pc EXCEPT ![d] = "forgotten"] /\ info' = None /\ UNCHANGED <<lock, sock>>
     \/ pc[d] = "forgotten" /\ pc' = [pc EXCEPT ![d] = "unlinked"] /\ sock' = None /\ UNCHANGED <<lock, info>>
     \/ pc[d] = "unlinked" /\ pc' = [pc EXCEPT ![d] = "unlocked"] /\ UNCHANGED <<sock, info>>
     \/ pc[d] = "unlocked" /\ pc' = [pc EXCEPT ![d] = "dead"] /\ UNCHANGED files
  /\ UNCHANGED <<pred, at, stale>>

Spawn(r, to) == pc[r] = "none" /\ pc' = [pc EXCEPT ![r] = to] /\ UNCHANGED files

Spawned ==
  \/ \E r \in Daemons : Spawn(r, "spawned") /\ pred' = pred
  \/ \E r, d \in Daemons :
       /\ Spawn(r, "waiting") /\ pc[d] \in {"serving", "leaving"}
       /\ pred' = [pred EXCEPT ![r] = d] /\ UNCHANGED <<at, stale>>

LEMMA CalmMoves ==
  ASSUME TypeOK, [Next]_vars, ~disturbed'
  PROVE  /\ \/ \E d \in Daemons : DaemonMove(d)
            \/ Spawned
            \/ UNCHANGED <<pc, pred, files>>
         /\ term' = term
<1> DEFINE Calm == /\ \/ \E d \in Daemons : DaemonMove(d)
                      \/ Spawned
                      \/ UNCHANGED <<pc, pred, files>>
                   /\ term' = term
<1>1. ASSUME NEW d \in Daemons, DaemonStep(d) PROVE DaemonMove(d) /\ term' = term
  BY <1>1 DEF DaemonStep, TakeOver, Lock, Bind, Publish, Leave, RemoveInfo, RemoveSocket, Unlock, Exit,
              DaemonMove, files, clients, program
<1>2. ASSUME NEW d \in Daemons, TaskStep(d) \/ SessionsChange(d) PROVE Calm
  <2>1. CASE Respawn(d)
    BY <2>1 DEF Respawn, New, Spawned, Spawn, clients, program
  <2>2. CASE Check(d) \/ SelfInstall(d) \/ SessionsChange(d)
    BY <2>2 DEF Check, SelfInstall, SessionsChange
  <2> QED BY <1>2, <2>1, <2>2 DEF TaskStep
<1>3. ASSUME NEW d \in Daemons, Disturbance(d) PROVE FALSE
  BY <1>3 DEF Disturbance, PatienceEnds, BindFails, IdleOut, Crash, TaskFails, Fault
<1>4. ASSUME NEW c \in Clients, ClientStep(c) PROVE Calm
  <2>1. CASE Start(c)
    BY <2>1 DEF Start, New, Spawned, Spawn
  <2>2. CASE Stop(c) \/ Clear(c)
    BY <2>2 DEF Stop, Clear
  <2>3. CASE Look(c) \/ Ready(c) \/ GiveUp(c) \/ Download(c) \/ Install(c)
    BY <2>3 DEF Look, Ready, GiveUp, Download, Install
  <2> QED BY <1>4, <2>1, <2>2, <2>3 DEF ClientStep
<1>5. CASE UNCHANGED vars \/ Release \/ \E c \in Clients : Fetch(c) \/ \E what \in {"use", "start", "stop", "restart"} : Command(c, what)
  BY <1>5 DEF vars, Release, Fetch, Command
<1> QED BY <1>1, <1>2, <1>3, <1>4, <1>5 DEF Next

\* A replacement and its predecessor were spawned.
LEMMA PredNext ==
  ASSUME TypeOK, \A r \in Daemons : pred[r] # None => pc[r] # "none" /\ pc[pred[r]] # "none", [Next]_vars
  PROVE  \A r \in Daemons : pred'[r] # None => pc'[r] # "none" /\ pc'[pred'[r]] # "none"
<1> DEFINE Known == \A r \in Daemons : pred'[r] # None => pc'[r] # "none" /\ pc'[pred'[r]] # "none"
<1>0. /\ pred \in [Daemons -> Daemons \cup {None}]
      /\ pc \in [Daemons -> Starting \cup {"none", "serving", "leaving", "forgotten", "unlinked", "unlocked", "dead"}]
  BY DEF TypeOK
<1>1. ASSUME pred' = pred, NEW d, NEW to, to # "none", pc' = [pc EXCEPT ![d] = to] PROVE Known
  BY <1>0, <1>1
<1>2. ASSUME UNCHANGED <<pc, pred>> PROVE Known
  BY <1>0, <1>2
<1>3. ASSUME NEW d \in Daemons, DaemonStep(d) PROVE Known
  <2>1. pred' = pred /\ \E to : to # "none" /\ pc' = [pc EXCEPT ![d] = to]
    BY <1>3 DEF DaemonStep, TakeOver, Lock, Bind, Publish, Leave, RemoveInfo, RemoveSocket, Unlock, Exit
  <2> QED BY <1>1, <2>1
<1>4. ASSUME NEW d \in Daemons, TaskStep(d) \/ Disturbance(d) \/ SessionsChange(d) PROVE Known
  <2>1. CASE Respawn(d)
    BY <1>0, <2>1 DEF Respawn, New
  <2>2. CASE Check(d) \/ SelfInstall(d) \/ TaskFails(d) \/ SessionsChange(d)
    BY <1>2, <2>2 DEF Check, SelfInstall, TaskFails, SessionsChange
  <2>3. CASE PatienceEnds(d) \/ BindFails(d) \/ IdleOut(d) \/ Crash(d)
    <3>1. pred' = pred /\ \E to : to # "none" /\ pc' = [pc EXCEPT ![d] = to]
      BY <2>3 DEF PatienceEnds, BindFails, IdleOut, Crash, Ends
    <3> QED BY <1>1, <3>1
  <2> QED BY <1>4, <2>1, <2>2, <2>3 DEF TaskStep, Disturbance
<1>5. ASSUME NEW c \in Clients, ClientStep(c) PROVE Known
  <2>1. pred' = pred /\ (pc' = pc \/ \E d, to : to # "none" /\ pc' = [pc EXCEPT ![d] = to])
    BY <1>5 DEF ClientStep, Look, Start, Ready, GiveUp, Stop, Clear, Download, Install, Ends
  <2> QED BY <1>1, <1>2, <2>1
<1>6. CASE UNCHANGED vars \/ Release \/ \E c \in Clients : Fetch(c) \/ \E what \in {"use", "start", "stop", "restart"} : Command(c, what)
  BY <1>2, <1>6 DEF vars, Release, Fetch, Command
<1> QED BY <1>3, <1>4, <1>5, <1>6 DEF Next

LEMMA SuccessionNext ==
  ASSUME LockInv, Succession, [Next]_vars, ~disturbed',
         \A r \in Daemons : pred[r] # None => pc[r] # "none" /\ pc[pred[r]] # "none"
  PROVE  Succession'
<1>0. /\ pred \in [Daemons -> Daemons \cup {None}] /\ None \notin Daemons
      /\ pc \in [Daemons -> Starting \cup {"none", "serving", "leaving", "forgotten", "unlinked", "unlocked", "dead"}]
  BY DaemonAssumption DEF LockInv, TypeOK
<1>1. term' = {}
  BY CalmMoves DEF Succession, LockInv
<1>2. CASE UNCHANGED <<pc, pred, files>>
  BY <1>1, <1>2 DEF Succession, files
<1>3. CASE Spawned
  <2>1. ASSUME NEW r \in Daemons, Spawn(r, "spawned"), pred' = pred PROVE Succession'
    BY <1>0, <1>1, <2>1 DEF Succession, Spawn, files
  <2>2. ASSUME NEW r \in Daemons, NEW d \in Daemons, Spawn(r, "waiting"), pc[d] \in {"serving", "leaving"},
               pred' = [pred EXCEPT ![r] = d]
        PROVE  Succession'
    <3>1. pred[r] = None
      BY <1>0, <2>2 DEF Spawn
    <3>2. \A e \in Daemons : pc'[e] \in {"serving", "leaving", "forgotten", "unlinked"} => pc'[e] = pc[e]
      BY <1>0, <2>2 DEF Spawn
    <3>3. \A e \in Daemons : pc'[e] = "serving" => info' = e
      BY <2>2, <3>2 DEF Succession, Spawn, files
    <3>4. \A e \in Daemons : pc'[e] \in {"leaving", "forgotten", "unlinked"} => \E q \in Daemons : pred'[q] = e
      <4>1. ASSUME NEW e \in Daemons, pc'[e] \in {"leaving", "forgotten", "unlinked"}
            PROVE  \E q \in Daemons : pred'[q] = e
        <5>1. PICK q \in Daemons : pred[q] = e
          BY <3>2, <4>1 DEF Succession
        <5>2. pred'[q] = e
          BY <1>0, <2>2, <3>1, <5>1
        <5> QED BY <5>2
      <4> QED BY <4>1
    <3>5. \A q \in Daemons : pred'[q] # None /\ pc'[pred'[q]] # "dead" => pc'[q] = "waiting"
      <4>1. ASSUME NEW q \in Daemons, q # r, pred'[q] # None, pc'[pred'[q]] # "dead" PROVE pc'[q] = "waiting"
        <5>1. pred[q] = pred'[q] /\ pred[q] \in Daemons /\ pc'[q] = pc[q]
          BY <1>0, <2>2, <4>1 DEF Spawn
        <5>2. pc[pred[q]] # "dead"
          BY <1>0, <2>2, <4>1, <5>1 DEF Spawn
        <5> QED BY <4>1, <5>1, <5>2 DEF Succession
      <4>2. pc'[r] = "waiting"
        BY <1>0, <2>2 DEF Spawn
      <4> QED BY <4>1, <4>2
    <3> QED BY <1>1, <3>3, <3>4, <3>5 DEF Succession
  <2> QED BY <1>3, <2>1, <2>2 DEF Spawned
<1>4. ASSUME NEW d \in Daemons, DaemonMove(d) PROVE Succession'
  <2>0. pred' = pred /\ \A e \in Daemons : e # d => pc'[e] = pc[e]
    BY <1>0, <1>4 DEF DaemonMove
  <2>1. \A e \in Daemons : pc'[e] = "serving" => info' = e
    <3>1. ASSUME NEW e \in Daemons, e # d, pc[e] = "serving" PROVE pc[d] \notin Holding
      BY <3>1, DaemonAssumption DEF LockInv, Row, Holding
    <3>2. pc[d] \notin Holding => info' = info
      BY <1>4 DEF DaemonMove, Holding, files
    <3>3. pc'[d] = "serving" => info' = d
      BY <1>0, <1>4 DEF DaemonMove
    <3> QED BY <2>0, <3>1, <3>2, <3>3 DEF Succession
  <2>2. \A q \in Daemons : pred'[q] # None /\ pc'[pred'[q]] # "dead" => pc'[q] = "waiting"
    <3>1. ASSUME NEW q \in Daemons, pred[q] # None, pc'[pred[q]] # "dead" PROVE pc'[q] = "waiting"
      <4>1. pred[q] \in Daemons /\ pc[pred[q]] # "dead"
        BY <1>0, <1>4, <3>1 DEF DaemonMove
      <4>2. pc[q] = "waiting"
        BY <3>1, <4>1 DEF Succession
      <4>3. q # d
        BY <1>4, <4>1, <4>2 DEF DaemonMove
      <4> QED BY <2>0, <4>2, <4>3
    <3> QED BY <2>0, <3>1
  <2>3. \A e \in Daemons : pc'[e] \in {"leaving", "forgotten", "unlinked"} => \E q \in Daemons : pred'[q] = e
    <3>1. pc'[d] \in {"leaving", "forgotten", "unlinked"} =>
            pc[d] \in {"leaving", "forgotten"} \/ d \in Replaced
      BY <1>0, <1>4 DEF DaemonMove, Succession
    <3>2. d \in Replaced => \E q \in Daemons : pred[q] = d
      BY DEF Replaced
    <3> QED BY <2>0, <3>1, <3>2 DEF Succession
  <2> QED BY <1>1, <2>1, <2>2, <2>3 DEF Succession
<1> QED BY <1>2, <1>3, <1>4, CalmMoves DEF LockInv

\* Whoever has the lock will serve, serves, or leaves for one that waits.
LEMMA HolderServes == LockInv /\ Succession /\ lock # None => OnTheWay
<1> SUFFICES ASSUME LockInv, Succession, lock # None PROVE OnTheWay
  OBVIOUS
<1>1. lock \in Daemons /\ pc[lock] \in Holding /\ Row(lock)
  BY DEF LockInv, TypeOK, Row
<1>2. CASE pc[lock] \in {"locked", "bound"}
  BY <1>1, <1>2 DEF OnTheWay, Starting
<1>3. CASE pc[lock] = "serving"
  BY <1>1, <1>3, DaemonAssumption DEF OnTheWay, Found, Succession, Row
<1>4. CASE pc[lock] \in {"leaving", "forgotten", "unlinked"}
  <2>1. PICK r \in Daemons : pred[r] = lock
    BY <1>1, <1>4 DEF Succession
  <2>2. pc[r] = "waiting"
    BY <1>4, <2>1 DEF Succession
  <2> QED BY <2>2 DEF OnTheWay, Starting
<1> QED BY <1>1, <1>2, <1>3, <1>4 DEF Holding

LEMMA OnTheWayNext ==
  ASSUME LockInv, Succession, OnTheWay, LockInv', Succession', [Next]_vars, ~disturbed'
  PROVE  OnTheWay'
<1>0. /\ pc \in [Daemons -> Starting \cup {"none", "serving", "leaving", "forgotten", "unlinked", "unlocked", "dead"}]
      /\ lock \in Daemons \cup {None} /\ None \notin Daemons
  BY DaemonAssumption DEF LockInv, TypeOK
<1>1. CASE lock' # None
  <2>1. (LockInv /\ Succession /\ lock # None => OnTheWay)'
    BY HolderServes, PTL
  <2> QED BY <1>1, <2>1
<1>2. CASE lock' = None /\ lock # None
  <2>1. PICK d \in Daemons : DaemonMove(d) /\ pc[d] = "unlinked" /\ pc' = [pc EXCEPT ![d] = "unlocked"]
    BY <1>0, <1>2, CalmMoves DEF DaemonMove, Spawned, Spawn, files, LockInv
  <2>2. PICK r \in Daemons : pred[r] = d
    BY <2>1 DEF Succession
  <2>3. pc[r] = "waiting" /\ r # d
    BY <1>0, <2>1, <2>2 DEF Succession
  <2> QED BY <1>0, <2>1, <2>3 DEF OnTheWay, Starting
<1>3. CASE lock' = None /\ lock = None
  <2>1. ~Found
    BY <1>0, <1>3 DEF Found, LockInv, TypeOK, Row, Holding
  <2>2. PICK e \in Daemons : pc[e] \in Starting
    BY <2>1 DEF OnTheWay
  <2>3. pc[e] \in {"waiting", "spawned"}
    BY <1>0, <1>3, <2>2 DEF LockInv, Row, Holding, Starting
  <2>4. pc'[e] \in {"waiting", "spawned"}
    <3>1. CASE UNCHANGED pc
      BY <2>3, <3>1
    <3>2. CASE Spawned
      BY <1>0, <2>3, <3>2 DEF Spawned, Spawn
    <3>3. ASSUME NEW d \in Daemons, DaemonMove(d) PROVE pc'[e] \in {"waiting", "spawned"}
      BY <1>0, <1>3, <2>3, <3>3 DEF DaemonMove
    <3> QED BY <3>1, <3>2, <3>3, CalmMoves DEF LockInv
  <2> QED BY <2>4 DEF OnTheWay, Starting
<1> QED BY <1>1, <1>2, <1>3

\* A command begins to wait when there is a daemon or it has spawned one; it gives up when
\* there is neither, and fails otherwise if its binary is gone.
WaitMove(c) ==
  /\ at'[c] \in {"waiting", "ensuring"} => at[c] \in {"waiting", "ensuring"} \/ OnTheWay \/ OnTheWay'
  /\ at'[c] = "failed" => \/ at[c] = "failed" /\ (c \in stale => c \in stale')
                          \/ c \in stale'
                          \/ at[c] \in {"waiting", "ensuring"} /\ ~OnTheWay

LEMMA WaitingMoves ==
  ASSUME TypeOK, [Next]_vars, ~disturbed', NEW c \in Clients
  PROVE  WaitMove(c)
<1>0. at \in [Clients -> Places] /\ pc \in [Daemons -> Starting \cup {"none", "serving", "leaving", "forgotten", "unlinked", "unlocked", "dead"}]
  BY DEF TypeOK, Places
<1>1. ASSUME at'[c] = at[c], stale \subseteq stale' PROVE WaitMove(c)
  BY <1>1 DEF WaitMove
<1>2. ASSUME NEW d \in Daemons, DaemonStep(d) \/ TaskStep(d) \/ Disturbance(d) \/ SessionsChange(d)
      PROVE  at' = at /\ stale \subseteq stale'
  <2>1. CASE DaemonStep(d)
    BY <2>1 DEF DaemonStep, TakeOver, Lock, Bind, Publish, Leave, RemoveInfo, RemoveSocket, Unlock, Exit, clients, program
  <2>2. CASE TaskStep(d) \/ Disturbance(d) \/ SessionsChange(d)
    BY <2>2 DEF TaskStep, Disturbance, Check, SelfInstall, Respawn, PatienceEnds, BindFails, IdleOut, Crash, TaskFails,
                SessionsChange, clients, program
  <2> QED BY <1>2, <2>1, <2>2
<1>3. ASSUME NEW x \in Clients, x # c, \/ ClientStep(x) \/ Fetch(x)
                                      \/ \E what \in {"use", "start", "stop", "restart"} : Command(x, what)
      PROVE  at'[c] = at[c] /\ (c \in stale => c \in stale')
  <2>1. /\ \E where : at' = [at EXCEPT ![x] = where]
        /\ c \in stale => c \in stale'
    BY <1>3 DEF ClientStep, Look, Start, Ready, GiveUp, Stop, Clear, Download, Install, Fetch, Command,
                Goes, Started, Stopped, program
  <2> QED BY <1>0, <1>3, <2>1
<1>4. CASE ClientStep(c)
  <2>1. CASE Look(c)
    <3>1. \E where \in {"idle", "failed", "starting"} :
             at' = [at EXCEPT ![c] = where] /\ (where = "failed" => c \in stale)
      BY <2>1 DEF Look, Goes
    <3>2. stale' = stale
      BY <2>1 DEF Look, program
    <3> QED BY <1>0, <3>1, <3>2 DEF WaitMove
  <2>2. CASE Start(c)
    <3>1. stale' = stale
      BY <2>2 DEF Start, program
    <3>2. CASE Found /\ Started(c)
      <4>1. at'[c] \in {"ensuring", "idle"}
        BY <1>0, <3>2 DEF Started, Goes
      <4> QED BY <3>2, <4>1 DEF WaitMove, OnTheWay
    <3>3. CASE c \in stale /\ Goes(c, "failed")
      <4>1. at'[c] = "failed"
        BY <1>0, <3>3 DEF Goes
      <4> QED BY <3>1, <3>3, <4>1 DEF WaitMove
    <3>4. CASE Goes(c, "waiting") /\ \E d \in Daemons : pc' = [pc EXCEPT ![d] = "spawned"]
      <4>1. at'[c] = "waiting" /\ \E d \in Daemons : pc'[d] \in Starting
        BY <1>0, <3>4 DEF Goes, Starting
      <4> QED BY <4>1 DEF WaitMove, OnTheWay
    <3> QED BY <2>2, <3>2, <3>3, <3>4 DEF Start
  <2>3. CASE Ready(c)
    <3>1. at[c] \in {"waiting", "ensuring"} /\ at'[c] \in {"ensuring", "idle"}
      BY <1>0, <2>3 DEF Ready, Started, Goes
    <3> QED BY <3>1 DEF WaitMove
  <2>4. CASE GiveUp(c)
    <3>1. at[c] \in {"waiting", "ensuring"} /\ ~OnTheWay /\ at'[c] = "failed"
      BY <1>0, <2>4 DEF GiveUp, Goes, OnTheWay
    <3> QED BY <3>1 DEF WaitMove
  <2>5. CASE Stop(c) \/ Clear(c) \/ Download(c) \/ Install(c)
    <3>1. \E where \in Places \ {"waiting", "ensuring", "failed"} : at' = [at EXCEPT ![c] = where]
      BY <2>5 DEF Stop, Clear, Download, Install, Stopped, Goes, Ended, Places
    <3> QED BY <1>0, <3>1 DEF WaitMove
  <2> QED BY <1>4, <2>1, <2>2, <2>3, <2>4, <2>5 DEF ClientStep
<1>5. CASE Fetch(c) \/ \E what \in {"use", "start", "stop", "restart"} : Command(c, what)
  <2>1. \E where \in Places \ {"waiting", "ensuring", "failed"} : at' = [at EXCEPT ![c] = where]
    BY <1>5 DEF Fetch, Command, Ended, Places
  <2> QED BY <1>0, <2>1 DEF WaitMove
<1>6. CASE UNCHANGED vars \/ Release
  BY <1>1, <1>6 DEF vars, Release, clients, program
<1>7. ASSUME NEW d \in Daemons, DaemonStep(d) \/ TaskStep(d) \/ Disturbance(d) \/ SessionsChange(d) PROVE WaitMove(c)
  BY <1>1, <1>2, <1>7
<1>8. ASSUME NEW x \in Clients, \/ ClientStep(x) \/ Fetch(x)
                               \/ \E what \in {"use", "start", "stop", "restart"} : Command(x, what)
      PROVE  WaitMove(c)
  <2>1. CASE x # c
    BY <1>3, <1>8, <2>1 DEF WaitMove
  <2>2. CASE x = c
    BY <1>4, <1>5, <1>8, <2>2
  <2> QED BY <2>1, <2>2
<1> QED BY <1>6, <1>7, <1>8 DEF Next

LEMMA LockoutInit == Init => LockoutInv
<1> SUFFICES ASSUME Init PROVE LockoutInv
  OBVIOUS
<1>1. \A d \in Daemons : pred[d] = None /\ pc[d] \in {"none", "serving"} /\ (pc[d] = "serving" => info = d)
  BY DaemonAssumption DEF Init, Daemons
<1>2. term = {} /\ \A c \in Clients : at[c] = "idle"
  BY DEF Init
<1> QED BY <1>1, <1>2, LockInit DEF LockoutInv, Succession, NoLockout

LEMMA LockoutNext == LockoutInv /\ [Next]_vars => LockoutInv'
<1> SUFFICES ASSUME LockoutInv, [Next]_vars PROVE LockoutInv'
  OBVIOUS
<1>1. LockInv /\ TypeOK /\ LockInv' /\ \A r \in Daemons : pred'[r] # None => pc'[r] # "none" /\ pc'[pred'[r]] # "none"
  BY LockNext, PredNext DEF LockoutInv, LockInv
<1>2. CASE disturbed'
  BY <1>1, <1>2 DEF LockoutInv, NoLockout
<1>3. CASE ~disturbed'
  <2>1. ~disturbed
    BY <1>1, <1>3, StaysDisturbed
  <2>2. Succession /\ \A c \in Clients : at[c] \in {"waiting", "ensuring"} => OnTheWay
    BY <2>1 DEF LockoutInv
  <2>3. Succession'
    BY <1>1, <1>3, <2>2, SuccessionNext DEF LockoutInv
  <2>4. OnTheWay => OnTheWay'
    BY <1>1, <1>3, <2>2, <2>3, OnTheWayNext
  <2>5. ASSUME NEW c \in Clients
        PROVE  /\ at'[c] \in {"waiting", "ensuring"} => OnTheWay'
               /\ at'[c] = "failed" => c \in stale'
    <3>1. WaitMove(c)
      BY <1>1, <1>3, WaitingMoves
    <3>2. at[c] = "failed" => c \in stale
      BY <2>1 DEF LockoutInv, NoLockout
    <3> QED BY <2>2, <2>4, <3>1, <3>2 DEF WaitMove
  <2> QED BY <1>1, <1>3, <2>3, <2>5 DEF LockoutInv, NoLockout
<1> QED BY <1>2, <1>3

-----------------------------------------------------------------------------
\* The results

\* No daemon that serves is cut off from its socket path, by whatever starts, crashes,
\* replacements and stops there are.
THEOREM ServedSocket == Spec => []SocketIsServed
<1>1. LockInv => SocketIsServed
  BY DEF LockInv, Row, SocketIsServed
<1> QED BY <1>1, LockInit, LockNext, PTL DEF Spec

\* The process that daemon.json names, if it is alive, holds the lock and the socket path.
THEOREM SoundDiscovery == Spec => []DiscoveryIsSound
<1>1. LockInv => DiscoveryIsSound
  BY DEF LockInv, Row, TypeOK, DiscoveryIsSound, Alive, Holding
<1> QED BY <1>1, LockInit, LockNext, PTL DEF Spec

\* Whoever starts a daemon gets one, however many start one at the same time and however
\* often it replaces itself, unless something was disturbed or his own binary is gone.
THEOREM NobodyLockedOut == Spec => []NoLockout
<1>1. LockoutInv => NoLockout
  BY DEF LockoutInv
<1> QED BY <1>1, LockoutInit, LockoutNext, PTL DEF Spec

-----------------------------------------------------------------------------
\* Discovery while commands remove the files of dead processes only

\* The condition: the file that a stop removes is that of a process that is dead by then.
\* (It has seen one that is dead, or killed it; the file may be of another since.)
ClearsDead == \A c \in Clients : Clear(c) => info = None \/ pc'[info] = "dead"

\* Who comes to serve has published itself.
LEMMA ServesByPublishing ==
  ASSUME TypeOK, [Next]_vars, NEW d \in Daemons, pc'[d] = "serving" PROVE pc[d] = "serving" \/ Publish(d)
<1> USE DEF TypeOK, Starting
<1>1. CASE UNCHANGED vars \/ Release \/ \E c \in Clients : Fetch(c) \/ \E what \in {"use", "start", "stop", "restart"} : Command(c, what)
  BY <1>1 DEF vars, Release, Fetch, Command
<1>2. ASSUME NEW c \in Clients, ClientStep(c) PROVE pc[d] = "serving"
  BY <1>2 DEF ClientStep, Look, Start, Ready, GiveUp, Stop, Clear, Download, Install, Ends
<1>3. ASSUME NEW e \in Daemons, DaemonStep(e) PROVE pc[d] = "serving" \/ Publish(d)
  <2>1. CASE Publish(e)
    BY <1>3, <2>1 DEF Publish
  <2> QED BY <1>3, <2>1 DEF DaemonStep, TakeOver, Lock, Bind, Leave, RemoveInfo, RemoveSocket, Unlock, Exit
<1>4. ASSUME NEW e \in Daemons, TaskStep(e) \/ Disturbance(e) \/ SessionsChange(e) PROVE pc[d] = "serving"
  BY <1>4 DEF TaskStep, Check, SelfInstall, Respawn, Disturbance, PatienceEnds, BindFails, IdleOut, Crash, TaskFails,
              SessionsChange, Ends
<1> QED BY <1>1, <1>2, <1>3, <1>4 DEF Next

\* daemon.json is written by who begins to serve, and removed by who leaves or by a stop.
LEMMA FileMoves ==
  ASSUME [Next]_vars
  PROVE  info' = info \/ (\E d \in Daemons : Publish(d) \/ RemoveInfo(d)) \/ \E c \in Clients : Clear(c)
<1>1. CASE UNCHANGED vars \/ Release \/ \E c \in Clients : Fetch(c) \/ \E what \in {"use", "start", "stop", "restart"} : Command(c, what)
  BY <1>1 DEF vars, files, Release, Fetch, Command
<1>2. ASSUME NEW c \in Clients, ClientStep(c) PROVE info' = info \/ Clear(c)
  BY <1>2 DEF ClientStep, Look, Start, Ready, GiveUp, Stop, Download, Install, files
<1>3. ASSUME NEW d \in Daemons, DaemonStep(d) PROVE info' = info \/ Publish(d) \/ RemoveInfo(d)
  BY <1>3 DEF DaemonStep, TakeOver, Lock, Bind, Leave, RemoveSocket, Unlock, Exit, files
<1>4. ASSUME NEW d \in Daemons, TaskStep(d) \/ Disturbance(d) \/ SessionsChange(d) PROVE info' = info
  BY <1>4 DEF TaskStep, Check, SelfInstall, Respawn, Disturbance, PatienceEnds, BindFails, IdleOut, Crash, TaskFails,
              SessionsChange, files
<1> QED BY <1>1, <1>2, <1>3, <1>4 DEF Next

LEMMA DiscoverableNext == LockInv /\ AlwaysDiscoverable /\ [Next /\ ClearsDead]_vars => AlwaysDiscoverable'
<1> SUFFICES ASSUME LockInv, AlwaysDiscoverable, [Next /\ ClearsDead]_vars, NEW d \in Daemons, pc'[d] = "serving"
             PROVE  info' = d
  BY DEF AlwaysDiscoverable
<1>1. CASE Publish(d)
  BY <1>1 DEF Publish
<1>2. CASE ~Publish(d)
  <2>1. pc[d] = "serving" /\ info = d /\ lock = d
    BY <1>2, ServesByPublishing DEF LockInv, Row, Holding, AlwaysDiscoverable
  \* Another daemon neither publishes itself nor leaves: it does not have the lock.
  <2>2. ASSUME NEW e \in Daemons, Publish(e) \/ RemoveInfo(e) PROVE FALSE
    <3>1. pc[e] \in {"bound", "leaving"} /\ lock = e
      BY <2>2 DEF Publish, RemoveInfo, LockInv, Row, Holding
    <3> QED BY <2>1, <3>1
  \* And a stop removes no file of a process that serves.
  <2>3. ASSUME NEW c \in Clients, Clear(c) PROVE info' = d
    <3>1. CASE UNCHANGED vars
      BY <2>1, <3>1 DEF vars, files
    <3>2. CASE ClearsDead
      BY <2>1, <2>3, <3>2, DaemonAssumption DEF ClearsDead
    <3> QED BY <3>1, <3>2
  <2> QED BY <2>1, <2>2, <2>3, FileMoves
<1> QED BY <1>1, <1>2

\* A daemon that serves is found in daemon.json, as long as commands remove the files of
\* dead processes only: that run_stop looks at the pid and removes the file in two steps
\* (DaemonProcess_found.cfg) is the only way for it to be lost.
THEOREM ServingIsFound == Spec /\ [][ClearsDead]_vars => []AlwaysDiscoverable
<1>1. Init => AlwaysDiscoverable
  BY DaemonAssumption DEF Init, AlwaysDiscoverable, Daemons
<1>2. LockInv /\ AlwaysDiscoverable /\ [Next]_vars /\ [ClearsDead]_vars => AlwaysDiscoverable'
  BY DiscoverableNext
<1> QED BY <1>1, <1>2, LockInit, LockNext, PTL DEF Spec
===============================================================================
