--------------------------- MODULE TabBorrowingProofs ---------------------------
(***************************************************************************)
(* A tab has one borrower, a reservation has a handler, a borrow that was  *)
(* cancelled has given its tab back, a stop closes its window on no        *)
(* borrowed tab, nor does a cleanup that no borrow outruns, and TabLoans   *)
(* is implemented: for any number of sessions, tabs, windows and requests, *)
(* lost connections included, and overlapping requests but for the stops.  *)
(***************************************************************************)
EXTENDS TabBorrowing, TLAPS

-----------------------------------------------------------------------------
\* Types

\* What a job is, and that one that is at work knows its session, and one that
\* moves a tab the window.
JobRecords == [at : {"new", "lookup", "choose", "move", "moved", "next",
                     "detaching", "closing", "done"},
               session : Sessions \cup {None}, tab : Tabs \cup {None},
               dest : Windows \cup {None}, fallback : BOOLEAN, fresh : BOOLEAN,
               todo : SUBSET Tabs, failed : BOOLEAN]

GoodJobs == {r \in JobRecords :
  /\ r.at \notin {"new", "done"} => r.session \in Sessions
  /\ r.at \in {"lookup", "choose", "move", "moved"} => r.dest \in Windows}

TypeInv == TypeOK /\ job \in [Jobs -> GoodJobs]

\* A resting job is a job, at any place of the program.
LEMMA RestingIsJob ==
  /\ Resting \in GoodJobs
  /\ [Resting EXCEPT !.at = "done"] \in GoodJobs
  /\ \A s \in Sessions, todo \in SUBSET Tabs :
       [Resting EXCEPT !.at = "next", !.session = s, !.todo = todo] \in GoodJobs
BY DEF Resting, JobRecords, GoodJobs

LEMMA SetType ==
  ASSUME TypeInv, NEW j \in Jobs, NEW r \in GoodJobs, Set(j, r)
  PROVE  job' \in [Jobs -> GoodJobs]
BY DEF Set, TypeInv

\* An outcome of a return leaves every job a job.
LEMMA OutcomeType ==
  ASSUME TypeInv, NEW j \in Jobs, NEW ok \in BOOLEAN, Outcome(j, ok),
         job[j].at \notin {"new", "done"}
  PROVE  job' \in [Jobs -> GoodJobs]
<1>1. CASE j \in Returns
  BY <1>1, RestingIsJob, SetType DEF Outcome
<1>2. CASE j \notin Returns
  <2> DEFINE r == [job[j] EXCEPT !.at = "next", !.todo = @ \ {job[j].tab}, !.failed = @ \/ ~ok]
  <2>1. r \in GoodJobs
    BY ZenonT(60) DEF TypeInv, JobRecords, GoodJobs
  <2>2. Set(j, r)
    BY <1>2 DEF Outcome
  <2>3. QED
    BY <2>1, <2>2, SetType
<1>3. QED
  BY <1>1, <1>2

\* So does the beginning of a return.
LEMMA RetrieveType ==
  ASSUME TypeInv, NEW j \in Jobs, NEW s \in Sessions, NEW t \in Tabs, Retrieve(j, s, t, job[j])
  PROVE  job' \in [Jobs -> GoodJobs]
<1> DEFINE r == [job[j] EXCEPT !.at = "lookup", !.session = s, !.tab = t,
                               !.dest = borrowed[s][t], !.fallback = FALSE, !.fresh = FALSE]
<1>1. r \in GoodJobs
  <2>1. borrowed[s][t] \in Windows \cup {None}
    BY DEF TypeInv, TypeOK
  <2>2. QED
    BY ZenonT(60), <2>1 DEF Retrieve, TypeInv, JobRecords, GoodJobs
<1>2. QED
  BY <1>1, SetType DEF Retrieve

\* And the end of a stop.
LEMMA EndStopType ==
  ASSUME TypeInv, NEW j \in Jobs, EndStop(j)
  PROVE  job' \in [Jobs -> GoodJobs] /\ doomed' \subseteq Sessions
BY RestingIsJob, SetType DEF EndStop, TypeInv, TypeOK

LEMMA CloseWithType ==
  ASSUME TypeInv, NEW w \in Windows, CloseWith(w)
  PROVE  /\ open' \subseteq Windows
         /\ closed' \subseteq Windows
         /\ where' \in [Tabs -> Windows \cup {Gone}]
BY DEF CloseWith, TypeInv, TypeOK

\* The variables that the end of a borrow changes.
BorrowState ==
  /\ at \in [Borrows -> Over \cup {"new", "fetching", "asking", "moving", "moved", "activating"}]
  /\ reserved \in [Tabs -> Sessions \cup {None}]
  /\ home \in [Borrows -> Windows \cup {None}]
  /\ aborted \subseteq Borrows \cup Returns

LEMMA FinishType ==
  ASSUME TypeInv, NEW b \in Borrows, NEW how \in Over, Finish(b, how)
  PROVE  BorrowState'
BY DEF Finish, Released, BorrowState, TypeInv, TypeOK

\* The types, without the variables a set of actions leaves alone.
LEMMA BorrowTypes ==
  ASSUME TypeInv, NEW b \in Borrows, BorrowBegin(b) \/ UserAllows(b) \/ BorrowStep(b)
  PROVE  TypeInv'
<1> USE BorrowingAssumption
<1> SessionOf[b] \in Sessions /\ TabOf[b] \in Tabs
  BY DEF Requests
<1>1. CASE BorrowBegin(b)
  BY <1>1 DEF BorrowBegin, TypeInv, TypeOK, chrome, sessions, jobs, Over
<1>2. CASE BorrowFetch(b)
  <2>1. where[TabOf[b]] \in Windows \cup {Gone}
    BY DEF TypeInv, TypeOK
  <2>2. BorrowState'
    <3>1. CASE Finish(b, "refused")
      BY <3>1, FinishType DEF Over
    <3>2. CASE ~Finish(b, "refused")
      BY <1>2, <2>1, <3>2 DEF BorrowFetch, BorrowState, TypeInv, TypeOK
    <3>3. QED
      BY <3>1, <3>2
  <2>3. QED
    BY <1>2, <2>2 DEF BorrowFetch, BorrowState, TypeInv, TypeOK, chrome, sessions, jobs
<1>3. CASE UserAllows(b)
  BY <1>3 DEF UserAllows, TypeInv, TypeOK, chrome, sessions, jobs, Over
<1>4. CASE BorrowDenied(b)
  BY <1>4, FinishType DEF BorrowDenied, BorrowState, TypeInv, TypeOK, chrome, sessions, jobs, Over
<1>5. CASE BorrowMove(b)
  BY <1>5 DEF BorrowMove, TypeInv, TypeOK, sessions, jobs, Over, Windows
<1>6. CASE BorrowMoveFails(b)
  BY <1>6, FinishType DEF BorrowMoveFails, BorrowState, TypeInv, TypeOK, chrome, sessions, jobs, Over
<1>7. CASE BorrowRollback(b)
  <2>1. where' \in [Tabs -> Windows \cup {Gone}]
    BY <1>7 DEF BorrowRollback, TypeInv, TypeOK
  <2>2. BorrowState'
    BY <1>7, FinishType DEF BorrowRollback, Over
  <2>3. QED
    BY <1>7, <2>1, <2>2 DEF BorrowRollback, BorrowState, TypeInv, TypeOK, sessions, jobs
<1>8. CASE BorrowActivate(b)
  BY <1>8 DEF BorrowActivate, TypeInv, TypeOK, chrome, sessions, jobs, Over
<1>9. CASE BorrowCommit(b)
  <2>1. borrowed' \in [Sessions -> [Tabs -> Windows \cup {None}]]
    BY <1>9 DEF BorrowCommit, TypeInv, TypeOK
  <2>2. BorrowState'
    BY <1>9, FinishType DEF BorrowCommit, Over
  <2>3. QED
    BY <1>9, <2>1, <2>2 DEF BorrowCommit, BorrowState, TypeInv, TypeOK, chrome, sessions, jobs
<1>10. QED
  BY <1>1, <1>2, <1>3, <1>4, <1>5, <1>6, <1>7, <1>8, <1>9 DEF BorrowStep

LEMMA ReturnTypes ==
  ASSUME TypeInv, NEW j \in Jobs, ReturnStep(j)
  PROVE  TypeInv'
<1> USE BorrowingAssumption
<1>1. CASE Lookup(j)
  <2> DEFINE r == [job[j] EXCEPT !.at = IF job[j].dest \in open THEN "move" ELSE "choose"]
  <2>1. r \in GoodJobs
    BY <1>1 DEF Lookup, TypeInv, JobRecords, GoodJobs
  <2>2. job' \in [Jobs -> GoodJobs]
    BY <1>1, <2>1, SetType DEF Lookup
  <2>3. QED
    BY <1>1, <2>2 DEF Lookup, TypeInv, TypeOK, GoodJobs, JobRecords, chrome, sessions, borrows
<1>2. CASE ChooseFallback(j)
  <2>1. ASSUME NEW w \in Windows, NEW isNew \in BOOLEAN,
               Set(j, [job[j] EXCEPT !.at = "move", !.dest = w, !.fallback = TRUE, !.fresh = isNew])
        PROVE  job' \in [Jobs -> GoodJobs]
    <3> DEFINE r == [job[j] EXCEPT !.at = "move", !.dest = w, !.fallback = TRUE, !.fresh = isNew]
    <3>1. r \in GoodJobs
      BY ZenonT(60), <1>2 DEF ChooseFallback, TypeInv, JobRecords, GoodJobs
    <3>2. QED
      BY <2>1, <3>1, SetType
  <2>2. job' \in [Jobs -> GoodJobs] /\ open' \subseteq Windows
    <3>1. CASE \E w \in UserWindows :
                 /\ Set(j, [job[j] EXCEPT !.at = "move", !.dest = w, !.fallback = TRUE, !.fresh = TRUE])
                 /\ open' = open \cup {w}
      BY <2>1, <3>1 DEF TypeInv, TypeOK, Windows
    <3>2. CASE Outcome(j, FALSE) /\ UNCHANGED open
      BY <1>2, <3>2, OutcomeType DEF ChooseFallback, TypeInv, TypeOK
    <3>3. CASE UNCHANGED open /\ \E w \in open \ {job[j].session} :
                 Set(j, [job[j] EXCEPT !.at = "move", !.dest = w, !.fallback = TRUE, !.fresh = FALSE])
      BY <2>1, <3>3 DEF TypeInv, TypeOK, Windows
    <3>4. QED
      BY <1>2, <3>1, <3>2, <3>3 DEF ChooseFallback
  <2>3. QED
    BY <1>2, <2>2 DEF ChooseFallback, TypeInv, TypeOK, GoodJobs, JobRecords, sessions, borrows
<1>3. CASE ReturnAborted(j)
  <2>1. job' \in [Jobs -> GoodJobs]
    BY <1>3, OutcomeType DEF ReturnAborted
  <2>2. QED
    BY <1>3, <2>1 DEF ReturnAborted, TypeInv, TypeOK, GoodJobs, JobRecords, chrome, sessions, borrows
<1>4. CASE ReturnMove(j)
  <2> DEFINE r == [job[j] EXCEPT !.at = "moved"]
  <2>1. r \in GoodJobs
    BY <1>4 DEF ReturnMove, TypeInv, JobRecords, GoodJobs
  <2>2. job' \in [Jobs -> GoodJobs]
    BY <1>4, <2>1, SetType DEF ReturnMove
  <2>3. where' \in [Tabs -> Windows \cup {Gone}]
    BY <1>4 DEF ReturnMove, TypeInv, TypeOK
  <2>4. QED
    BY <1>4, <2>2, <2>3 DEF ReturnMove, TypeInv, TypeOK, GoodJobs, JobRecords, sessions, borrows
<1>5. CASE ReturnMoveFails(j)
  <2> DEFINE r == [job[j] EXCEPT !.at = "choose"]
  <2>1. r \in GoodJobs
    BY <1>5 DEF ReturnMoveFails, TypeInv, JobRecords, GoodJobs
  <2>2. job' \in [Jobs -> GoodJobs]
    BY <1>5, <2>1, SetType, OutcomeType DEF ReturnMoveFails
  <2>3. /\ open' \subseteq Windows
        /\ closed' \subseteq Windows
        /\ where' \in [Tabs -> Windows \cup {Gone}]
    <3>1. CASE UNCHANGED chrome
      BY <3>1 DEF chrome, TypeInv, TypeOK
    <3>2. CASE CloseWith(job[j].dest)
      <4>1. job[j].dest \in Windows
        BY <1>5 DEF ReturnMoveFails, TypeInv, GoodJobs, JobRecords
      <4>2. QED
        BY <3>2, <4>1, CloseWithType
    <3>3. QED
      BY <1>5, <3>1, <3>2 DEF ReturnMoveFails
  <2>4. QED
    BY <1>5, <2>2, <2>3 DEF ReturnMoveFails, TypeInv, TypeOK, GoodJobs, JobRecords, sessions, borrows
<1>6. CASE ReturnDone(j)
  <2>1. job' \in [Jobs -> GoodJobs]
    BY <1>6, OutcomeType DEF ReturnDone
  <2>2. borrowed' \in [Sessions -> [Tabs -> Windows \cup {None}]]
    BY <1>6 DEF ReturnDone, TypeInv, TypeOK
  <2>3. QED
    BY <1>6, <2>1, <2>2 DEF ReturnDone, TypeInv, TypeOK, GoodJobs, JobRecords, chrome, sessions, borrows
<1>7. QED
  BY <1>1, <1>2, <1>3, <1>4, <1>5, <1>6 DEF ReturnStep

LEMMA BeginStopType ==
  ASSUME TypeInv, NEW j \in Jobs, NEW s \in Sessions, BeginStop(j, s)
  PROVE  job' \in [Jobs -> GoodJobs]
BY RestingIsJob, SetType DEF BeginStop, BorrowedBy

LEMMA StopTypes ==
  ASSUME TypeInv, NEW j \in Jobs, StopStep(j)
  PROVE  TypeInv'
<1>1. CASE StopNextTab(j)
  <2>1. job' \in [Jobs -> GoodJobs]
    <3>1. job[j].session \in Sessions /\ job[j].todo \subseteq Tabs
      BY <1>1 DEF StopNextTab, TypeInv, GoodJobs, JobRecords
    <3>2. PICK t \in job[j].todo :
            \/ Retrieve(j, job[j].session, t, job[j])
            \/ Set(j, [job[j] EXCEPT !.todo = @ \ {t}, !.failed = TRUE])
      BY <1>1 DEF StopNextTab
    <3> DEFINE r == [job[j] EXCEPT !.todo = @ \ {t}, !.failed = TRUE]
    <3>3. r \in GoodJobs
      BY ZenonT(60), <1>1 DEF StopNextTab, TypeInv, JobRecords, GoodJobs
    <3>4. QED
      BY <3>1, <3>2, <3>3, SetType, RetrieveType
  <2>2. QED
    BY <1>1, <2>1 DEF StopNextTab, TypeInv, TypeOK, GoodJobs, JobRecords, chrome, sessions, borrows
<1>2. CASE StopDecide(j)
  <2> DEFINE r == [job[j] EXCEPT !.at = "detaching"]
  <2>1. r \in GoodJobs
    BY <1>2 DEF StopDecide, TypeInv, JobRecords, GoodJobs
  <2>2. job' \in [Jobs -> GoodJobs] /\ doomed' \subseteq Sessions
    BY <1>2, <2>1, SetType, EndStopType DEF StopDecide, TypeInv, TypeOK
  <2>3. QED
    BY <1>2, <2>2 DEF StopDecide, TypeInv, TypeOK, GoodJobs, JobRecords, chrome, sessions, borrows
<1>3. CASE StopCloseWindow(j)
  <2> DEFINE r == [job[j] EXCEPT !.at = "closing"]
  <2>1. r \in GoodJobs
    BY <1>3 DEF StopCloseWindow, TypeInv, JobRecords, GoodJobs
  <2>2. job' \in [Jobs -> GoodJobs]
    BY <1>3, <2>1, SetType DEF StopCloseWindow
  <2>3. /\ open' \subseteq Windows
        /\ closed' \subseteq Windows
        /\ where' \in [Tabs -> Windows \cup {Gone}]
    BY <1>3, CloseWithType DEF StopCloseWindow, TypeInv, TypeOK
  <2>4. QED
    BY <1>3, <2>2, <2>3 DEF StopCloseWindow, TypeInv, TypeOK, GoodJobs, JobRecords, sessions, borrows
<1>4. CASE StopCannotClose(j)
  BY <1>4, EndStopType
     DEF StopCannotClose, TypeInv, TypeOK, GoodJobs, JobRecords, chrome, sessions, borrows
<1>5. CASE StopForget(j)
  <2>1. phase' \in [Sessions -> {"new", "opening", "live", "gone"}]
    BY <1>5 DEF StopForget, TypeInv, TypeOK
  <2>2. job' \in [Jobs -> GoodJobs] /\ doomed' \subseteq Sessions
    BY <1>5, EndStopType DEF StopForget
  <2>3. QED
    BY <1>5, <2>1, <2>2 DEF StopForget, TypeInv, TypeOK, GoodJobs, JobRecords, chrome, borrows
<1>6. QED
  BY <1>1, <1>2, <1>3, <1>4, <1>5 DEF StopStep

LEMMA SessionTypes ==
  ASSUME TypeInv, NEW s \in Sessions, SessionStep(s)
  PROVE  TypeInv'
<1>1. s \in Windows
  BY DEF Windows
<1>2. CASE StartWindow(s)
  BY <1>1, <1>2 DEF StartWindow, TypeInv, TypeOK, GoodJobs, JobRecords, borrows, jobs
<1>3. CASE StartRegister(s)
  BY <1>3 DEF StartRegister, TypeInv, TypeOK, GoodJobs, JobRecords, chrome, borrows, jobs
<1>4. CASE StartAborted(s)
  <2>1. /\ open' \subseteq Windows
        /\ closed' \subseteq Windows
        /\ where' \in [Tabs -> Windows \cup {Gone}]
    BY <1>1, <1>4, CloseWithType DEF StartAborted, chrome, TypeInv, TypeOK
  <2>2. QED
    BY <1>4, <2>1 DEF StartAborted, TypeInv, TypeOK, GoodJobs, JobRecords, borrows, jobs
<1>5. CASE WindowRemoved(s)
  BY <1>5 DEF WindowRemoved, TypeInv, TypeOK, GoodJobs, JobRecords, chrome, borrows, jobs
<1>6. QED
  BY <1>2, <1>3, <1>4, <1>5 DEF SessionStep

LEMMA UserTypes ==
  ASSUME TypeInv, UserStep
  PROVE  TypeInv'
<1>1. ASSUME NEW w \in Windows, UserClosesWindow(w)
      PROVE  TypeInv'
  BY <1>1, CloseWithType
     DEF UserClosesWindow, TypeInv, TypeOK, GoodJobs, JobRecords, sessions, borrows, jobs
<1>2. ASSUME NEW t \in Tabs, UserClosesTab(t)
      PROVE  TypeInv'
  BY <1>2 DEF UserClosesTab, TypeInv, TypeOK, GoodJobs, JobRecords, sessions, borrows, jobs
<1>3. ASSUME NEW t \in Tabs, NEW w \in UserWindows, UserMovesTab(t, w)
      PROVE  TypeInv'
  BY <1>3 DEF UserMovesTab, TypeInv, TypeOK, GoodJobs, JobRecords, sessions, borrows, jobs, Windows
<1>4. QED
  BY <1>1, <1>2, <1>3 DEF UserStep

LEMMA BeginTypes ==
  ASSUME TypeInv,
         \/ \E j \in Returns : ReturnBegin(j)
         \/ \E j \in Stops : StopBegin(j)
         \/ CleanupNext
         \/ \E x \in Borrows \cup Returns : Abort(x)
         \/ Disconnect
  PROVE  TypeInv'
<1> USE BorrowingAssumption
<1>1. ASSUME NEW j \in Returns, ReturnBegin(j)
      PROVE  TypeInv'
  <2>1. job' \in [Jobs -> GoodJobs]
    BY <1>1, RetrieveType DEF ReturnBegin, Requests, Jobs
  <2>2. QED
    BY <1>1, <2>1 DEF ReturnBegin, TypeInv, TypeOK, GoodJobs, JobRecords, chrome, sessions, borrows
<1>2. ASSUME NEW j \in Stops, StopBegin(j)
      PROVE  TypeInv'
  <2>1. job' \in [Jobs -> GoodJobs]
    BY <1>2, BeginStopType DEF StopBegin, Requests, Jobs
  <2>2. QED
    BY <1>2, <2>1 DEF StopBegin, TypeInv, TypeOK, GoodJobs, JobRecords, chrome, sessions, borrows
<1>3. CASE CleanupNext
  <2>1. Cleanup \in Jobs /\ doomed \subseteq Sessions
    BY DEF Jobs, TypeInv, TypeOK
  <2>2. PICK s \in doomed :
          \/ BeginStop(Cleanup, s) /\ UNCHANGED doomed
          \/ doomed' = doomed \ {s} /\ UNCHANGED job
    BY <1>3 DEF CleanupNext
  <2>3. job' \in [Jobs -> GoodJobs] /\ doomed' \subseteq Sessions
    BY <2>1, <2>2, BeginStopType DEF TypeInv
  <2>4. QED
    BY <1>3, <2>3 DEF CleanupNext, TypeInv, TypeOK, GoodJobs, JobRecords, chrome, sessions, borrows
<1>4. CASE \E x \in Borrows \cup Returns : Abort(x)
  BY <1>4 DEF Abort, TypeInv, TypeOK, GoodJobs, JobRecords, chrome, sessions, borrows, jobs
<1>5. CASE Disconnect
  BY <1>5 DEF Disconnect, TypeInv, TypeOK, GoodJobs, JobRecords, chrome, borrows
<1>6. QED
  BY <1>1, <1>2, <1>3, <1>4, <1>5

LEMMA TypeInvInit ==
  Init => TypeInv
<1>1. ASSUME Init
      PROVE  TypeOK /\ job \in [Jobs -> GoodJobs]
  <2>1. job \in [Jobs -> GoodJobs]
    BY <1>1, RestingIsJob DEF Init
  <2>2. QED
    BY <1>1, <2>1, BorrowingAssumption DEF Init, TypeOK, GoodJobs, JobRecords, Windows
<1>2. QED
  BY <1>1 DEF TypeInv

LEMMA TypeInvNext ==
  TypeInv /\ [Next]_vars => TypeInv'
<1> SUFFICES ASSUME TypeInv, [Next]_vars
             PROVE  TypeInv'
  OBVIOUS
<1>1. ASSUME NEW b \in Borrows, BorrowBegin(b) \/ UserAllows(b) \/ BorrowStep(b)
      PROVE  TypeInv'
  BY <1>1, BorrowTypes
<1>2. ASSUME NEW j \in Jobs, ReturnStep(j)
      PROVE  TypeInv'
  BY <1>2, ReturnTypes
<1>3. ASSUME NEW j \in Stops \cup {Cleanup}, StopStep(j)
      PROVE  TypeInv'
  BY <1>3, StopTypes DEF Jobs
<1>4. ASSUME NEW s \in Sessions, SessionStep(s)
      PROVE  TypeInv'
  BY <1>4, SessionTypes
<1>5. CASE UserStep
  BY <1>5, UserTypes
<1>6. CASE UNCHANGED vars
  BY <1>6 DEF vars, chrome, sessions, borrows, jobs, TypeInv, TypeOK, GoodJobs, JobRecords
<1>7. QED
  BY <1>1, <1>2, <1>3, <1>4, <1>5, <1>6, BeginTypes DEF Next

\* The variables keep their types.
THEOREM BorrowingTypes == Spec => []TypeOK
<1>1. TypeInv => TypeOK
  BY DEF TypeInv
<1>2. QED
  BY <1>1, TypeInvInit, TypeInvNext, PTL DEF Spec

-----------------------------------------------------------------------------
\* One borrower

\* A session that has not begun has borrowed nothing, and while a tab is
\* reserved only the session that reserved it can have it: with that a commit
\* cannot make a second borrower.
EmptyUntilLive ==
  \A s \in Sessions, t \in Tabs : phase[s] \in {"new", "opening"} => borrowed[s][t] = None

ReservedForOne ==
  \A s \in Sessions, t \in Tabs :
    (Live(s) /\ borrowed[s][t] # None) => reserved[t] \in {None, s}

OneBorrowerInv == TypeInv /\ EmptyUntilLive /\ ReservedForOne /\ ExclusiveBorrower

\* Steps that borrow nothing, reserve nothing and revive no session.
Gentle ==
  /\ \A s \in Sessions, t \in Tabs : borrowed'[s][t] \in {borrowed[s][t], None}
  /\ \A t \in Tabs : reserved'[t] \in {reserved[t], None}
  /\ \A s \in Sessions :
       /\ phase'[s] \in {"new", "opening"} => phase[s] \in {"new", "opening"}
       /\ phase'[s] = "live" => phase[s] \in {"live", "opening"}

LEMMA GentleKeepsOneBorrower ==
  ASSUME OneBorrowerInv, Gentle
  PROVE  EmptyUntilLive' /\ ReservedForOne' /\ ExclusiveBorrower'
BY DEF OneBorrowerInv, Gentle, EmptyUntilLive, ReservedForOne, ExclusiveBorrower, Live

\* Everything but the beginning and the commit of a borrow is gentle.
LEMMA BorrowIsGentle ==
  ASSUME TypeInv, NEW b \in Borrows,
         \/ UserAllows(b) \/ BorrowFetch(b) \/ BorrowDenied(b) \/ BorrowMove(b)
         \/ BorrowMoveFails(b) \/ BorrowRollback(b) \/ BorrowActivate(b)
  PROVE  Gentle
<1>1. borrowed' = borrowed /\ phase' = phase
  BY DEF UserAllows, BorrowFetch, BorrowDenied, BorrowMove, BorrowMoveFails, BorrowRollback,
         BorrowActivate, sessions
<1>2. reserved' = reserved \/ reserved' = Released(b)
  BY DEF UserAllows, BorrowFetch, BorrowDenied, BorrowMove, BorrowMoveFails, BorrowRollback,
         BorrowActivate, Finish
<1>3. \A t \in Tabs : reserved'[t] \in {reserved[t], None}
  BY <1>2 DEF Released, TypeInv, TypeOK
<1>4. QED
  BY <1>1, <1>3 DEF Gentle

LEMMA JobsAreGentle ==
  ASSUME TypeInv,
         \/ \E j \in Jobs : ReturnStep(j) \/ StopStep(j)
         \/ \E j \in Returns : ReturnBegin(j)
         \/ \E j \in Stops : StopBegin(j)
         \/ CleanupNext
  PROVE  Gentle /\ reserved' = reserved /\ at' = at
<1>1. reserved' = reserved /\ at' = at
  BY DEF ReturnStep, Lookup, ChooseFallback, ReturnAborted, ReturnMove, ReturnMoveFails,
         ReturnDone, StopStep, StopNextTab, StopDecide, StopCloseWindow, StopCannotClose,
         StopForget, ReturnBegin, StopBegin, CleanupNext, borrows
<1>2. \A s \in Sessions, t \in Tabs : borrowed'[s][t] \in {borrowed[s][t], None}
  <2>1. CASE borrowed' = borrowed
    BY <2>1
  <2>2. CASE \E j \in Jobs : ReturnDone(j)
    BY <2>2 DEF ReturnDone, TypeInv, TypeOK
  <2>3. QED
    BY <2>1, <2>2
       DEF ReturnStep, Lookup, ChooseFallback, ReturnAborted, ReturnMove, ReturnMoveFails,
           StopStep, StopNextTab, StopDecide, StopCloseWindow, StopCannotClose, StopForget,
           ReturnBegin, StopBegin, CleanupNext
<1>3. \A s \in Sessions : phase'[s] \in {phase[s], "gone"}
  <2>1. CASE phase' = phase
    BY <2>1
  <2>2. CASE \E j \in Jobs : StopForget(j)
    BY <2>2 DEF StopForget, TypeInv, TypeOK
  <2>3. QED
    BY <2>1, <2>2
       DEF ReturnStep, Lookup, ChooseFallback, ReturnAborted, ReturnMove, ReturnMoveFails,
           ReturnDone, StopStep, StopNextTab, StopDecide, StopCloseWindow, StopCannotClose,
           ReturnBegin, StopBegin, CleanupNext, sessions
<1>4. QED
  BY <1>1, <1>2, <1>3 DEF Gentle

LEMMA OthersAreGentle ==
  ASSUME TypeInv,
         \/ \E s \in Sessions : SessionStep(s)
         \/ \E x \in Borrows \cup Returns : Abort(x)
         \/ Disconnect
         \/ UserStep
         \/ UNCHANGED vars
  PROVE  Gentle /\ reserved' = reserved /\ at' = at
<1>1. reserved' = reserved /\ at' = at /\ borrowed' = borrowed
  BY DEF SessionStep, StartWindow, StartRegister, StartAborted, WindowRemoved, Abort, Disconnect,
         UserStep, UserClosesWindow, UserClosesTab, UserMovesTab, vars, borrows
<1>2. \A s \in Sessions :
        /\ phase'[s] \in {"new", "opening"} => phase[s] \in {"new", "opening"}
        /\ phase'[s] = "live" => phase[s] \in {"live", "opening"}
  <2>1. CASE phase' = phase
    BY <2>1
  <2>2. ASSUME NEW s \in Sessions, SessionStep(s)
        PROVE  <1>2!(s)
    BY <2>2 DEF SessionStep, StartWindow, StartRegister, StartAborted, WindowRemoved, Live,
                TypeInv, TypeOK
  <2>3. ASSUME NEW s \in Sessions, SessionStep(s), NEW x \in Sessions \ {s}
        PROVE  phase'[x] = phase[x]
    BY <2>3 DEF SessionStep, StartWindow, StartRegister, StartAborted, WindowRemoved,
                TypeInv, TypeOK
  <2>4. QED
    BY <2>1, <2>2, <2>3
       DEF Abort, Disconnect, UserStep, UserClosesWindow, UserClosesTab, UserMovesTab, vars, sessions
<1>3. QED
  BY <1>1, <1>2 DEF Gentle

LEMMA OneBorrowerNext ==
  OneBorrowerInv /\ [Next]_vars => OneBorrowerInv'
<1> SUFFICES ASSUME OneBorrowerInv, [Next]_vars
             PROVE  OneBorrowerInv'
  OBVIOUS
<1> USE BorrowingAssumption
<1>1. TypeInv /\ TypeInv'
  BY TypeInvNext DEF OneBorrowerInv
<1>2. CASE Gentle
  BY <1>1, <1>2, GentleKeepsOneBorrower DEF OneBorrowerInv
<1>3. ASSUME NEW b \in Borrows, BorrowBegin(b)
      PROVE  OneBorrowerInv'
  <2> DEFINE s == SessionOf[b]
             t == TabOf[b]
  <2>1. s \in Sessions /\ t \in Tabs
    BY DEF Requests
  <2>2. borrowed' = borrowed /\ phase' = phase
    BY <1>3 DEF BorrowBegin, sessions
  <2>3. EmptyUntilLive' /\ ExclusiveBorrower'
    BY <2>2 DEF OneBorrowerInv, EmptyUntilLive, ExclusiveBorrower, Live
  <2>4. CASE reserved' = reserved
    BY <1>1, <2>2, <2>3, <2>4 DEF OneBorrowerInv, ReservedForOne, Live
  <2>5. CASE ~OtherBorrower(t, s) /\ reserved' = [reserved EXCEPT ![t] = s]
    <3>1. \A x \in Sessions : (Live(x) /\ borrowed[x][t] # None) => x = s
      BY <2>5 DEF OtherBorrower
    <3>2. reserved'[t] = s /\ \A u \in Tabs \ {t} : reserved'[u] = reserved[u]
      BY <1>1, <2>1, <2>5 DEF TypeInv, TypeOK
    <3>3. ReservedForOne'
      BY <2>2, <3>1, <3>2 DEF OneBorrowerInv, ReservedForOne, Live
    <3>4. QED
      BY <1>1, <2>3, <3>3 DEF OneBorrowerInv
  <2>6. QED
    BY <1>3, <2>4, <2>5 DEF BorrowBegin
<1>4. ASSUME NEW b \in Borrows, BorrowCommit(b)
      PROVE  OneBorrowerInv'
  <2> DEFINE s == SessionOf[b]
             t == TabOf[b]
  <2>1. s \in Sessions /\ t \in Tabs
    BY DEF Requests
  <2>2. phase' = phase /\ reserved' = Released(b)
    BY <1>4 DEF BorrowCommit, Finish, sessions
  <2>3. \A u \in Tabs : reserved'[u] \in {reserved[u], None}
    BY <1>1, <2>2 DEF Released, TypeInv, TypeOK
  <2>4. CASE borrowed' = borrowed
    BY <1>2, <2>2, <2>3, <2>4 DEF Gentle
  <2>5. CASE Live(s) /\ reserved[t] = s /\ borrowed' = [borrowed EXCEPT ![s][t] = home[b]]
    <3>1. \A x \in Sessions, u \in Tabs :
            borrowed'[x][u] = IF x = s /\ u = t THEN home[b] ELSE borrowed[x][u]
      BY <1>1, <2>1, <2>5 DEF TypeInv, TypeOK
    <3>2. \A x \in Sessions \ {s} : Live(x) => borrowed[x][t] = None
      BY <1>1, <2>1, <2>5 DEF OneBorrowerInv, ReservedForOne
    <3>3. EmptyUntilLive'
      BY <2>2, <2>5, <3>1 DEF OneBorrowerInv, EmptyUntilLive, Live
    <3>4. ReservedForOne'
      BY <2>1, <2>2, <2>3, <2>5, <3>1, <3>2 DEF OneBorrowerInv, ReservedForOne, Live
    <3>5. ExclusiveBorrower'
      BY <2>2, <3>1, <3>2 DEF OneBorrowerInv, ExclusiveBorrower, Live
    <3>6. QED
      BY <1>1, <3>3, <3>4, <3>5 DEF OneBorrowerInv
  <2>6. QED
    BY <1>4, <2>4, <2>5 DEF BorrowCommit
<1>5. ASSUME NEW b \in Borrows, UserAllows(b) \/ BorrowStep(b)
      PROVE  OneBorrowerInv'
  BY <1>1, <1>2, <1>4, <1>5, BorrowIsGentle DEF BorrowStep
<1>6. QED
  BY <1>1, <1>2, <1>3, <1>5, JobsAreGentle, OthersAreGentle DEF Next, Jobs

\* A tab never has two borrowers, even if requests of a session overlap, are
\* aborted, or outlive the connection they came on.
THEOREM OneBorrower == Spec => []ExclusiveBorrower
<1>1. Init => OneBorrowerInv
  <2>1. ASSUME Init
        PROVE  EmptyUntilLive /\ ReservedForOne /\ ExclusiveBorrower
    BY <2>1 DEF Init, EmptyUntilLive, ReservedForOne, ExclusiveBorrower, Live
  <2>2. QED
    BY <2>1, TypeInvInit DEF OneBorrowerInv
<1>2. OneBorrowerInv => ExclusiveBorrower
  BY DEF OneBorrowerInv
<1>3. QED
  BY <1>1, <1>2, OneBorrowerNext, PTL DEF Spec

-----------------------------------------------------------------------------
\* No reservation without a handler

\* A handler that goes on keeps what it has reserved covered.
LEMMA HandlerGoesOn ==
  ASSUME TypeInv, ReservationHasHandler, reserved' = reserved,
         \A b \in Borrows : Borrowing(b) => Borrowing(b)'
  PROVE  ReservationHasHandler'
BY DEF ReservationHasHandler

\* A handler that ends covers no reservation but the one it releases.
LEMMA HandlerEnds ==
  ASSUME TypeInv, ReservationHasHandler, NEW b \in Borrows, NEW how \in Over, Finish(b, how)
  PROVE  ReservationHasHandler'
<1> USE BorrowingAssumption
<1>1. SessionOf[b] \in Sessions /\ TabOf[b] \in Tabs
  BY DEF Requests
<1>2. \A x \in Borrows \ {b} : at'[x] = at[x]
  BY DEF Finish, TypeInv, TypeOK
<1>3. ASSUME NEW t \in Tabs, reserved'[t] # None
      PROVE  \E x \in Borrows : Borrowing(x)' /\ TabOf[x] = t /\ SessionOf[x] = reserved'[t]
  <2>1. reserved'[t] = reserved[t] /\ ~(t = TabOf[b] /\ reserved[t] = SessionOf[b])
    BY <1>1, <1>3 DEF Finish, Released, TypeInv, TypeOK
  <2>2. PICK x \in Borrows : Borrowing(x) /\ TabOf[x] = t /\ SessionOf[x] = reserved[t]
    BY <1>3, <2>1 DEF ReservationHasHandler
  <2>3. x # b
    BY <2>1, <2>2
  <2>4. QED
    BY <1>2, <2>1, <2>2, <2>3 DEF Borrowing
<1>4. QED
  BY <1>3 DEF ReservationHasHandler

LEMMA HandlerNext ==
  TypeInv /\ ReservationHasHandler /\ [Next]_vars => ReservationHasHandler'
<1> SUFFICES ASSUME TypeInv, ReservationHasHandler, [Next]_vars
             PROVE  ReservationHasHandler'
  OBVIOUS
<1> USE BorrowingAssumption
<1>1. CASE reserved' = reserved /\ at' = at
  BY <1>1, HandlerGoesOn DEF Borrowing
<1>2. ASSUME NEW b \in Borrows, BorrowBegin(b)
      PROVE  ReservationHasHandler'
  <2> DEFINE s == SessionOf[b]
             t == TabOf[b]
  <2>1. s \in Sessions /\ t \in Tabs /\ ~Borrowing(b)
    BY <1>2 DEF Requests, BorrowBegin, Borrowing
  <2>2. \A x \in Borrows \ {b} : at'[x] = at[x]
    BY <1>2 DEF BorrowBegin, TypeInv, TypeOK
  <2>3. CASE reserved' = reserved
    BY <2>1, <2>2, <2>3, HandlerGoesOn DEF Borrowing
  <2>4. CASE at' = [at EXCEPT ![b] = "fetching"] /\ reserved' = [reserved EXCEPT ![t] = s]
    <3>1. Borrowing(b)'
      BY <2>4 DEF Borrowing, Over, TypeInv, TypeOK
    <3>2. reserved'[t] = s /\ \A u \in Tabs \ {t} : reserved'[u] = reserved[u]
      BY <2>1, <2>4 DEF TypeInv, TypeOK
    <3>3. \A x \in Borrows : Borrowing(x) => Borrowing(x)'
      BY <2>1, <2>2 DEF Borrowing
    <3>4. QED
      BY <3>1, <3>2, <3>3 DEF ReservationHasHandler
  <2>5. QED
    BY <1>2, <2>3, <2>4 DEF BorrowBegin
<1>3. ASSUME NEW b \in Borrows, NEW how \in Over, Finish(b, how)
      PROVE  ReservationHasHandler'
  BY <1>3, HandlerEnds
<1>4. ASSUME NEW b \in Borrows, NEW p \in {"asking", "moving", "moved", "activating"},
             reserved' = reserved, at' = [at EXCEPT ![b] = p]
      PROVE  ReservationHasHandler'
  BY <1>4, HandlerGoesOn DEF Borrowing, Over, TypeInv, TypeOK
<1>5. ASSUME NEW b \in Borrows, UserAllows(b) \/ BorrowStep(b)
      PROVE  ReservationHasHandler'
  <2>1. CASE UserAllows(b) \/ BorrowMove(b) \/ BorrowActivate(b)
    BY <1>4, <2>1 DEF UserAllows, BorrowMove, BorrowActivate
  <2>2. CASE BorrowFetch(b)
    BY <1>3, <1>4, <2>2 DEF BorrowFetch, Over
  <2>3. CASE BorrowDenied(b) \/ BorrowMoveFails(b) \/ BorrowRollback(b) \/ BorrowCommit(b)
    BY <1>3, <2>3 DEF BorrowDenied, BorrowMoveFails, BorrowRollback, BorrowCommit, Over
  <2>4. QED
    BY <1>5, <2>1, <2>2, <2>3 DEF BorrowStep
<1>6. QED
  BY <1>1, <1>2, <1>5, JobsAreGentle, OthersAreGentle DEF Next, Jobs

\* No reservation outlives the handlers that could release it, however the
\* requests of sessions overlap and end.
THEOREM NoLostReservation == Spec => []ReservationHasHandler
<1>1. Init => ReservationHasHandler
  BY DEF Init, ReservationHasHandler
<1>2. TypeInv /\ ReservationHasHandler /\ [Next]_vars => (TypeInv /\ ReservationHasHandler)'
  BY TypeInvNext, HandlerNext
<1>3. QED
  BY <1>1, <1>2, TypeInvInit, PTL DEF Spec
-----------------------------------------------------------------------------
\* Borrowed tabs come back

\* A borrow remembers a window that is not the Agent Window of its session.
HomeInv ==
  \A b \in Borrows :
    at[b] \in {"asking", "moving", "moved", "activating"} => home[b] # SessionOf[b]

LEMMA HomeNext ==
  TypeInv /\ HomeInv /\ [Next]_vars => HomeInv'
<1> SUFFICES ASSUME TypeInv, HomeInv, [Next]_vars
             PROVE  HomeInv'
  OBVIOUS
<1>1. CASE UNCHANGED borrows
  BY <1>1 DEF HomeInv, borrows
<1>2. ASSUME NEW b \in Borrows, BorrowBegin(b) \/ UserAllows(b) \/ BorrowStep(b),
             NEW x \in Borrows, at'[x] \in {"asking", "moving", "moved", "activating"}
      PROVE  home'[x] # SessionOf[x]
  <2>1. CASE x # b
    <3>1. at'[x] = at[x] /\ home'[x] = home[x]
      BY <1>2, <2>1 DEF BorrowBegin, UserAllows, BorrowStep, BorrowFetch, BorrowDenied, BorrowMove,
                        BorrowMoveFails, BorrowRollback, BorrowActivate, BorrowCommit, Finish,
                        TypeInv, TypeOK
    <3>2. QED
      BY <1>2, <3>1 DEF HomeInv
  <2>2. CASE x = b
    <3>1. CASE BorrowFetch(b)
      BY <1>2, <2>2, <3>1 DEF BorrowFetch, Finish, TypeInv, TypeOK
    <3>2. CASE UserAllows(b) \/ BorrowMove(b) \/ BorrowActivate(b)
      BY <1>2, <2>2, <3>2 DEF UserAllows, BorrowMove, BorrowActivate, HomeInv
    <3>3. CASE BorrowBegin(b)
      BY <1>2, <2>2, <3>3 DEF BorrowBegin, TypeInv, TypeOK
    <3>4. CASE BorrowDenied(b) \/ BorrowMoveFails(b) \/ BorrowRollback(b) \/ BorrowCommit(b)
      BY <1>2, <2>2, <3>4 DEF BorrowDenied, BorrowMoveFails, BorrowRollback, BorrowCommit, Finish,
                              TypeInv, TypeOK
    <3>5. QED
      BY <1>2, <3>1, <3>2, <3>3, <3>4 DEF BorrowStep
  <2>3. QED
    BY <2>1, <2>2
<1>3. CASE \E b \in Borrows : BorrowBegin(b) \/ UserAllows(b) \/ BorrowStep(b)
  BY <1>2, <1>3 DEF HomeInv
<1>4. QED
  BY <1>1, <1>3
     DEF Next, ReturnBegin, StopBegin, CleanupNext, ReturnStep, Lookup, ChooseFallback,
         ReturnAborted, ReturnMove, ReturnMoveFails, ReturnDone, StopStep, StopNextTab, StopDecide,
         StopCloseWindow, StopCannotClose, StopForget, SessionStep, StartWindow, StartRegister,
         StartAborted, WindowRemoved, Abort, Disconnect, UserStep, UserClosesWindow,
         UserClosesTab, UserMovesTab, vars

\* Only a rollback refuses a borrow whose tab has moved, and it moves the tab
\* to where it was found.
LEMMA RefusedGoesHome ==
  ASSUME TypeInv, HomeInv, [Next]_vars,
         NEW b \in Borrows, at[b] = "moved", at'[b] = "refused"
  PROVE  where'[TabOf[b]] # SessionOf[b]
<1> USE BorrowingAssumption
<1>1. PICK x \in Borrows : BorrowBegin(x) \/ UserAllows(x) \/ BorrowStep(x)
  BY JobsAreGentle, OthersAreGentle DEF Next, Jobs
<1>2. x = b
  BY <1>1 DEF BorrowBegin, UserAllows, BorrowStep, BorrowFetch, BorrowDenied, BorrowMove,
              BorrowMoveFails, BorrowRollback, BorrowActivate, BorrowCommit, Finish,
              TypeInv, TypeOK
<1>3. BorrowActivate(b) \/ BorrowRollback(b)
  BY <1>1, <1>2 DEF BorrowBegin, UserAllows, BorrowStep, BorrowFetch, BorrowDenied, BorrowMove,
                    BorrowMoveFails, BorrowCommit
<1>4. where' = [where EXCEPT ![TabOf[b]] = home[b]]
  BY <1>3 DEF BorrowActivate, BorrowRollback, Finish, TypeInv, TypeOK
<1>5. TabOf[b] \in Tabs /\ home[b] # SessionOf[b]
  BY DEF HomeInv
<1>6. QED
  BY <1>4, <1>5 DEF TypeInv, TypeOK

\* Who cancels a borrow and is told so has the tab back outside the Agent
\* Window, whatever the user, other handlers and stops did to it meanwhile.
THEOREM CancelledIsUndone == Spec => CancelledBorrowGivesBack
<1>1. Init => HomeInv
  BY DEF Init, HomeInv
<1>2. TypeInv /\ HomeInv /\ [Next]_vars => (TypeInv /\ HomeInv)'
  BY TypeInvNext, HomeNext
<1>3. TypeInv /\ HomeInv /\ [Next]_vars =>
        [\A b \in Borrows : (at[b] = "moved" /\ at'[b] = "refused")
           => where'[TabOf[b]] # SessionOf[b]]_vars
  BY RefusedGoesHome
<1>4. QED
  BY <1>1, <1>2, <1>3, TypeInvInit, PTL DEF Spec, CancelledBorrowGivesBack

\* Unless it has failed, a stop still has every borrowed tab on its list, and one
\* that is to close the window has none and has not failed.
OnList(j) ==
  /\ ~job[j].failed => \A t \in Tabs : borrowed[job[j].session][t] # None => t \in job[j].todo
  /\ job[j].at \in {"detaching", "closing"} => job[j].todo = {} /\ ~job[j].failed

\* A stop at work is for its session.
StopInv == \A j \in Stops : Working(j) => job[j].session = SessionOf[j] /\ OnList(j)

\* No borrow that the user has allowed is at work for a session while a stop of it is.
\* Borrows that are still being looked at or that wait for the user may be.
StopAlone ==
  \A j \in Stops, b \in Borrows : Working(j) /\ SessionOf[b] = SessionOf[j] =>
    at[b] \notin {"moving", "moved", "activating"}

\* The list stays complete while others borrow nothing for its session.
LEMMA ListStays ==
  ASSUME StopInv, NEW j \in Stops, job'[j] = job[j],
         Working(j) => \A t \in Tabs : borrowed'[SessionOf[j]][t] \in {borrowed[SessionOf[j]][t], None}
  PROVE  (Working(j) => job[j].session = SessionOf[j] /\ OnList(j))'
BY DEF StopInv, OnList, Working

\* What a borrow does, it does for itself and its own session.
LEMMA BorrowMoves ==
  ASSUME TypeInv, NEW b \in Borrows, UserAllows(b) \/ BorrowStep(b)
  PROVE  /\ job' = job
         /\ Borrowing(b)
         /\ \A x \in Borrows \ {b} : at'[x] = at[x]
         /\ \A s \in Sessions \ {SessionOf[b]} : borrowed'[s] = borrowed[s]
BY DEF UserAllows, BorrowStep, BorrowFetch, BorrowDenied, BorrowMove, BorrowMoveFails,
       BorrowRollback, BorrowActivate, BorrowCommit, Finish, Borrowing, Over, jobs,
       TypeInv, TypeOK

\* What a job does, it does to itself.
LEMMA JobMoves ==
  ASSUME TypeInv, NEW j \in Jobs,
         ReturnStep(j) \/ StopStep(j) \/ (j \in Returns /\ ReturnBegin(j))
           \/ (j \in Stops /\ StopBegin(j)) \/ (j = Cleanup /\ CleanupNext)
  PROVE  \A x \in Jobs \ {j} : job'[x] = job[x]
BY DEF ReturnStep, Lookup, ChooseFallback, ReturnAborted, ReturnMove, ReturnMoveFails,
       ReturnDone, StopStep, StopNextTab, StopDecide, StopCloseWindow, StopCannotClose, StopForget,
       ReturnBegin, StopBegin, BeginStop, CleanupNext, Retrieve, Outcome, EndStop, Set,
       TypeInv, TypeOK
\* The steps of a stop itself, be it for a request or for the cleanup.
LEMMA OwnList ==
  ASSUME TypeInv, NEW j \in Stops \cup {Cleanup}, OnList(j), ReturnStep(j) \/ StopStep(j)
  PROVE  Working(j)' => OnList(j)' /\ job'[j].session = job[j].session
<1> USE BorrowingAssumption
<1>1. j \in Jobs /\ j \notin Returns
  BY DEF Jobs, Requests
<1>2. job[j].session \in Sessions
  BY <1>1 DEF TypeInv, GoodJobs, JobRecords, ReturnStep, Lookup, ChooseFallback, ReturnAborted,
              ReturnMove, ReturnMoveFails, ReturnDone, StopStep, StopNextTab, StopDecide,
              StopCloseWindow, StopCannotClose, StopForget
<1>3. Gentle
  BY <1>1, JobsAreGentle
<1>4. \A t \in Tabs : borrowed'[job[j].session][t] # None => borrowed[job[j].session][t] # None
  BY <1>2, <1>3 DEF Gentle
<1>5. job[j] \in JobRecords
  BY <1>1 DEF TypeInv, GoodJobs
<1>6. CASE /\ job'[j].session = job[j].session
           /\ job'[j].todo = job[j].todo
           /\ job'[j].failed = job[j].failed
           /\ job'[j].at \in {"detaching", "closing"} =>
                job[j].at \in {"detaching", "closing"} \/ (job[j].todo = {} /\ ~job[j].failed)
  BY <1>4, <1>6 DEF OnList
<1>7. CASE /\ job'[j].session = job[j].session
           /\ job'[j].failed
           /\ job'[j].at \notin {"detaching", "closing"}
  BY <1>4, <1>7 DEF OnList
<1>8. CASE ~Working(j)'
  BY <1>8
<1>9. CASE ReturnStep(j)
  <2>1. CASE Outcome(j, FALSE)
    BY <1>1, <1>5, <1>7, <2>1 DEF Outcome, Set, TypeInv, JobRecords
  <2>2. CASE ReturnDone(j)
    <3>1. job' = [job EXCEPT ![j] = [job[j] EXCEPT !.at = "next", !.todo = @ \ {job[j].tab},
                                                   !.failed = @ \/ ~TRUE]]
      BY <1>1, <2>2 DEF ReturnDone, Outcome, Set
    <3>2. /\ job'[j].session = job[j].session
          /\ job'[j].todo = job[j].todo \ {job[j].tab}
          /\ job'[j].at = "next"
      BY <1>1, <1>5, <3>1 DEF TypeInv, JobRecords
    <3>3. ~job'[j].failed => ~job[j].failed
      BY <1>1, <1>5, <3>1 DEF TypeInv, JobRecords
    <3>4. \A t \in Tabs : borrowed'[job[j].session][t] # None => t # job[j].tab
      BY <1>1, <1>2, <2>2 DEF ReturnDone, TypeInv, TypeOK
    <3>5. QED
      BY <1>4, <3>2, <3>3, <3>4 DEF OnList
  <2>3. CASE Lookup(j)
    <3>1. job'[j] = [job[j] EXCEPT !.at = IF job[j].dest \in open THEN "move" ELSE "choose"]
      BY <1>1, <2>3 DEF Lookup, Set, TypeInv
    <3>2. QED
      BY <1>5, <1>6, <3>1 DEF JobRecords
  <2>4. CASE ReturnMove(j)
    <3>1. job'[j] = [job[j] EXCEPT !.at = "moved"]
      BY <1>1, <2>4 DEF ReturnMove, Set, TypeInv
    <3>2. QED
      BY <1>5, <1>6, <3>1 DEF JobRecords
  <2>5. CASE ReturnMoveFails(j) /\ ~Outcome(j, FALSE)
    <3>1. job'[j] = [job[j] EXCEPT !.at = "choose"]
      BY <1>1, <2>5 DEF ReturnMoveFails, Set, TypeInv
    <3>2. QED
      BY <1>5, <1>6, <3>1 DEF JobRecords
  <2>6. CASE ChooseFallback(j) /\ ~Outcome(j, FALSE)
    <3>1. PICK w, isNew :
            job'[j] = [job[j] EXCEPT !.at = "move", !.dest = w, !.fallback = TRUE, !.fresh = isNew]
      BY <1>1, <2>6 DEF ChooseFallback, Set, TypeInv
    <3>2. job'[j].session = job[j].session /\ job'[j].todo = job[j].todo
      BY <1>5, <3>1 DEF JobRecords
    <3>3. job'[j].failed = job[j].failed /\ job'[j].at = "move"
      BY <1>5, <3>1 DEF JobRecords
    <3>4. QED
      BY <1>6, <3>2, <3>3
  <2>7. QED
    BY <1>9, <2>1, <2>2, <2>3, <2>4, <2>5, <2>6 DEF ReturnStep, ReturnAborted
<1>10. CASE StopNextTab(j)
  <2>1. PICK t \in job[j].todo :
          \/ job'[j] = [job[j] EXCEPT !.at = "lookup", !.session = job[j].session, !.tab = t,
                                      !.dest = borrowed[job[j].session][t], !.fallback = FALSE,
                                      !.fresh = FALSE]
          \/ job'[j] = [job[j] EXCEPT !.todo = @ \ {t}, !.failed = TRUE]
    BY <1>1, <1>10 DEF StopNextTab, Retrieve, Set, TypeInv
  <2>2. job[j].at = "next"
    BY <1>10 DEF StopNextTab
  <2>3. CASE job'[j] = [job[j] EXCEPT !.todo = @ \ {t}, !.failed = TRUE]
    BY <1>5, <1>7, <2>2, <2>3 DEF JobRecords
  <2>4. CASE job'[j] = [job[j] EXCEPT !.at = "lookup", !.session = job[j].session, !.tab = t,
                                      !.dest = borrowed[job[j].session][t], !.fallback = FALSE,
                                      !.fresh = FALSE]
    <3>1. job'[j].session = job[j].session /\ job'[j].todo = job[j].todo
      BY <1>5, <2>4 DEF JobRecords
    <3>2. job'[j].failed = job[j].failed /\ job'[j].at = "lookup"
      BY <1>5, <2>4 DEF JobRecords
    <3>3. QED
      BY <1>6, <3>1, <3>2
  <2>5. QED
    BY <2>1, <2>3, <2>4
<1>11. CASE StopDecide(j) \/ StopCloseWindow(j) \/ StopCannotClose(j) \/ StopForget(j)
  BY <1>1, <1>5, <1>6, <1>8, <1>11
     DEF StopDecide, StopCloseWindow, StopCannotClose, StopForget, EndStop, Resting, Working, Set,
         TypeInv, JobRecords
<1>12. QED
  BY <1>9, <1>10, <1>11 DEF StopStep

LEMMA OwnStep ==
  ASSUME TypeInv, StopInv, NEW j \in Stops, ReturnStep(j) \/ StopStep(j)
  PROVE  (Working(j) => job[j].session = SessionOf[j] /\ OnList(j))'
<1>1. Working(j) /\ job[j].session = SessionOf[j] /\ OnList(j)
  BY DEF StopInv, Working, ReturnStep, Lookup, ChooseFallback, ReturnAborted, ReturnMove,
         ReturnMoveFails, ReturnDone, StopStep, StopNextTab, StopDecide, StopCloseWindow,
         StopCannotClose, StopForget
<1>2. QED
  BY <1>1, OwnList

\* It begins with every borrowed tab on its list.
LEMMA StopBegins ==
  ASSUME TypeInv, NEW j \in Stops, StopBegin(j)
  PROVE  (Working(j) => job[j].session = SessionOf[j] /\ OnList(j))'
<1>1. j \in Jobs
  BY DEF Jobs
<1>2. job'[j] = [Resting EXCEPT !.at = "next", !.session = SessionOf[j],
                                !.todo = BorrowedBy(SessionOf[j])]
  BY <1>1 DEF StopBegin, BeginStop, Set, TypeInv
<1>3. /\ job'[j].session = SessionOf[j]
      /\ job'[j].todo = BorrowedBy(SessionOf[j])
      /\ job'[j].at = "next"
  BY <1>2 DEF Resting
<1>4. QED
  BY <1>3 DEF StopBegin, OnList, BorrowedBy

\* Only the last step of a borrow that was allowed puts a tab among the borrowed ones.
LEMMA StopNext ==
  ASSUME TypeInv, StopAlone, StopInv, [Next]_vars
  PROVE  StopInv'
<1> USE BorrowingAssumption
<1> SUFFICES ASSUME NEW j \in Stops
             PROVE  (Working(j) => job[j].session = SessionOf[j] /\ OnList(j))'
  BY DEF StopInv
<1>1. j \in Jobs /\ j \notin Returns /\ j # Cleanup /\ SessionOf[j] \in Sessions
  BY DEF Jobs, Requests
<1>2. CASE Gentle /\ job'[j] = job[j]
  BY <1>1, <1>2, ListStays DEF Gentle
<1>3. ASSUME NEW b \in Borrows, BorrowBegin(b) \/ UserAllows(b) \/ BorrowStep(b)
      PROVE  (Working(j) => job[j].session = SessionOf[j] /\ OnList(j))'
  <2>1. job' = job
    BY <1>3, BorrowMoves DEF BorrowBegin, jobs
  <2>2. CASE BorrowBegin(b)
    BY <2>1, <2>2, ListStays DEF BorrowBegin
  <2>3. CASE BorrowCommit(b)
    <3>1. at[b] = "activating" /\ \A s \in Sessions \ {SessionOf[b]} : borrowed'[s] = borrowed[s]
      BY <2>3, BorrowMoves DEF BorrowCommit, BorrowStep
    <3>2. Working(j) => SessionOf[b] # SessionOf[j]
      BY <3>1 DEF StopAlone
    <3>3. QED
      BY <1>1, <2>1, <3>1, <3>2, ListStays
  <2>4. CASE ~BorrowBegin(b) /\ ~BorrowCommit(b)
    <3>1. Gentle
      BY <1>3, <2>4, BorrowIsGentle DEF BorrowStep
    <3>2. QED
      BY <1>2, <2>1, <3>1
  <2>5. QED
    BY <2>2, <2>3, <2>4
<1>4. ASSUME NEW x \in Jobs,
             ReturnStep(x) \/ StopStep(x) \/ (x \in Returns /\ ReturnBegin(x))
               \/ (x \in Stops /\ StopBegin(x)) \/ (x = Cleanup /\ CleanupNext)
      PROVE  (Working(j) => job[j].session = SessionOf[j] /\ OnList(j))'
  <2>1. CASE x # j
    BY <1>1, <1>2, <1>4, <2>1, JobMoves, JobsAreGentle
  <2>2. CASE x = j
    BY <1>1, <1>4, <2>2, OwnStep, StopBegins
  <2>3. QED
    BY <2>1, <2>2
<1>5. CASE \/ \E s \in Sessions : SessionStep(s)
           \/ \E x \in Borrows \cup Returns : Abort(x)
           \/ Disconnect
           \/ UserStep
           \/ UNCHANGED vars
  <2>1. job' = job
    BY <1>5 DEF SessionStep, StartWindow, StartRegister, StartAborted, WindowRemoved, Abort,
                Disconnect, UserStep, UserClosesWindow, UserClosesTab, UserMovesTab, vars, jobs
  <2>2. QED
    BY <1>2, <1>5, <2>1, OthersAreGentle
<1>6. QED
  BY <1>3, <1>4, <1>5 DEF Next, Jobs

\* A stop never closes the Agent Window on a tab of the user's that is borrowed or
\* being borrowed, except on one whose borrow the user has allowed and that is at work
\* beside the stop, as one the daemon has timed out may be: with any other requests of
\* the session overlapping it, with disconnects, cancels and a user who closes and drags.
THEOREM StopsSpareBorrowedTabs == Spec /\ []StopAlone => StopKeepsBorrowedTabs
<1>1. Init => StopInv
  BY DEF Init, StopInv, Working, Resting, Jobs
<1>2. StopAlone /\ StopInv => [\A j \in Stops : KeepsBorrowedTabs(j)]_vars
  <2>1. ASSUME StopAlone, StopInv, NEW j \in Stops, StopCloseWindow(j), NEW t \in Tabs
        PROVE  /\ borrowed[job[j].session][t] = None
               /\ \A b \in Borrows : (SessionOf[b] = job[j].session /\ TabOf[b] = t)
                                        => at[b] \notin {"moved", "activating"}
    <3>1. Working(j) /\ job[j].at = "detaching"
      BY <2>1 DEF Working, StopCloseWindow
    <3>2. QED
      BY <2>1, <3>1 DEF StopAlone, StopInv, OnList
  <2>2. QED
    BY <2>1 DEF KeepsBorrowedTabs
<1>3. TypeInv /\ StopAlone /\ StopInv /\ [Next]_vars => StopInv'
  BY StopNext
<1>4. QED
  BY <1>1, <1>2, <1>3, TypeInvInit, TypeInvNext, PTL DEF Spec, StopKeepsBorrowedTabs

\* While the daemon lets one request of a session at a time through, no borrow at all is
\* at work beside a stop.
AloneInv ==
  \A j \in Stops, b \in Borrows : Working(j) /\ SessionOf[b] = SessionOf[j] => ~Borrowing(b)

LEMMA AloneNext ==
  ASSUME ~Overlap, TypeInv, AloneInv, [Next]_vars
  PROVE  AloneInv'
<1> USE BorrowingAssumption
<1> SUFFICES ASSUME NEW j \in Stops, NEW b \in Borrows, Working(j)', SessionOf[b] = SessionOf[j]
             PROVE  ~Borrowing(b)'
  BY DEF AloneInv
<1>1. j \in Jobs /\ j # Cleanup /\ j \notin Returns
  BY DEF Jobs, Requests
<1>2. CASE Working(j) /\ at' = at
  BY <1>2 DEF AloneInv, Borrowing
<1>3. ASSUME NEW x \in Borrows, BorrowBegin(x) \/ UserAllows(x) \/ BorrowStep(x)
      PROVE  ~Borrowing(b)'
  <2>1. job' = job /\ \A y \in Borrows \ {x} : at'[y] = at[y]
    BY <1>3, BorrowMoves DEF BorrowBegin, jobs, TypeInv, TypeOK
  <2>2. Working(j)
    BY <2>1 DEF Working
  <2>3. CASE x = b
    BY <1>3, <2>2, <2>3, BorrowMoves DEF AloneInv, BorrowBegin, Accepts, Idle
  <2>4. CASE x # b
    BY <2>1, <2>2, <2>4 DEF AloneInv, Borrowing
  <2>5. QED
    BY <2>3, <2>4
<1>4. ASSUME NEW x \in Jobs,
             ReturnStep(x) \/ StopStep(x) \/ (x \in Returns /\ ReturnBegin(x))
               \/ (x \in Stops /\ StopBegin(x)) \/ (x = Cleanup /\ CleanupNext)
      PROVE  ~Borrowing(b)'
  <2>1. at' = at
    BY <1>4, JobsAreGentle
  <2>2. CASE x # j
    <3>1. job'[j] = job[j]
      BY <1>1, <1>4, <2>2, JobMoves
    <3>2. Working(j)
      BY <3>1 DEF Working
    <3>3. QED
      BY <1>2, <2>1, <3>2
  <2>3. CASE x = j /\ StopBegin(j)
    BY <2>1, <2>3 DEF StopBegin, Accepts, Idle, Borrowing
  <2>4. CASE x = j /\ (ReturnStep(j) \/ StopStep(j))
    <3>1. Working(j)
      BY <2>4 DEF Working, ReturnStep, Lookup, ChooseFallback, ReturnAborted, ReturnMove,
                  ReturnMoveFails, ReturnDone, StopStep, StopNextTab, StopDecide,
                  StopCloseWindow, StopCannotClose, StopForget
    <3>2. QED
      BY <1>2, <2>1, <3>1
  <2>5. QED
    BY <1>1, <1>4, <2>2, <2>3, <2>4
<1>5. CASE \/ \E s \in Sessions : SessionStep(s)
           \/ \E x \in Borrows \cup Returns : Abort(x)
           \/ Disconnect
           \/ UserStep
           \/ UNCHANGED vars
  <2>1. job' = job
    BY <1>5 DEF SessionStep, StartWindow, StartRegister, StartAborted, WindowRemoved, Abort,
                Disconnect, UserStep, UserClosesWindow, UserClosesTab, UserMovesTab, vars, jobs
  <2>2. Working(j)
    BY <2>1 DEF Working
  <2>3. QED
    BY <1>2, <1>5, <2>2, OthersAreGentle
<1>6. QED
  BY <1>3, <1>4, <1>5 DEF Next, Jobs

\* So the condition of StopsSpareBorrowedTabs fails only when requests of a session
\* overlap: the daemon's queue lets none through, and what it has timed out may be at work.
THEOREM StopsAreAlone == ASSUME ~Overlap PROVE Spec => []StopAlone
<1>1. Init => AloneInv
  BY DEF Init, AloneInv, Borrowing
<1>2. TypeInv /\ AloneInv /\ [Next]_vars => AloneInv'
  BY AloneNext
<1>3. AloneInv => StopAlone
  BY DEF AloneInv, StopAlone, Borrowing, Over
<1>4. QED
  BY <1>1, <1>2, <1>3, TypeInvInit, TypeInvNext, PTL DEF Spec

-----------------------------------------------------------------------------
\* The disconnect cleanup

\* No borrow is at work for the session that the cleanup stops.
CleanupAlone ==
  Working(Cleanup) => \A b \in Borrows : SessionOf[b] = job[Cleanup].session => ~Borrowing(b)

CleanupInv == Working(Cleanup) => OnList(Cleanup)

\* Nobody else borrows for that session.
LEMMA OnListStays ==
  ASSUME CleanupInv, job'[Cleanup] = job[Cleanup],
         \A t \in Tabs : Working(Cleanup) =>
           borrowed'[job[Cleanup].session][t] \in {borrowed[job[Cleanup].session][t], None}
  PROVE  CleanupInv'
BY DEF CleanupInv, OnList, Working

LEMMA CleanupInvNext ==
  TypeInv /\ CleanupAlone /\ CleanupInv /\ [Next]_vars => CleanupInv'
<1> SUFFICES ASSUME TypeInv, CleanupAlone, CleanupInv, [Next]_vars
             PROVE  CleanupInv'
  OBVIOUS
<1> USE BorrowingAssumption
<1>1. Cleanup \in Jobs /\ Cleanup \notin Returns /\ Cleanup \notin Stops
  BY DEF Jobs, Requests
<1>2. Working(Cleanup) => job[Cleanup].session \in Sessions
  BY <1>1 DEF Working, TypeInv, GoodJobs, JobRecords
<1>3. CASE Gentle /\ job'[Cleanup] = job[Cleanup]
  BY <1>2, <1>3, OnListStays DEF Gentle
<1>4. ASSUME NEW b \in Borrows, BorrowBegin(b) \/ UserAllows(b) \/ BorrowStep(b)
      PROVE  CleanupInv'
  <2>1. CASE BorrowBegin(b)
    BY <2>1, OnListStays DEF BorrowBegin, jobs
  <2>2. CASE UserAllows(b) \/ BorrowStep(b)
    <3>1. /\ job' = job
          /\ Borrowing(b)
          /\ \A s \in Sessions \ {SessionOf[b]} : borrowed'[s] = borrowed[s]
      BY <2>2, BorrowMoves
    <3>2. QED
      BY <1>2, <3>1, OnListStays DEF CleanupAlone
  <2>3. QED
    BY <1>4, <2>1, <2>2
<1>5. ASSUME NEW j \in Jobs,
             ReturnStep(j) \/ StopStep(j) \/ (j \in Returns /\ ReturnBegin(j))
               \/ (j \in Stops /\ StopBegin(j)) \/ (j = Cleanup /\ CleanupNext)
      PROVE  CleanupInv'
  <2>1. CASE j # Cleanup
    BY <1>1, <1>3, <1>5, <2>1, JobMoves, JobsAreGentle
  <2>2. CASE j = Cleanup /\ (ReturnStep(j) \/ StopStep(j))
    <3>1. Working(Cleanup)
      BY <2>2 DEF Working, ReturnStep, Lookup, ChooseFallback, ReturnAborted, ReturnMove,
                  ReturnMoveFails, ReturnDone, StopStep, StopNextTab, StopDecide, StopCloseWindow,
                  StopCannotClose, StopForget
    <3>2. QED
      BY <2>2, <3>1, OwnList DEF CleanupInv
  <2>3. CASE CleanupNext
    <3>1. CASE UNCHANGED job
      BY <2>3, <3>1, OnListStays DEF CleanupNext
    <3>2. ASSUME NEW s \in Sessions, BeginStop(Cleanup, s)
          PROVE  CleanupInv'
      <4>1. job'[Cleanup] = [Resting EXCEPT !.at = "next", !.session = s, !.todo = BorrowedBy(s)]
        BY <1>1, <3>2 DEF BeginStop, Set, TypeInv
      <4>2. /\ job'[Cleanup].session = s
            /\ job'[Cleanup].todo = BorrowedBy(s)
            /\ job'[Cleanup].at = "next"
        BY <4>1 DEF Resting
      <4>3. QED
        BY <2>3, <4>2 DEF CleanupInv, OnList, BorrowedBy, CleanupNext
    <3>3. QED
      BY <2>3, <3>1, <3>2 DEF CleanupNext, TypeInv, TypeOK
  <2>4. QED
    BY <1>1, <1>5, <2>1, <2>2, <2>3
<1>6. CASE \/ \E s \in Sessions : SessionStep(s)
           \/ \E x \in Borrows \cup Returns : Abort(x)
           \/ Disconnect
           \/ UserStep
           \/ UNCHANGED vars
  <2>1. job' = job
    BY <1>6 DEF SessionStep, StartWindow, StartRegister, StartAborted, WindowRemoved, Abort,
                Disconnect, UserStep, UserClosesWindow, UserClosesTab, UserMovesTab, vars, jobs
  <2>2. QED
    BY <1>3, <1>6, <2>1, OthersAreGentle
<1>7. QED
  BY <1>1, <1>4, <1>5, <1>6 DEF Next, Jobs

\* A borrow that the connection left at work is all that the cleanup can go wrong
\* on (TabBorrowing_cleanup.cfg): as long as none is at work for the session it is
\* stopping, it closes no Agent Window on a borrowed tab, whatever the user, Chrome,
\* a new connection and other requests do meanwhile.
THEOREM CleanupAloneSparesTabs == Spec /\ []CleanupAlone => CleanupKeepsBorrowedTabs
<1>1. Init => CleanupInv
  BY DEF Init, CleanupInv, Working, Resting, Jobs
<1>2. TypeInv /\ CleanupAlone /\ CleanupInv => [KeepsBorrowedTabs(Cleanup)]_vars
  <2>1. ASSUME CleanupAlone, CleanupInv, StopCloseWindow(Cleanup), NEW t \in Tabs
        PROVE  /\ borrowed[job[Cleanup].session][t] = None
               /\ \A b \in Borrows : (SessionOf[b] = job[Cleanup].session /\ TabOf[b] = t)
                                        => at[b] \notin {"moved", "activating"}
    <3>1. Working(Cleanup) /\ job[Cleanup].at = "detaching"
      BY <2>1 DEF Working, StopCloseWindow
    <3>2. QED
      BY <2>1, <3>1 DEF CleanupAlone, CleanupInv, OnList, Borrowing, Over
  <2>2. QED
    BY <2>1 DEF KeepsBorrowedTabs
<1>3. QED
  BY <1>1, <1>2, CleanupInvNext, TypeInvInit, TypeInvNext, PTL DEF Spec, CleanupKeepsBorrowedTabs

-----------------------------------------------------------------------------
\* TabBorrowing implements TabLoans

\* What a session has reserved it does not have yet.
FreshReservation ==
  \A s \in Sessions, t \in Tabs : reserved[t] = s => borrowed[s][t] = None

\* With the exclusive borrower: whatever is reserved is lent to nobody.
LoanInv == OneBorrowerInv /\ FreshReservation

LEMMA FreshNext ==
  LoanInv /\ [Next]_vars => LoanInv'
<1> SUFFICES ASSUME LoanInv, [Next]_vars
             PROVE  LoanInv'
  OBVIOUS
<1> USE BorrowingAssumption
<1>1. TypeInv /\ OneBorrowerInv'
  BY OneBorrowerNext DEF LoanInv, OneBorrowerInv
<1>2. CASE Gentle
  BY <1>1, <1>2 DEF LoanInv, FreshReservation, Gentle
<1>3. ASSUME NEW b \in Borrows, BorrowBegin(b)
      PROVE  LoanInv'
  <2>1. SessionOf[b] \in Sessions /\ TabOf[b] \in Tabs
    BY DEF Requests
  <2>2. borrowed' = borrowed
    BY <1>3 DEF BorrowBegin
  <2>3. \A t \in Tabs : reserved'[t] = reserved[t] \/
          (t = TabOf[b] /\ reserved'[t] = SessionOf[b] /\ borrowed[SessionOf[b]][t] = None)
    BY <1>1, <1>3 DEF BorrowBegin, TypeInv, TypeOK
  <2>4. QED
    BY <1>1, <2>1, <2>2, <2>3 DEF LoanInv, FreshReservation
<1>4. ASSUME NEW b \in Borrows, BorrowCommit(b)
      PROVE  LoanInv'
  <2>1. SessionOf[b] \in Sessions /\ TabOf[b] \in Tabs
    BY DEF Requests
  <2>2. \A t \in Tabs : reserved'[t] \in {reserved[t], None}
    BY <1>1, <1>4 DEF BorrowCommit, Finish, Released, TypeInv, TypeOK
  <2>3. reserved'[TabOf[b]] # SessionOf[b]
    BY <1>1, <1>4, <2>1 DEF BorrowCommit, Finish, Released, TypeInv, TypeOK
  <2>4. \A s \in Sessions, t \in Tabs :
          ~(s = SessionOf[b] /\ t = TabOf[b]) => borrowed'[s][t] = borrowed[s][t]
    BY <1>1, <1>4, <2>1 DEF BorrowCommit, TypeInv, TypeOK
  <2>5. QED
    BY <1>1, <2>1, <2>2, <2>3, <2>4 DEF LoanInv, FreshReservation
<1>5. QED
  BY <1>1, <1>2, <1>3, <1>4, BorrowIsGentle, JobsAreGentle, OthersAreGentle DEF Next, BorrowStep, Jobs

\* Who is at work for a session began when it was there.
Started == \A j \in Jobs :
  job[j].session \in Sessions => phase[job[j].session] \in {"live", "gone"}

\* A job goes on for its session, is through with it, or begins with a live one.
SameWork(r, j) == r.session = job[j].session \/ r.session = None \/ Live(r.session)

LEMMA OutcomeWork ==
  ASSUME TypeInv, NEW j \in Jobs, NEW ok \in BOOLEAN, Outcome(j, ok)
  PROVE  SameWork(job'[j], j)
<1>1. job[j] \in JobRecords
  BY DEF TypeInv, GoodJobs
<1>2. \/ job'[j] = [Resting EXCEPT !.at = "done"]
      \/ job'[j] = [job[j] EXCEPT !.at = "next", !.todo = @ \ {job[j].tab}, !.failed = @ \/ ~ok]
  BY DEF Outcome, Set, TypeInv
<1>3. CASE job'[j] = [job[j] EXCEPT !.at = "next", !.todo = @ \ {job[j].tab}, !.failed = @ \/ ~ok]
  BY <1>1, <1>3 DEF JobRecords, SameWork
<1>4. QED
  BY <1>2, <1>3 DEF Resting, SameWork

LEMMA RetrieveWork ==
  ASSUME TypeInv, NEW j \in Jobs, NEW s, NEW t, Retrieve(j, s, t, job[j])
  PROVE  job'[j].session = s
<1>1. job[j] \in JobRecords
  BY DEF TypeInv, GoodJobs
<1>2. job'[j] = [job[j] EXCEPT !.at = "lookup", !.session = s, !.tab = t,
                               !.dest = borrowed[s][t], !.fallback = FALSE, !.fresh = FALSE]
  BY DEF Retrieve, Set, TypeInv
<1>3. QED
  BY <1>1, <1>2 DEF JobRecords

LEMMA BeginStopWork ==
  ASSUME TypeInv, NEW j \in Jobs, NEW s, BeginStop(j, s)
  PROVE  job'[j].session = s /\ Live(s)
<1>1. job'[j] = [Resting EXCEPT !.at = "next", !.session = s, !.todo = BorrowedBy(s)]
  BY DEF BeginStop, Set, TypeInv
<1>2. QED
  BY <1>1 DEF BeginStop, Resting

LEMMA EndStopWork ==
  ASSUME TypeInv, NEW j \in Jobs, EndStop(j)
  PROVE  SameWork(job'[j], j)
BY DEF EndStop, Set, Resting, SameWork, TypeInv

LEMMA ReturnWork ==
  ASSUME TypeInv, NEW j \in Jobs, ReturnStep(j)
  PROVE  SameWork(job'[j], j)
<1>1. job[j] \in JobRecords
  BY DEF TypeInv, GoodJobs
<1>2. CASE Outcome(j, FALSE) \/ Outcome(j, TRUE)
  BY <1>2, OutcomeWork
<1>3. CASE Lookup(j)
  <2>1. job'[j] = [job[j] EXCEPT !.at = IF job[j].dest \in open THEN "move" ELSE "choose"]
    BY <1>3 DEF Lookup, Set, TypeInv
  <2>2. QED
    BY <1>1, <2>1 DEF JobRecords, SameWork
<1>4. CASE ChooseFallback(j) /\ ~Outcome(j, FALSE)
  <2>1. PICK w, isNew :
          job'[j] = [job[j] EXCEPT !.at = "move", !.dest = w, !.fallback = TRUE, !.fresh = isNew]
    BY <1>4 DEF ChooseFallback, Set, TypeInv
  <2>2. QED
    BY <1>1, <2>1 DEF JobRecords, SameWork
<1>5. CASE ReturnMove(j)
  <2>1. job'[j] = [job[j] EXCEPT !.at = "moved"]
    BY <1>5 DEF ReturnMove, Set, TypeInv
  <2>2. QED
    BY <1>1, <2>1 DEF JobRecords, SameWork
<1>6. CASE ReturnMoveFails(j) /\ ~Outcome(j, FALSE)
  <2>1. job'[j] = [job[j] EXCEPT !.at = "choose"]
    BY <1>6 DEF ReturnMoveFails, Set, TypeInv
  <2>2. QED
    BY <1>1, <2>1 DEF JobRecords, SameWork
<1>7. QED
  BY <1>2, <1>3, <1>4, <1>5, <1>6 DEF ReturnStep, ReturnAborted, ReturnDone

LEMMA StopWork ==
  ASSUME TypeInv, NEW j \in Jobs, StopStep(j)
  PROVE  SameWork(job'[j], j)
<1>1. job[j] \in JobRecords
  BY DEF TypeInv, GoodJobs
<1>2. CASE EndStop(j)
  BY <1>2, EndStopWork
<1>3. CASE StopNextTab(j)
  <2>1. PICK t \in job[j].todo :
          \/ Retrieve(j, job[j].session, t, job[j])
          \/ job'[j] = [job[j] EXCEPT !.todo = @ \ {t}, !.failed = TRUE]
    BY <1>3 DEF StopNextTab, Set, TypeInv
  <2>2. CASE Retrieve(j, job[j].session, t, job[j])
    BY <2>2, RetrieveWork DEF SameWork
  <2>3. CASE job'[j] = [job[j] EXCEPT !.todo = @ \ {t}, !.failed = TRUE]
    BY <1>1, <2>3 DEF JobRecords, SameWork
  <2>4. QED
    BY <2>1, <2>2, <2>3
<1>4. CASE StopDecide(j) /\ ~EndStop(j)
  <2>1. job'[j] = [job[j] EXCEPT !.at = "detaching"]
    BY <1>4 DEF StopDecide, Set, TypeInv
  <2>2. QED
    BY <1>1, <2>1 DEF JobRecords, SameWork
<1>5. CASE StopCloseWindow(j)
  <2>1. job'[j] = [job[j] EXCEPT !.at = "closing"]
    BY <1>5 DEF StopCloseWindow, Set, TypeInv
  <2>2. QED
    BY <1>1, <2>1 DEF JobRecords, SameWork
<1>6. QED
  BY <1>2, <1>3, <1>4, <1>5 DEF StopStep, StopCannotClose, StopForget

\* Sessions do not become young again.
LEMMA StartedStays ==
  ASSUME TypeInv, TypeInv', Started, Gentle, NEW j \in Jobs,
         \A x \in Jobs \ {j} : job'[x] = job[x],
         SameWork(job'[j], j)
  PROVE  Started'
<1> USE BorrowingAssumption
<1>1. \A s \in Sessions : phase[s] \in {"live", "gone"} => phase'[s] \in {"live", "gone"}
  BY DEF Gentle, TypeInv, TypeOK
<1>2. \A x \in Jobs : SameWork(job'[x], x)
  BY DEF SameWork
<1>3. QED
  BY <1>1, <1>2 DEF Started, SameWork, Live

LEMMA StartedNext ==
  TypeInv /\ Started /\ [Next]_vars => Started'
<1> SUFFICES ASSUME TypeInv, Started, [Next]_vars
             PROVE  Started'
  OBVIOUS
<1> USE BorrowingAssumption
<1>1. TypeInv'
  BY TypeInvNext
<1>2. Cleanup \in Jobs
  BY DEF Jobs
<1>3. ASSUME NEW j \in Jobs,
             ReturnStep(j) \/ StopStep(j) \/ (j \in Returns /\ ReturnBegin(j))
               \/ (j \in Stops /\ StopBegin(j)) \/ (j = Cleanup /\ CleanupNext)
      PROVE  Started'
  <2>1. Gentle /\ \A x \in Jobs \ {j} : job'[x] = job[x]
    BY <1>3, JobsAreGentle, JobMoves
  <2>2. CASE ReturnStep(j) \/ StopStep(j)
    BY <1>1, <2>1, <2>2, ReturnWork, StopWork, StartedStays
  <2>3. CASE j \in Returns /\ ReturnBegin(j)
    <3>1. SameWork(job'[j], j)
      BY <2>3, RetrieveWork DEF ReturnBegin, Accepts, SameWork
    <3>2. QED
      BY <1>1, <2>1, <3>1, StartedStays
  <2>4. CASE j \in Stops /\ StopBegin(j)
    BY <1>1, <2>1, <2>4, BeginStopWork, StartedStays DEF StopBegin, SameWork
  <2>5. CASE j = Cleanup /\ CleanupNext
    <3>1. SameWork(job'[j], j)
      BY <2>5, BeginStopWork DEF CleanupNext, SameWork
    <3>2. QED
      BY <1>1, <2>1, <3>1, StartedStays
  <2>6. QED
    BY <1>3, <2>2, <2>3, <2>4, <2>5
<1>4. CASE Gentle /\ job' = job
  BY <1>1, <1>2, <1>4, StartedStays DEF SameWork
<1>5. ASSUME NEW b \in Borrows, BorrowBegin(b) \/ UserAllows(b) \/ BorrowStep(b)
      PROVE  Started'
  <2>1. job' = job /\ phase' = phase
    BY <1>5 DEF BorrowBegin, UserAllows, BorrowStep, BorrowFetch, BorrowDenied, BorrowMove,
                BorrowMoveFails, BorrowRollback, BorrowActivate, BorrowCommit, sessions, jobs
  <2>2. QED
    BY <2>1 DEF Started
<1>6. CASE \/ \E s \in Sessions : SessionStep(s)
           \/ \E x \in Borrows \cup Returns : Abort(x)
           \/ Disconnect
           \/ UserStep
           \/ UNCHANGED vars
  <2>1. job' = job
    BY <1>6 DEF SessionStep, StartWindow, StartRegister, StartAborted, WindowRemoved, Abort,
                Disconnect, UserStep, UserClosesWindow, UserClosesTab, UserMovesTab, vars, jobs
  <2>2. QED
    BY <1>4, <1>6, <2>1, OthersAreGentle
<1>7. QED
  BY <1>2, <1>3, <1>5, <1>6 DEF Next, Jobs

\* The state of the promise, as the registries of the sessions have it.
Life == [s \in Sessions |-> IF phase[s] = "opening" THEN "new" ELSE phase[s]]
Lent == [t \in Tabs |-> {s \in Sessions : Live(s) /\ borrowed[s][t] # None}]

\* Who is not at the registries, or makes no difference there, makes no step of
\* the promise.
LEMMA SameLoans ==
  ASSUME Life' = Life, Lent' = Lent, reserved' = reserved
  PROVE  UNCHANGED Loans!vars
BY DEF Loans!vars, Life, Lent

LEMMA LoanStutter ==
  ASSUME UNCHANGED <<phase, borrowed, reserved>>
  PROVE  UNCHANGED Loans!vars
BY DEF Loans!vars, Live

LEMMA SameLife ==
  ASSUME phase' = phase
  PROVE  Life' = Life /\ \A s \in Sessions : Live(s)' <=> Live(s)
BY DEF Life, Live

LEMMA SameLent ==
  ASSUME phase' = phase, borrowed' = borrowed
  PROVE  Lent' = Lent
BY DEF Lent, Live

\* One lemma per action of the promise.
LEMMA MapPromise ==
  ASSUME NEW t \in Tabs, NEW s \in Sessions, phase' = phase, borrowed' = borrowed,
         Live(s), Lent[t] = {}, reserved[t] = None, reserved' = [reserved EXCEPT ![t] = s]
  PROVE  Loans!Next
<1>1. Loans!Promise(t, s)
  BY SameLife, SameLent DEF Loans!Promise, Life, Lent, Live
<1>2. QED
  BY <1>1 DEF Loans!Next

LEMMA MapWithdraw ==
  ASSUME NEW t \in Tabs, phase' = phase, Lent' = Lent,
         reserved[t] # None, reserved' = [reserved EXCEPT ![t] = None]
  PROVE  Loans!Next
<1>1. Loans!Withdraw(t)
  BY SameLife DEF Loans!Withdraw, Life, Lent
<1>2. QED
  BY <1>1 DEF Loans!Next

LEMMA MapLend ==
  ASSUME NEW t \in Tabs, NEW s \in Sessions, phase' = phase, Live(s), Lent[t] = {},
         reserved[t] = s, reserved' = [reserved EXCEPT ![t] = None],
         Lent' = [Lent EXCEPT ![t] = {s}]
  PROVE  Loans!Next
<1>1. Loans!Lend(t, s)
  BY SameLife DEF Loans!Lend, Life, Lent, Live
<1>2. QED
  BY <1>1 DEF Loans!Next

LEMMA MapReturn ==
  ASSUME NEW t \in Tabs, NEW s \in Sessions, phase' = phase, reserved' = reserved,
         s \in Lent[t], Lent' = [Lent EXCEPT ![t] = @ \ {s}]
  PROVE  Loans!Next
<1>1. Loans!Return(t, s)
  BY SameLife DEF Loans!Return, Life, Lent
<1>2. QED
  BY <1>1 DEF Loans!Next

LEMMA MapEnd ==
  ASSUME TypeInv, NEW s \in Sessions, Live(s), phase' = [phase EXCEPT ![s] = "gone"],
         borrowed' = borrowed, reserved' = reserved
  PROVE  Loans!Next
<1>1. Life[s] = "live" /\ Life' = [Life EXCEPT ![s] = "gone"]
  BY DEF Life, Live, TypeInv, TypeOK
<1>2. \A x \in Sessions : Live(x)' <=> (Live(x) /\ x # s)
  BY DEF Live, TypeInv, TypeOK
<1>3. Lent' = [t \in Tabs |-> Lent[t] \ {s}]
  <2>1. \A t \in Tabs : {x \in Sessions : Live(x)' /\ borrowed'[x][t] # None}
                          = {x \in Sessions : Live(x) /\ borrowed[x][t] # None} \ {s}
    BY <1>2
  <2>2. QED
    BY <2>1 DEF Lent
<1>4. Loans!End(s)
  BY <1>1, <1>3 DEF Loans!End, Life, Lent
<1>5. QED
  BY <1>4 DEF Loans!Next

LEMMA MapBegin ==
  ASSUME TypeInv, EmptyUntilLive, NEW s \in Sessions, phase[s] = "opening",
         NEW how \in {"live", "gone"}, phase' = [phase EXCEPT ![s] = how],
         borrowed' = borrowed, reserved' = reserved
  PROVE  Loans!Next
<1>1. Life[s] = "new" /\ Life' = [Life EXCEPT ![s] = how]
  BY DEF Life, TypeInv, TypeOK
<1>2. \A x \in Sessions : x # s => (Live(x)' <=> Live(x))
  BY DEF Live, TypeInv, TypeOK
<1>3. ~Live(s) /\ \A t \in Tabs : borrowed[s][t] = None
  BY DEF Live, EmptyUntilLive
<1>4. Lent' = Lent
  <2>1. \A t \in Tabs : {x \in Sessions : Live(x)' /\ borrowed'[x][t] # None}
                          = {x \in Sessions : Live(x) /\ borrowed[x][t] # None}
    BY <1>2, <1>3
  <2>2. QED
    BY <2>1 DEF Lent
<1>5. Loans!Begin(s)
  BY <1>1, <1>4 DEF Loans!Begin, Life, Lent
<1>6. QED
  BY <1>5 DEF Loans!Next

\* A borrow promises as it begins; it withdraws, or lends, as it ends.
LEMMA ReleaseMaps ==
  ASSUME TypeInv, NEW b \in Borrows, phase' = phase, borrowed' = borrowed, reserved' = Released(b)
  PROVE  Loans!Next \/ UNCHANGED Loans!vars
<1> USE BorrowingAssumption
<1>1. SessionOf[b] \in Sessions /\ TabOf[b] \in Tabs /\ SessionOf[b] # None
  BY DEF Requests
<1>2. CASE reserved[TabOf[b]] = SessionOf[b]
  BY <1>1, <1>2, SameLent, MapWithdraw DEF Released
<1>3. CASE reserved[TabOf[b]] # SessionOf[b]
  BY <1>3, LoanStutter DEF Released
<1>4. QED
  BY <1>2, <1>3

LEMMA BorrowMaps ==
  ASSUME LoanInv, NEW b \in Borrows, BorrowBegin(b) \/ UserAllows(b) \/ BorrowStep(b)
  PROVE  Loans!Next \/ UNCHANGED Loans!vars
<1> USE BorrowingAssumption
<1> DEFINE s == SessionOf[b]
           t == TabOf[b]
<1>1. s \in Sessions /\ t \in Tabs /\ s # None /\ TypeInv
  BY DEF Requests, LoanInv, OneBorrowerInv
<1>2. CASE BorrowBegin(b)
  <2>1. phase' = phase /\ borrowed' = borrowed
    BY <1>2 DEF BorrowBegin, sessions
  <2>2. CASE reserved' = reserved
    BY <2>1, <2>2, LoanStutter
  <2>3. CASE /\ borrowed[s][t] = None /\ ~OtherBorrower(t, s)
             /\ reserved' = [reserved EXCEPT ![t] = s]
    <3>1. Lent[t] = {} /\ reserved[t] \in {None, s}
      BY <1>1, <2>3 DEF OtherBorrower, Lent
    <3>2. Live(s)
      BY <1>2 DEF BorrowBegin, Accepts
    <3>3. CASE reserved[t] = s
      <4>1. reserved' = reserved
        BY <1>1, <2>3, <3>3 DEF TypeInv, TypeOK
      <4>2. QED
        BY <2>1, <4>1, LoanStutter
    <3>4. CASE reserved[t] = None
      BY <1>1, <2>1, <2>3, <3>1, <3>2, <3>4, MapPromise
    <3>5. QED
      BY <3>1, <3>3, <3>4
  <2>4. QED
    BY <1>2, <2>2, <2>3 DEF BorrowBegin
<1>3. CASE UserAllows(b) \/ BorrowMove(b) \/ BorrowActivate(b)
  BY <1>3, LoanStutter DEF UserAllows, BorrowMove, BorrowActivate, sessions
<1>4. CASE BorrowFetch(b) \/ BorrowDenied(b) \/ BorrowMoveFails(b) \/ BorrowRollback(b)
  <2>1. phase' = phase /\ borrowed' = borrowed /\ reserved' \in {reserved, Released(b)}
    BY <1>4 DEF BorrowFetch, BorrowDenied, BorrowMoveFails, BorrowRollback, Finish, sessions
  <2>2. QED
    BY <1>1, <2>1, ReleaseMaps, LoanStutter
<1>5. CASE BorrowCommit(b)
  <2>1. phase' = phase /\ reserved' = Released(b)
    BY <1>5 DEF BorrowCommit, Finish, sessions
  <2>2. CASE borrowed' = borrowed
    BY <1>1, <2>1, <2>2, ReleaseMaps
  <2>3. CASE Live(s) /\ reserved[t] = s /\ borrowed' = [borrowed EXCEPT ![s][t] = home[b]]
    <3>1. Lent[t] = {}
      BY <1>1, <2>3 DEF LoanInv, OneBorrowerInv, ReservedForOne, FreshReservation, Lent
    <3>2. reserved' = [reserved EXCEPT ![t] = None]
      BY <2>1, <2>3 DEF Released
    <3>3. \A x \in Sessions, u \in Tabs :
            borrowed'[x][u] = IF x = s /\ u = t THEN home[b] ELSE borrowed[x][u]
      BY <1>1, <2>3 DEF TypeInv, TypeOK
    <3>4. CASE home[b] = None
      <4>1. \A x \in Sessions, u \in Tabs : borrowed'[x][u] # None <=> borrowed[x][u] # None
        BY <1>1, <2>3, <3>3, <3>4 DEF LoanInv, FreshReservation
      <4>2. Lent' = Lent
        BY <2>1, <4>1, SameLife DEF Lent
      <4>3. QED
        BY <1>1, <2>1, <2>3, <3>2, <4>2, MapWithdraw
    <3>5. CASE home[b] # None
      <4>1. \A u \in Tabs : {x \in Sessions : Live(x)' /\ borrowed'[x][u] # None}
                              = IF u = t THEN {s}
                                ELSE {x \in Sessions : Live(x) /\ borrowed[x][u] # None}
        BY <1>1, <2>1, <2>3, <3>1, <3>3, <3>5, SameLife DEF Lent
      <4>2. Lent' = [Lent EXCEPT ![t] = {s}]
        BY <1>1, <4>1 DEF Lent
      <4>3. QED
        BY <1>1, <2>1, <2>3, <3>1, <3>2, <4>2, MapLend
    <3>6. QED
      BY <3>4, <3>5
  <2>4. QED
    BY <1>5, <2>2, <2>3 DEF BorrowCommit
<1>6. QED
  BY <1>2, <1>3, <1>4, <1>5 DEF BorrowStep

\* A tab that is moved back is returned, unless the session has ended meanwhile.
LEMMA ReturnMaps ==
  ASSUME TypeInv, NEW j \in Jobs, ReturnDone(j)
  PROVE  Loans!Next \/ UNCHANGED Loans!vars
<1> DEFINE s == job[j].session
           t == job[j].tab
<1>1. phase' = phase /\ reserved' = reserved /\ borrowed' = [borrowed EXCEPT ![s][t] = None]
  BY DEF ReturnDone, sessions
<1>2. s \in Sessions
  BY DEF ReturnDone, TypeInv, GoodJobs, JobRecords
<1>3. \A x \in Sessions, u \in Tabs :
        borrowed'[x][u] = IF x = s /\ u = t THEN None ELSE borrowed[x][u]
  BY <1>1, <1>2 DEF TypeInv, TypeOK
<1>4. \A u \in Tabs : {x \in Sessions : Live(x)' /\ borrowed'[x][u] # None}
                        = IF u = t THEN {x \in Sessions : Live(x) /\ borrowed[x][u] # None} \ {s}
                          ELSE {x \in Sessions : Live(x) /\ borrowed[x][u] # None}
  BY <1>1, <1>3, SameLife
<1>5. CASE t \in Tabs /\ s \in Lent[t]
  <2>1. Lent' = [Lent EXCEPT ![t] = @ \ {s}]
    BY <1>4, <1>5 DEF Lent
  <2>2. QED
    BY <1>1, <1>2, <1>5, <2>1, MapReturn
<1>6. CASE ~(t \in Tabs /\ s \in Lent[t])
  <2>1. Lent' = Lent
    BY <1>4, <1>6 DEF Lent
  <2>2. QED
    BY <1>1, <2>1, SameLoans, SameLife
<1>7. QED
  BY <1>5, <1>6

LEMMA SessionMaps ==
  ASSUME LoanInv, NEW s \in Sessions, SessionStep(s)
  PROVE  Loans!Next \/ UNCHANGED Loans!vars
<1>1. TypeInv /\ EmptyUntilLive
  BY DEF LoanInv, OneBorrowerInv
<1>2. borrowed' = borrowed /\ reserved' = reserved
  BY DEF SessionStep, StartWindow, StartRegister, StartAborted, WindowRemoved
<1>3. CASE StartWindow(s)
  <2>1. phase[s] = "new" /\ phase' = [phase EXCEPT ![s] = "opening"]
    BY <1>3 DEF StartWindow
  <2>2. Life' = Life /\ \A x \in Sessions : Live(x)' <=> Live(x)
    BY <1>1, <2>1 DEF Life, Live, TypeInv, TypeOK
  <2>3. Lent' = Lent
    BY <1>2, <2>2 DEF Lent
  <2>4. QED
    BY <1>2, <2>2, <2>3, SameLoans
<1>4. CASE StartRegister(s) \/ StartAborted(s)
  BY <1>1, <1>2, <1>4, MapBegin DEF StartRegister, StartAborted
<1>5. CASE WindowRemoved(s)
  BY <1>1, <1>2, <1>5, MapEnd DEF WindowRemoved
<1>6. QED
  BY <1>3, <1>4, <1>5 DEF SessionStep

\* A stop forgets its session, which may have gone with its window before.
LEMMA ForgetMaps ==
  ASSUME TypeInv, Started, NEW j \in Jobs, StopForget(j)
  PROVE  Loans!Next \/ UNCHANGED Loans!vars
<1> DEFINE s == job[j].session
<1>1. s \in Sessions /\ phase[s] \in {"live", "gone"}
  BY DEF StopForget, Started, TypeInv, GoodJobs, JobRecords
<1>2. /\ phase' = [phase EXCEPT ![s] = "gone"]
      /\ borrowed' = borrowed /\ reserved' = reserved
  BY DEF StopForget
<1>3. CASE Live(s)
  BY <1>1, <1>2, <1>3, MapEnd
<1>4. CASE phase[s] = "gone"
  <2>1. phase' = phase
    BY <1>2, <1>4 DEF TypeInv, TypeOK
  <2>2. QED
    BY <1>2, <2>1, LoanStutter
<1>5. QED
  BY <1>1, <1>3, <1>4 DEF Live

\* Every step of the handlers, of Chrome and of the user is a step of the promise
\* or is hidden: for any sessions, tabs and requests, overlapping or cut off, a tab
\* is lent to the one session it was promised to, while nobody had it and that
\* session was there, and it is free again once that session has returned it or ended.
THEOREM LoansAreKept == Spec => ImplementsLoans
<1>1. Init => Loans!Init
  BY DEF Init, Loans!Init, Live
<1>2. Init => LoanInv /\ Started
  <2>1. ASSUME Init
        PROVE  EmptyUntilLive /\ ReservedForOne /\ ExclusiveBorrower /\ FreshReservation
    BY <2>1 DEF Init, EmptyUntilLive, ReservedForOne, ExclusiveBorrower, FreshReservation, Live
  <2>2. ASSUME Init
        PROVE  Started
    BY <2>2, BorrowingAssumption DEF Init, Started, Resting
  <2>3. QED
    BY <2>1, <2>2, TypeInvInit DEF LoanInv, OneBorrowerInv
<1>3. LoanInv /\ Started /\ [Next]_vars => (LoanInv /\ Started)'
  BY FreshNext, StartedNext DEF LoanInv, OneBorrowerInv
<1>4. ASSUME LoanInv, Started, [Next]_vars
      PROVE  [Loans!Next]_(Loans!vars)
  <2>1. TypeInv
    BY <1>4 DEF LoanInv, OneBorrowerInv
  <2>2. ASSUME NEW b \in Borrows, BorrowBegin(b) \/ UserAllows(b) \/ BorrowStep(b)
        PROVE  Loans!Next \/ UNCHANGED Loans!vars
    BY <1>4, <2>2, BorrowMaps
  <2>3. ASSUME NEW j \in Jobs, ReturnStep(j) \/ StopStep(j)
        PROVE  Loans!Next \/ UNCHANGED Loans!vars
    <3>1. CASE ReturnDone(j)
      BY <2>1, <3>1, ReturnMaps
    <3>2. CASE StopForget(j)
      BY <1>4, <2>1, <3>2, ForgetMaps
    <3>3. CASE ~ReturnDone(j) /\ ~StopForget(j)
      BY <2>3, <3>3, LoanStutter
         DEF ReturnStep, Lookup, ChooseFallback, ReturnAborted, ReturnMove, ReturnMoveFails,
             StopStep, StopNextTab, StopDecide, StopCloseWindow, StopCannotClose, sessions
    <3>4. QED
      BY <3>1, <3>2, <3>3
  <2>4. ASSUME NEW s \in Sessions, SessionStep(s)
        PROVE  Loans!Next \/ UNCHANGED Loans!vars
    BY <1>4, <2>4, SessionMaps
  <2>5. CASE \/ \E j \in Returns : ReturnBegin(j)
             \/ \E j \in Stops : StopBegin(j)
             \/ CleanupNext
             \/ \E x \in Borrows \cup Returns : Abort(x)
             \/ Disconnect
             \/ UserStep
             \/ UNCHANGED vars
    BY <2>5, LoanStutter
       DEF ReturnBegin, StopBegin, CleanupNext, Abort, Disconnect, UserStep, UserClosesWindow,
           UserClosesTab, UserMovesTab, vars, sessions
  <2>6. QED
    BY <1>4, <2>2, <2>3, <2>4, <2>5 DEF Next, Jobs
<1>5. QED
  BY <1>1, <1>2, <1>3, <1>4, PTL DEF Spec, ImplementsLoans, Loans!Spec
===============================================================================
