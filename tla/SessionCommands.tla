---------------------------- MODULE SessionCommands ----------------------------
(***************************************************************************)
(* What the daemon promises about the commands of a session, without       *)
(* queues, sockets or tasks: one command at a time holds the session, a    *)
(* request is sent at most once and never after it was revoked, and every  *)
(* command is answered once.  ToolDispatch implements it.                  *)
(***************************************************************************)
CONSTANTS
  Calls,      \* commands
  Sessions,
  SessionOf,  \* the session a command is for
  Locked      \* the commands that need the session to themselves

VARIABLES
  holder,    \* per session: the command that holds it, as a set
  phase,     \* per command
  answered   \* the commands whose caller has its answer

vars == <<holder, phase, answered>>

Phases == {"asked", "refused", "accepted", "revoked", "sent", "settled"}

Init ==
  /\ holder   = [s \in Sessions |-> {}]
  /\ phase    = [c \in Calls |-> "asked"]
  /\ answered = {}

Advance(c, from, to) ==
  /\ phase[c] \in from
  /\ phase' = [phase EXCEPT ![c] = to]

\* A locked command is accepted only while nothing holds its session; it may
\* have been revoked before.
Accept(c) ==
  /\ \E p \in {"accepted", "revoked"} : Advance(c, {"asked"}, p)
  /\ IF c \in Locked
     THEN /\ holder[SessionOf[c]] = {}
          /\ holder' = [holder EXCEPT ![SessionOf[c]] = {c}]
     ELSE UNCHANGED holder
  /\ UNCHANGED answered

Refuse(c) ==
  /\ Advance(c, {"asked"}, "refused")
  /\ answered' = answered \cup {c}
  /\ UNCHANGED holder

Revoke(c) == Advance(c, {"accepted"}, "revoked") /\ UNCHANGED <<holder, answered>>

Send(c) == Advance(c, {"accepted"}, "sent") /\ UNCHANGED <<holder, answered>>

Settle(c) ==
  /\ Advance(c, {"accepted", "revoked", "sent"}, "settled")
  /\ UNCHANGED <<holder, answered>>

Release(c) ==
  /\ phase[c] = "settled" /\ c \in holder[SessionOf[c]]
  /\ holder' = [holder EXCEPT ![SessionOf[c]] = @ \ {c}]
  /\ UNCHANGED <<phase, answered>>

\* The answer of an accepted command, which may be that it timed out.
Answer(c) ==
  /\ phase[c] \notin {"asked", "refused"}
  /\ c \notin answered
  /\ answered' = answered \cup {c}
  /\ UNCHANGED <<holder, phase>>

Next ==
  \E c \in Calls :
    \/ Accept(c) \/ Refuse(c) \/ Revoke(c) \/ Send(c)
    \/ Settle(c) \/ Release(c) \/ Answer(c)

Spec == Init /\ [][Next]_vars

================================================================================
