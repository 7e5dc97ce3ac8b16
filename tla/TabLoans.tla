-------------------------------- MODULE TabLoans --------------------------------
(***************************************************************************)
(* What the extension promises about the user's tabs, without windows,     *)
(* confirmations or handlers: a tab is promised to one session before it   *)
(* is lent, it is lent to that session or not at all, and it is free again *)
(* before another one can have it.  TabBorrowing implements it.            *)
(***************************************************************************)
CONSTANTS
  Sessions,
  Tabs,
  None      \* no session

VARIABLES
  life,     \* per session
  promised, \* per tab: the session that may take it
  lent      \* per tab: the sessions that have it

vars == <<life, promised, lent>>

Init ==
  /\ life     = [s \in Sessions |-> "new"]
  /\ promised = [t \in Tabs |-> None]
  /\ lent     = [t \in Tabs |-> {}]

\* A session begins, or never does.
Begin(s) ==
  /\ life[s] = "new" /\ \E how \in {"live", "gone"} : life' = [life EXCEPT ![s] = how]
  /\ UNCHANGED <<promised, lent>>

\* A session asks for a tab that nobody has, and that was promised to nobody else.
Promise(t, s) ==
  /\ life[s] = "live" /\ lent[t] = {} /\ promised[t] = None
  /\ promised' = [promised EXCEPT ![t] = s]
  /\ UNCHANGED <<life, lent>>

\* It is refused, or whoever asked has ended: the session may have gone before.
Withdraw(t) ==
  /\ promised[t] # None /\ promised' = [promised EXCEPT ![t] = None]
  /\ UNCHANGED <<life, lent>>

\* Only to a session that is there, and that it was promised to.
Lend(t, s) ==
  /\ life[s] = "live" /\ lent[t] = {} /\ promised[t] = s
  /\ lent' = [lent EXCEPT ![t] = {s}] /\ promised' = [promised EXCEPT ![t] = None]
  /\ UNCHANGED life

Return(t, s) ==
  /\ s \in lent[t] /\ lent' = [lent EXCEPT ![t] = @ \ {s}]
  /\ UNCHANGED <<life, promised>>

\* What a session has when it ends is nobody's. It never begins again.
End(s) ==
  /\ life[s] = "live" /\ life' = [life EXCEPT ![s] = "gone"]
  /\ lent' = [t \in Tabs |-> lent[t] \ {s}]
  /\ UNCHANGED promised

Next ==
  \/ \E s \in Sessions : Begin(s) \/ End(s)
  \/ \E t \in Tabs : Withdraw(t) \/ \E s \in Sessions : Promise(t, s) \/ Lend(t, s) \/ Return(t, s)

Spec == Init /\ [][Next]_vars

=================================================================================
