--------------------------- MODULE MCSessionLifecycle ---------------------------
(* Small instances of SessionLifecycle: every stop is for the same session.   *)
EXTENDS SessionLifecycle

CONSTANTS a, b, cli, idle
MCStopOf == [t \in Stops |-> a]
===============================================================================
