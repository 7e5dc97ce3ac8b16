---------------------------- MODULE MCToolDispatch ----------------------------
(* Small instances of ToolDispatch with one session (sessions share nothing   *)
(* but the socket): two gated commands, a read, a record_stop and a stop, of  *)
(* which each configuration takes two or three.                               *)
EXTENDS ToolDispatch, TLC

CONSTANTS click, again, read, finish, stop, s1

KindOf == click :> "input" @@ again :> "input" @@ read :> "read"
            @@ finish :> "record_stop" @@ stop :> "stop"
MCKind == [c \in Calls |-> KindOf[c]]
MCSessionOf == [c \in Calls |-> s1]
===============================================================================
