------------------------------ MODULE MCLocalCalls ------------------------------
(* Small instances of LocalCalls: two terminals. *)
EXTENDS LocalCalls, TLC

CONSTANTS c1, c2

MCTimeouts == {1, 30}
MCDurations == {0, 5, 300, 301}

\* One terminal records; the other records, ends the recording, waits or looks on.
MCMenu == c1 :> <<RecordStart>> @@ c2 :> <<RecordStop, WaitMs(5), Status(5)>>
StartMenu == [c \in Clients |-> <<SessionStart(FALSE, FALSE)>>]
RecordMenu == [c \in Clients |-> <<RecordStart, RecordStop>>]
===============================================================================
