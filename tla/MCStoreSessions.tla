--------------------------- MODULE MCStoreSessions ---------------------------
(***************************************************************************)
(* Three sessions: commands in processes of their own, or two requests to  *)
(* one board and a command.                                                *)
(***************************************************************************)
EXTENDS StoreSessions, TLC

CONSTANTS scan, dismiss, fix, board

OwnProcesses == [c \in {scan, dismiss, fix} |-> c]
OnBoard == [c \in {scan, dismiss, fix} |-> IF c = scan THEN scan ELSE board]
BothLayouts == {OwnProcesses, OnBoard}

\* Sound: either layout is the same with dismiss and fix exchanged.
Interchangeable == Permutations({dismiss, fix})

TwoCommands == {[c \in {scan, dismiss} |-> c]}

=============================================================================
