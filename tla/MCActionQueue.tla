---------------------------- MODULE MCActionQueue ----------------------------
(***************************************************************************)
(* Small queues: fixes for the agent and a comment the board settles.      *)
(***************************************************************************)
EXTENDS ActionQueue

CONSTANTS fix1, fix2, note

Fixes == {fix1, fix2}
FixesAndNote == {fix1, fix2, note}

=============================================================================
