----------------------------- MODULE MCFileLock ------------------------------
(***************************************************************************)
(* Three processes contend for the lock of one store.                      *)
(***************************************************************************)
EXTENDS FileLock

CONSTANTS cli, board, agent

=============================================================================
