----------------------------- MODULE MCBoardPage -----------------------------
(***************************************************************************)
(* The page alone, with two findings and a server nothing else changes.    *)
(***************************************************************************)
EXTENDS BoardPage

Spec == PageSpec

=============================================================================
