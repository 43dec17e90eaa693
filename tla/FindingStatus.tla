---------------------------- MODULE FindingStatus ----------------------------
(***************************************************************************)
(* The status vocabulary of a finding and the transitions the program      *)
(* accepts (src/engine/redassay/models.py).  Pure definitions: the other   *)
(* modules move a finding only through these.                              *)
(***************************************************************************)

Statuses == {"open", "confirmed", "queued", "fixing", "fixed", "verified",
             "dismissed"}

LegalTransitions ==
  [open      |-> {"confirmed", "queued", "dismissed", "fixing", "fixed"},
   confirmed |-> {"queued", "dismissed", "fixing", "fixed", "open"},
   queued    |-> {"fixing", "fixed", "dismissed", "confirmed", "open"},
   fixing    |-> {"fixed", "queued", "dismissed", "open"},
   fixed     |-> {"verified", "open", "dismissed", "fixing"},
   verified  |-> {"open"},
   dismissed |-> {"open", "confirmed"}]

CanTransition(current, target) ==
  current = target \/ target \in LegalTransitions[current]

\* Mutant: set_status that never asks can_transition.
UncheckedSetStatus(current, target) == target

\* Finding.set_status without `strict`: an illegal move leaves the status
\* alone and only the return value says so.
SetStatus(current, target) ==
  IF CanTransition(current, target) THEN target ELSE current

=============================================================================
