--------------------------- MODULE RequestPromise ----------------------------
(***************************************************************************)
(* What the action queue promises of each request while one agent drains it*)
(* and nobody clears it (src/engine/redassay/queue.py).  A request that an *)
(* agent has been handed is neither lost nor handed out again before it is *)
(* released; settled is final.  A request nobody has claimed yet may be    *)
(* lost, and then it never comes back.                                     *)
(***************************************************************************)

CONSTANT Requests

VARIABLES
  status,
  bound          \* is it promised at all?

Progress == {"unsent", "pending", "claimed", "settled", "lost"}

Moves ==
  {<<"unsent", "pending">>, <<"unsent", "lost">>,
   <<"pending", "claimed">>, <<"pending", "lost">>,
   <<"claimed", "settled">>, <<"claimed", "pending">>}

Init ==
  /\ status = [r \in Requests |-> "unsent"]
  /\ bound \in BOOLEAN

\* One rewrite of the file may move several requests.
Next ==
  /\ status' \in [Requests -> Progress]
  /\ bound' = bound
  /\ bound => \A r \in Requests :
       status'[r] = status[r] \/ <<status[r], status'[r]>> \in Moves

Spec == Init /\ [][Next]_<<status, bound>>

=============================================================================
