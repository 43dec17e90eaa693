------------------------------- MODULE Mutex ---------------------------------
(***************************************************************************)
(* What "writes take a lock" promises (src/engine/redassay/store.py): at   *)
(* any time at most one process is between taking the lock and giving it   *)
(* up.  The promise may be called off, for good: the program does so when  *)
(* it takes a lock to be abandoned because of its age.                     *)
(***************************************************************************)
CONSTANTS Proc, NoOne

VARIABLES holder, void

Init == holder = NoOne /\ void = FALSE

Acquire(p) == holder = NoOne /\ holder' = p /\ void' = void

Release(p) == holder = p /\ holder' = NoOne /\ void' = void

\* From here on the holder may be anyone.
CallOff == void' = TRUE

Next == CallOff \/ \E p \in Proc : Acquire(p) \/ Release(p)

Spec == Init /\ [][Next]_<<holder, void>>

=============================================================================
