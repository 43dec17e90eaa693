----------------------------- MODULE MCBoardApi -----------------------------
(***************************************************************************)
(* A board with one finding to review and one the store does not hold,     *)
(* which a batch from an old page may still name.                          *)
(***************************************************************************)
EXTENDS BoardApi

CONSTANTS f1, f2, p1, r1, t1, t2

MCIds == {f1, f2}
MCPathOf == [f \in MCIds |-> p1]
MCGlobOf == [p \in {p1} |-> {p1}]
MCRuleOf == [f \in MCIds |-> r1]

\* The page posts "confirmed" only.  Any client may post the others; one that
\* posts "queued" marks a finding as approved and asks nobody to fix it.
PostedTargets == Statuses \ {"queued"}

MCBatches == {<<f2, f1>>, <<f1, f2>>}

=============================================================================
