------------------------------ MODULE MCScanGate -----------------------------
(***************************************************************************)
(* One rule and the two kinds of line it takes to move a finding: one that *)
(* matches the rule and one that does not.                                 *)
(***************************************************************************)
EXTENDS ScanGate

MCRuleTable ==
  [exec |-> [severity |-> "high", confidence |-> "medium", concept |-> "exec",
             scanner |-> "pattern", limit |-> 25, comments |-> FALSE,
             strings |-> FALSE, nearby |-> "any", window |-> 1]]
MCAlphabet == <<"exec">>
MCLineKinds == {EmptyLine, [EmptyLine EXCEPT !.text = "sink", !.found = {"exec"}]}

Spec == GateSpec

=============================================================================
