------------------------ MODULE MCFindingsLifecycle --------------------------
(***************************************************************************)
(* Small repositories for FindingsLifecycle.                               *)
(***************************************************************************)
EXTENDS FindingsLifecycle

CONSTANTS f1, f2, p1, p2, r1

MCIds == {f1, f2}
MCPaths == {p1, p2}
MCRules == {r1}
MCPathOf == [f \in MCIds |-> IF f = f1 THEN p1 ELSE p2]
\* p2 is a name such as app/[id].tsx, p1 is app/i.tsx.
MCGlobOf == [p \in MCPaths |-> {p1}]
\* Names without brackets.
PlainGlobOf == [p \in MCPaths |-> {p}]
MCRuleOf == [f \in MCIds |-> r1]

DiffScan(changed) == [FullScan EXCEPT !.diff = TRUE, !.changed = changed]
IncludeScan(include) == [FullScan EXCEPT !.include = include]

\* No `redassay add` but of an empty list.
NoRecords == {}
\* What an agent reports, and a record re-imported from an exported store.
OnlyNew == {NewFinding}
NewOrFixed ==
  {NewFinding,
   [Blank EXCEPT !.status = "fixed", !.comments = {"person"}, !.fix = 0]}

FullRun == {FullScan}

\* Full, by include, by diff, with files skipped and findings missed.
EveryKindOfRun ==
  {FullScan, IncludeScan({p1}), DiffScan({p1}), DiffScan({}),
   DiffScan({p2}), [DiffScan({p1, p2}) EXCEPT !.include = {p2}],
   [FullScan EXCEPT !.skipped = {p2}], [FullScan EXCEPT !.missed = {f1}]}

EmptyDiffRuns == {FullScan, DiffScan({})}

DefaultPrune == {{"verified"}}
BothPrunes == {{"verified"}, {"verified", "dismissed"}}

NoPatterns == {}
EachPath == {[rule |-> r1, path |-> p1], [rule |-> r1, path |-> p2]}

=============================================================================
