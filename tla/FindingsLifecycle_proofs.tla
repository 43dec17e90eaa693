---------------------- MODULE FindingsLifecycle_proofs -----------------------
(***************************************************************************)
(* Theorems about FindingsLifecycle, for every repository, every set of    *)
(* findings, rules and scan command lines.                                 *)
(***************************************************************************)
EXTENDS FindingsLifecycle, FindingsStore_proofs, TLAPS

(***************************************************************************)
(* What the scans and the added batches hand to the merge.                 *)
(***************************************************************************)

LEMMA NewFindingType == NewFinding \in FindingRecord /\ NewFinding.status = "open"
<1>1. 0 \in Ages
  BY IdentityAssumption DEF Ages
<1> QED
  BY <1>1 DEF NewFinding, Blank, FindingRecord, Statuses

LEMMA BatchType ==
  ASSUME NEW ids \in SUBSET Ids
  PROVE  /\ Batch(ids) \in Stores
         /\ \A f \in Ids : InStore(Batch(ids), f) <=> f \in ids
         /\ \A f \in ids : Batch(ids)[f].status = "open"
  BY BlankType, NewFindingType DEF Batch, Stores, InStore

LEMMA AddedType == AddedBatches \subseteq Stores
  BY BlankType, NewFindingType, LifecycleAssumption DEF AddedBatches, Stores

(***************************************************************************)
(* Type correctness.                                                       *)
(***************************************************************************)

LEMMA KeepStandingType ==
  ASSUME TypeOK, KeepStanding
  PROVE  standing' \in [Ids -> Ages]
  BY IdentityAssumption DEF TypeOK, KeepStanding, Ages

\* Editing one stored finding keeps the type of the store.
LEMMA EditRecordType ==
  ASSUME TypeOK, NEW f \in Ids, NEW r \in FindingRecord, EditRecord(f, r),
         suppressions' \subseteq Patterns
  PROVE  TypeOK'
<1>1. findings' \in Stores
  BY DEF TypeOK, EditRecord, Stores
<1>2. standing' \in [Ids -> Ages]
  BY KeepStandingType DEF EditRecord
<1> QED
  BY <1>1, <1>2 DEF TypeOK, EditRecord

\* Every state of every behaviour has the shape TypeOK describes: no command
\* leaves a status, a stamp or a suppression outside its vocabulary.
THEOREM TypeCorrect == Spec => []TypeOK
<1>1. Init => TypeOK
  BY BlankType, IdentityAssumption
     DEF Init, TypeOK, EmptyStore, Stores, Ages
<1>2. TypeOK /\ [Next]_vars => TypeOK'
  <2> SUFFICES ASSUME TypeOK, [Next]_vars
               PROVE  TypeOK'
    OBVIOUS
  <2>1. ASSUME NEW run \in ScanRuns, Scan(run)
        PROVE  TypeOK'
    <3>1. Batch(Detected(run)) \in Stores
      BY BatchType DEF Detected, TypeOK
    <3>2. findings' \in Stores
      BY <2>1, <3>1, MergeType DEF Scan, AfterScan, TypeOK
    <3> QED
      BY <2>1, <3>2, KeepStandingType DEF Scan, TypeOK
  <2>2. ASSUME NEW batch \in AddedBatches, Add(batch)
        PROVE  TypeOK'
    <3>1. findings' \in Stores
      BY <2>2, AddedType, MergeType DEF Add, AfterAdd, TypeOK
    <3> QED
      BY <2>2, <3>1, KeepStandingType DEF Add, TypeOK
  <2>3. ASSUME NEW f \in Ids, InStore(findings, f)
        PROVE  /\ findings[f] \in FindingRecord
               /\ findings[f].status # "absent"
    BY <2>3 DEF TypeOK, Stores, InStore
  <2>4. ASSUME NEW f \in Ids, NEW target \in Statuses, ChangeStatus(f, target)
        PROVE  TypeOK'
    <3>1. Moved(findings[f], target) \in FindingRecord
      BY <2>3, <2>4, EditType DEF ChangeStatus, EditRecord, Authors
    <3> QED
      BY <2>4, <3>1, EditRecordType DEF ChangeStatus, TypeOK
  <2>5. ASSUME NEW f \in Ids, Comment(f)
        PROVE  TypeOK'
    <3>1. Commented(findings[f], "person") \in FindingRecord
      BY <2>3, <2>5, EditType DEF Comment, EditRecord, Authors, Statuses
    <3> QED
      BY <2>5, <3>1, EditRecordType DEF Comment, TypeOK
  <2>6. ASSUME NEW f \in Ids, EditRecord(f, DismissedRecord(findings[f])),
               suppressions' \subseteq Patterns
        PROVE  TypeOK'
    <3>1. DismissedRecord(findings[f]) \in FindingRecord
      BY <2>3, <2>6, EditType DEF EditRecord, Authors, Statuses
    <3> QED
      BY <2>6, <3>1, EditRecordType
  <2>7. ASSUME DismissStep
        PROVE  TypeOK'
    BY <2>6, <2>7, LifecycleAssumption
       DEF DismissStep, Dismiss, DismissRule, TypeOK
  <2>8. ASSUME NEW f \in Ids, Resolve(f)
        PROVE  TypeOK'
    <3>1. FixRecorded(findings[f]) \in FindingRecord
      BY <2>3, <2>8, EditType DEF Resolve, EditRecord, Authors, Statuses
    <3> QED
      BY <2>8, <3>1, EditRecordType DEF Resolve, TypeOK
  <2>9. ASSUME NEW pattern \in SuppressRuns, Suppress(pattern)
        PROVE  TypeOK'
    BY <2>9, LifecycleAssumption DEF Suppress, TypeOK
  <2>10. ASSUME NEW wanted \in PruneRuns, NEW older \in Ages,
                PruneStore(wanted, older)
         PROVE  TypeOK'
    <3>1. findings' \in Stores
      BY <2>10, BlankType DEF PruneStore, Prune, TypeOK, Stores
    <3> QED
      BY <2>10, <3>1, KeepStandingType DEF PruneStore, TypeOK
  <2>11. ASSUME NEW f \in Ids, EditCode(f)
         PROVE  TypeOK'
    BY <2>11 DEF EditCode, TypeOK
  <2>12. ASSUME Tick
         PROVE  TypeOK'
    <3>1. OneOlder(NoFix) = NoFix
      BY IdentityAssumption DEF OneOlder, NoFix
    <3>2. \A r \in FindingRecord :
            [r EXCEPT !.fix = OneOlder(@), !.seen = OneOlder(@)] \in FindingRecord
      BY <3>1, OneOlderType DEF FindingRecord
    <3>3. findings' \in Stores
      BY <2>12, <3>2 DEF Tick, Aged, TypeOK, Stores
    <3> QED
      BY <2>12, <3>3, OneOlderType DEF Tick, TypeOK
  <2>13. CASE UNCHANGED vars
    BY <2>13 DEF vars, TypeOK
  <2> QED
    BY <2>1, <2>2, <2>4, <2>5, <2>7, <2>8, <2>9, <2>10, <2>11, <2>12, <2>13
       DEF Next, ScanStep, AddStep, StatusStep, PruneStep
<1> QED
  BY <1>1, <1>2, PTL DEF Spec

(***************************************************************************)
(* What a merge promises.  The four invariants below hold of every state   *)
(* that is type correct, so each follows from TypeCorrect.                 *)
(***************************************************************************)

LEMMA ScanInputs ==
  ASSUME TypeOK, NEW run
  PROVE  /\ Batch(Detected(run)) \in Stores
         /\ \A f \in Ids : InStore(Batch(Detected(run)), f) <=> f \in Detected(run)
         /\ \A f \in Detected(run) : Batch(Detected(run))[f].status = "open"
  BY BatchType DEF Detected, TypeOK

LEMMA DecisionsKeptStep == TypeOK => MergeKeepsDecisions
<1> SUFFICES ASSUME TypeOK, NEW f \in Ids, InStore(findings, f)
             PROVE  /\ \A run \in ScanRuns : KeepsDecision(f, AfterScan(run))
                    /\ \A batch \in AddedBatches : KeepsDecision(f, AfterAdd(batch))
  BY DEF MergeKeepsDecisions, Reported
<1>1. findings \in Stores
  BY DEF TypeOK
<1>2. ASSUME NEW incoming \in Stores, NEW scope
      PROVE  KeepsDecision(f, Merge(findings, incoming, suppressions, scope))
  <2> DEFINE after == Merge(findings, incoming, suppressions, scope)
  <2>1. /\ findings[f].comments \subseteq after[f].comments
        /\ after[f].fix = findings[f].fix
        /\ \/ after[f].status = findings[f].status
           \/ /\ findings[f].status \in {"fixed", "verified"}
              /\ after[f].status \in {"open", "verified"}
    BY <1>1, MergeCases
  <2>2. after[f].status # "absent"
    BY <2>1 DEF InStore
  <2> HIDE DEF after
  <2>3. KeepsDecision(f, after)
    BY <2>1, <2>2 DEF KeepsDecision, InStore
  <2> QED
    BY <2>3 DEF after
<1>3. \A run \in ScanRuns : KeepsDecision(f, AfterScan(run))
  BY <1>2, ScanInputs DEF AfterScan
<1>4. \A batch \in AddedBatches : KeepsDecision(f, AfterAdd(batch))
  BY <1>2, AddedType DEF AfterAdd
<1> QED
  BY <1>3, <1>4

\* "Re-scanning must never lose a human decision": whatever a scan or an
\* added batch reports, no stored finding, comment or fix record is lost and
\* no status changes but fixed and verified.
THEOREM DecisionsKept == Spec => []MergeKeepsDecisions
  BY TypeCorrect, DecisionsKeptStep, PTL

LEMMA FullScanLooksEverywhere ==
  /\ Walked(FullScan) = Paths
  /\ LookedFor(FullScan) = Scannable
  /\ ScanScope(FullScan) = Paths
<1>1. Walked(FullScan) = Paths
  BY DEF Walked, FullScan, EndsEarly, WalkInclude
<1>2. LookedFor(FullScan) = Scannable
  BY <1>1, IdentityAssumption, LifecycleAssumption DEF LookedFor, FullScan
<1>3. ScanScope(FullScan) = Paths
  BY DEF ScanScope, ScopedTo, FullScan
<1> QED
  BY <1>1, <1>2, <1>3

LEMMA ScanAgreesStep == TypeOK => FullScanAgrees
<1> SUFFICES ASSUME TypeOK, NEW f \in Scannable, ~IsSuppressed(f, suppressions)
             PROVE  AgreesWithCode(f, AfterScan(FullScan))
  BY DEF FullScanAgrees
<1> DEFINE incoming == Batch(Detected(FullScan))
           after == AfterScan(FullScan)
<1>1. f \in Ids /\ findings \in Stores /\ PathOf[f] \in Paths
  BY LifecycleAssumption, IdentityAssumption DEF TypeOK
<1>2. f \in Detected(FullScan) <=> f \in present
  BY FullScanLooksEverywhere DEF Detected
<1>3. /\ incoming \in Stores
      /\ f \in Seen(incoming, suppressions) <=> f \in present
      /\ f \in present => incoming[f].status = "open"
  BY <1>1, <1>2, ScanInputs DEF Seen, Reported
<1>4. f \in Gone(findings, incoming, suppressions, Paths) <=>
        f \notin present /\ InStore(findings, f)
  BY <1>1, <1>3 DEF Gone, Reported
<1>5. after = Merge(findings, incoming, suppressions, Paths)
  BY FullScanLooksEverywhere DEF AfterScan
<1> HIDE DEF incoming, after
<1>6. /\ ~InStore(findings, f) =>
           after[f] = IF f \in present THEN incoming[f] ELSE findings[f]
      /\ InStore(findings, f) =>
           after[f].status =
             IF f \in present /\ findings[f].status \in {"fixed", "verified"}
             THEN "open"
             ELSE IF f \notin present /\ findings[f].status = "fixed"
             THEN "verified"
             ELSE findings[f].status
  BY <1>1, <1>3, <1>4, <1>5, MergeCases
<1>7. AgreesWithCode(f, after)
  BY <1>3, <1>6 DEF AgreesWithCode, InStore
<1> QED
  BY <1>7 DEF after

\* A full scan makes the store agree with the code: a defect a scanner
\* reports is in the store and not taken as repaired, a repaired one is not
\* left at fixed.
THEOREM ScanAgrees == Spec => []FullScanAgrees
  BY TypeCorrect, ScanAgreesStep, PTL

LEMMA DiffScopeStep == TypeOK => DiffScanStaysInScope
<1> SUFFICES ASSUME TypeOK, NEW run \in ScanRuns, ScopedTo(run) # {},
                    NEW f \in Ids, PathOf[f] \notin ScopedTo(run)
             PROVE  \/ AfterScan(run)[f] = findings[f]
                    \/ /\ f \in present
                       /\ PathOf[f] \in OpenedByClass(run)
                       /\ AfterScan(run)[f].status \notin {"absent", "fixed", "verified"}
  BY DEF DiffScanStaysInScope
<1> DEFINE incoming == Batch(Detected(run))
           after == AfterScan(run)
<1>1. /\ run.diff
      /\ ~EndsEarly(run)
      /\ ScopedTo(run) = ChangedIncluded(run)
      /\ WalkInclude(run) = ScopedTo(run)
      /\ ScanScope(run) = ScopedTo(run)
  BY DEF ScopedTo, WalkInclude, ScanScope
<1>2. f \notin Gone(findings, incoming, suppressions, ScanScope(run))
  BY <1>1 DEF Gone
<1>3. /\ findings \in Stores /\ incoming \in Stores
      /\ after = Merge(findings, incoming, suppressions, ScanScope(run))
  BY ScanInputs DEF TypeOK, AfterScan
<1>4. CASE f \notin Seen(incoming, suppressions)
  <2>1. after[f] = findings[f]
    BY <1>2, <1>3, <1>4, MergeUntouched
  <2> QED
    BY <2>1
<1>5. CASE f \in Seen(incoming, suppressions)
  <2>1. /\ f \in present
        /\ PathOf[f] \in Walked(run)
        /\ incoming[f].status = "open"
    BY <1>5, ScanInputs DEF Seen, Reported, Detected, LookedFor
  <2>2. PathOf[f] \in OpenedByClass(run)
    BY <1>1, <2>1, IdentityAssumption DEF Walked, OpenedByClass
  <2> HIDE DEF incoming, after
  <2>3. after[f].status =
          IF ~InStore(findings, f) THEN "open"
          ELSE IF findings[f].status \in {"fixed", "verified"} THEN "open"
          ELSE findings[f].status
    BY <1>2, <1>3, <1>5, <2>1, MergeCases
  <2>4. after[f].status \notin {"absent", "fixed", "verified"}
    BY <2>3 DEF InStore
  <2> QED
    BY <2>1, <2>2, <2>4 DEF after
<1> QED
  BY <1>4, <1>5

\* A scan limited to a non-empty diff retires nothing in other files and
\* changes nothing there but for what it finds in a file whose name a
\* changed file's name matches as a pattern.
THEOREM DiffScopeKept == Spec => []DiffScanStaysInScope
  BY TypeCorrect, DiffScopeStep, PTL

LEMMA ReportStep == TypeOK => ReportNamesChanges
<1> SUFFICES ASSUME TypeOK, NEW run \in ScanRuns, NEW f \in Ids
             PROVE  /\ f \in ReportedRegressed(run) <=>
                          f \in Becoming("open", AfterScan(run))
                    /\ f \in Becoming("verified", AfterScan(run)) =>
                          f \in ReportedVerified(run)
  BY DEF ReportNamesChanges, ReportedRegressed, Regressed, Seen, Reported, Becoming
<1> DEFINE incoming == Batch(Detected(run))
           after == AfterScan(run)
<1>1. findings \in Stores /\ incoming \in Stores
  BY ScanInputs DEF TypeOK
<1>2. after = Merge(findings, incoming, suppressions, ScanScope(run))
  BY DEF AfterScan
<1>3. /\ f \in ReportedRegressed(run) <=>
            /\ f \in Seen(incoming, suppressions)
            /\ findings[f].status \in {"fixed", "verified"}
      /\ f \in ReportedVerified(run) <=>
            /\ f \in Gone(findings, incoming, suppressions, ScanScope(run))
            /\ findings[f].status \in {"fixed", "fixing"}
  BY DEF ReportedRegressed, ReportedVerified, Regressed, VerifiedByMerge, Seen,
         Reported, Gone
<1> HIDE DEF incoming, after
<1>4. InStore(findings, f) =>
        after[f].status =
          IF f \in Seen(incoming, suppressions) /\ findings[f].status \in {"fixed", "verified"}
          THEN "open"
          ELSE IF /\ f \in Gone(findings, incoming, suppressions, ScanScope(run))
                  /\ findings[f].status = "fixed"
          THEN "verified"
          ELSE findings[f].status
  BY <1>1, <1>2, MergeCases
<1>5. \A s : f \in Becoming(s, after) <=>
        InStore(findings, f) /\ findings[f].status # s /\ after[f].status = s
  BY DEF Becoming, Reported
<1>6. f \in ReportedRegressed(run) <=> f \in Becoming("open", after)
  BY <1>3, <1>4, <1>5 DEF InStore
<1>7. f \in Becoming("verified", after) => f \in ReportedVerified(run)
  BY <1>3, <1>4, <1>5
<1> QED
  BY <1>6, <1>7 DEF after

\* The merge result names every finding the scan reopened, no other, and
\* every finding it verified.
THEOREM ReportComplete == Spec => []ReportNamesChanges
  BY TypeCorrect, ReportStep, PTL

(***************************************************************************)
(* The status of a finding moves only along LegalTransitions.              *)
(***************************************************************************)

LEMMA SameStatusIsLegal ==
  ASSUME NEW f \in Ids, findings'[f].status = findings[f].status
  PROVE  LegalMove(f)
  BY DEF LegalMove, CanTransition

LEMMA MergeIsLegal ==
  ASSUME TypeOK, NEW incoming \in Stores, NEW scope, NEW f \in Ids,
         incoming[f].status \in
           {"absent", "open"} \cup {r.status : r \in AddedRecords},
         findings' = Merge(findings, incoming, suppressions, scope)
  PROVE  LegalMove(f)
<1>1. findings \in Stores
  BY DEF TypeOK
<1>2. CASE ~InStore(findings, f)
  <2>1. findings'[f].status \in {"absent", incoming[f].status}
    BY <1>1, <1>2, MergeCases DEF InStore
  <2> QED
    BY <1>2, <2>1 DEF LegalMove, InStore
<1>3. CASE InStore(findings, f)
  <2>1. \/ findings'[f].status = findings[f].status
        \/ findings[f].status = "fixed" /\ findings'[f].status = "verified"
        \/ /\ findings[f].status \in {"fixed", "verified"}
           /\ findings'[f].status = "open"
    BY <1>1, <1>3, MergeCases
  <2>2. CASE findings'[f].status = findings[f].status
    BY <2>2, SameStatusIsLegal
  <2>3. CASE /\ findings[f].status \in {"fixed", "verified"}
             /\ findings'[f].status \in {"open", "verified"}
    BY <2>3 DEF LegalMove, CanTransition, LegalTransitions
  <2> QED
    BY <2>1, <2>2, <2>3
<1> QED
  BY <1>2, <1>3

\* An edit of one finding that leaves it where SetStatus leaves it is legal.
LEMMA EditIsLegal ==
  ASSUME TypeOK, NEW g \in Ids, NEW r, EditRecord(g, r),
         NEW target \in Statuses,
         r.status \in {findings[g].status, SetStatus(findings[g].status, target)},
         NEW f \in Ids
  PROVE  LegalMove(f)
<1>1. findings'[f] = IF f = g THEN r ELSE findings[f]
  BY DEF EditRecord, TypeOK, Stores
<1>2. findings[g].status \in Statuses
  BY DEF EditRecord, InStore, TypeOK, Stores, FindingRecord
<1>3. CASE findings'[f].status = findings[f].status
  BY <1>3, SameStatusIsLegal
<1>4. CASE f = g /\ r.status = SetStatus(findings[g].status, target)
  <2>1. /\ CanTransition(findings[f].status, findings'[f].status)
        /\ findings[f].status # "absent" /\ findings'[f].status # "absent"
    BY <1>1, <1>2, <1>4, SetStatusType DEF Statuses
  <2> QED
    BY <2>1 DEF LegalMove
<1> QED
  BY <1>1, <1>3, <1>4

LEMMA LegalMovesStep == TypeOK /\ [Next]_vars => [\A f \in Ids : LegalMove(f)]_vars
<1> SUFFICES ASSUME TypeOK, Next, NEW f \in Ids
             PROVE  LegalMove(f)
  OBVIOUS
<1>1. ASSUME NEW run \in ScanRuns, Scan(run)
      PROVE  LegalMove(f)
  <2>1. /\ Batch(Detected(run)) \in Stores
        /\ Batch(Detected(run))[f].status \in {"absent", "open"}
    BY ScanInputs DEF InStore
  <2> QED
    BY <1>1, <2>1, MergeIsLegal DEF Scan, AfterScan
<1>2. ASSUME NEW batch \in AddedBatches, Add(batch)
      PROVE  LegalMove(f)
  <2>1. batch[f] \in AddedRecords \cup {Blank}
    BY DEF AddedBatches
  <2>2. batch[f].status \in {"absent", "open"} \cup {r.status : r \in AddedRecords}
    BY <2>1, BlankType
  <2> QED
    BY <1>2, <2>2, AddedType, MergeIsLegal DEF Add, AfterAdd
<1>3. ASSUME NEW g \in Ids, InStore(findings, g)
      PROVE  findings[g] \in FindingRecord
  BY DEF TypeOK, Stores
<1>4. ASSUME NEW g \in Ids, NEW target \in Statuses, ChangeStatus(g, target)
      PROVE  LegalMove(f)
  <2>1. Moved(findings[g], target).status = SetStatus(findings[g].status, target)
    BY <1>3, <1>4 DEF ChangeStatus, EditRecord, Moved, FindingRecord
  <2> QED
    BY <1>4, <2>1, EditIsLegal DEF ChangeStatus
<1>5. ASSUME NEW g \in Ids, Comment(g)
      PROVE  LegalMove(f)
  <2>1. Commented(findings[g], "person").status = findings[g].status
    BY <1>3, <1>5 DEF Comment, EditRecord, Commented, FindingRecord
  <2> QED
    BY <1>5, <2>1, EditIsLegal DEF Comment, Statuses
<1>6. ASSUME NEW g \in Ids, EditRecord(g, DismissedRecord(findings[g]))
      PROVE  LegalMove(f)
  <2>1. DismissedRecord(findings[g]).status = SetStatus(findings[g].status, "dismissed")
    BY <1>3, <1>6 DEF EditRecord, DismissedRecord, Moved, Commented, FindingRecord
  <2> QED
    BY <1>6, <2>1, EditIsLegal DEF Statuses
<1>7. ASSUME NEW g \in Ids, Resolve(g)
      PROVE  LegalMove(f)
  <2>1. FixRecorded(findings[g]).status = SetStatus(findings[g].status, "fixed")
    BY <1>3, <1>7 DEF Resolve, EditRecord, FixRecorded, Moved, FindingRecord
  <2> QED
    BY <1>7, <2>1, EditIsLegal DEF Resolve, Statuses
<1>8. ASSUME NEW wanted \in PruneRuns, NEW older \in Ages,
             PruneStore(wanted, older)
      PROVE  LegalMove(f)
  <2>1. findings'[f] = Blank \/ findings'[f] = findings[f]
    BY <1>8 DEF PruneStore, Prune
  <2> QED
    BY <2>1, BlankType, SameStatusIsLegal DEF LegalMove
<1>9. ASSUME Tick
      PROVE  LegalMove(f)
  <2>1. findings'[f].status = findings[f].status
    BY <1>9 DEF Tick, Aged, TypeOK, Stores, FindingRecord
  <2> QED
    BY <2>1, SameStatusIsLegal
<1>10. ASSUME UNCHANGED findings
       PROVE  LegalMove(f)
  BY <1>10, SameStatusIsLegal
<1> QED
  BY <1>1, <1>2, <1>4, <1>5, <1>6, <1>7, <1>8, <1>9, <1>10
     DEF Next, ScanStep, AddStep, StatusStep, DismissStep, Dismiss, DismissRule,
         Suppress, PruneStep, EditCode

\* A finding enters the store as open, or with the status an added record
\* gives it, and moves only along LegalTransitions,
\* by any command and by the merge of any scan.
THEOREM LegalMoves == Spec => OnlyLegalMoves
  BY TypeCorrect, LegalMovesStep, PTL DEF Spec, OnlyLegalMoves

=============================================================================
