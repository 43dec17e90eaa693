-------------------------- MODULE FindingsLifecycle --------------------------
(***************************************************************************)
(* The life of findings under the redassay command line, one command at a  *)
(* time (src/engine/redassay/cli.py, engine.py, store.py): scans full and  *)
(* scoped, findings added by the agent, triage, fixes, suppression and     *)
(* pruning, while the audited code itself changes.  The board's handlers,  *)
(* the action queue and concurrent sessions are the subject of other       *)
(* modules; here every command runs from its load to its save alone.       *)
(***************************************************************************)
EXTENDS FindingsStore

CONSTANTS
  Scannable,     \* identities some scanner can report; the rest come from
                 \* the agent's reading of the code (redassay add)
  AddedRecords,  \* the records `redassay add` may be given for a finding
  ScanRuns,      \* the scan command lines considered (see ScanRun)
  PruneRuns,     \* the --status lists given to prune
  SuppressRuns   \* the patterns given to suppress and dismiss

\* One invocation of `redassay scan`.
ScanRun ==
  [include : SUBSET Paths,    \* --include / config.include; {} is no limit
   diff    : BOOLEAN,         \* --since was given
   changed : SUBSET Paths,    \* the files that differ from that ref
   skipped : SUBSET Paths,    \* exclude globs, ignore files, tests, size
   missed  : SUBSET Ids]      \* not reported although present: scanner left
                              \* out or crashed, below --min-severity

FullScan == [include |-> {}, diff |-> FALSE, changed |-> {},
             skipped |-> {}, missed |-> {}]

ASSUME LifecycleAssumption ==
  /\ Scannable \subseteq Ids
  /\ AddedRecords \subseteq {r \in FindingRecord : r.status # "absent"}
  /\ ScanRuns \subseteq ScanRun
  /\ PruneRuns \subseteq SUBSET Statuses
  /\ SuppressRuns \subseteq Patterns

VARIABLES
  present,       \* external: the defects the audited code contains now
  findings,      \* data["findings"]
  suppressions,  \* data["suppressions"], as a set
  standing       \* history: how long each finding has had its status

vars == <<present, findings, suppressions, standing>>

Init ==
  /\ present \in SUBSET Ids
  /\ findings = EmptyStore
  /\ suppressions = {}
  /\ standing = [f \in Ids |-> 0]

\* History only: a status that changes starts again at age 0.
KeepStanding ==
  standing' = [f \in Ids |->
                 IF findings'[f].status = findings[f].status
                 THEN standing[f] ELSE 0]

-----------------------------------------------------------------------------
(* scan                                                                    *)

\* The changed files an explicit --include leaves.
ChangedIncluded(run) ==
  IF run.include = {} THEN run.changed ELSE run.changed \cap run.include

\* engine.scan returns before the walk when --since finds no change.
EndsEarly(run) == run.diff /\ run.changed = {}

\* The `include` option of the walk; an empty list does not restrict it.
WalkInclude(run) == IF run.diff THEN ChangedIncluded(run) ELSE run.include

\* fnmatch reads each entry as a pattern, a changed file's name included: a
\* name with brackets opens the files its class matches, not its own.
Walked(run) ==
  IF EndsEarly(run) THEN {}
  ELSE {p \in Paths \ run.skipped :
          WalkInclude(run) = {} \/ \E g \in WalkInclude(run) : Matches(g, p)}

\* What the run would report if it were there.
LookedFor(run) == {f \in Scannable \ run.missed : PathOf[f] \in Walked(run)}

Detected(run) == present \cap LookedFor(run)

ScopedTo(run) ==
  IF run.diff /\ ~EndsEarly(run) THEN ChangedIncluded(run) ELSE {}

\* Mutant: the diff narrows the walk but not the scope of the merge.
ScopeIgnoringDiff(run) == IF run.include # {} THEN run.include ELSE Paths

\* result.scoped_to or list(config.include) or ["."]
ScanScope(run) ==
  IF ScopedTo(run) # {} THEN ScopedTo(run)
  ELSE IF run.include # {} THEN run.include
  ELSE Paths

NewFinding == [Blank EXCEPT !.status = "open"]

Batch(ids) == [f \in Ids |-> IF f \in ids THEN NewFinding ELSE Blank]

AfterScan(run) ==
  Merge(findings, Batch(Detected(run)), suppressions, ScanScope(run))

Scan(run) ==
  /\ findings' = AfterScan(run)
  /\ KeepStanding
  /\ UNCHANGED <<present, suppressions>>

-----------------------------------------------------------------------------
(* The commands of a person or of the agent.  One that names an unknown id *)
(* ends with an error before any change, and so has no action here.        *)

\* redassay add reads whole records, so an added finding may bring a status,
\* comments and a fix of its own.
AddedBatches == [Ids -> AddedRecords \cup {Blank}]

\* Merge with no scope, which takes every file as in scope.
AfterAdd(batch) == Merge(findings, batch, suppressions, Paths)

Add(batch) ==
  /\ findings' = AfterAdd(batch)
  /\ KeepStanding
  /\ UNCHANGED <<present, suppressions>>

EditRecord(f, r) ==
  /\ InStore(findings, f)
  /\ findings' = [findings EXCEPT ![f] = r]
  /\ KeepStanding
  /\ UNCHANGED present

\* redassay status: --strict turns an illegal move into an error, without it
\* the record is saved as it was; the store ends the same.
ChangeStatus(f, target) ==
  /\ EditRecord(f, Moved(findings[f], target))
  /\ UNCHANGED suppressions

Comment(f) ==
  /\ EditRecord(f, Commented(findings[f], "person"))
  /\ UNCHANGED suppressions

Dismiss(f) ==
  /\ EditRecord(f, DismissedRecord(findings[f]))
  /\ UNCHANGED suppressions

\* redassay dismiss --suppress-rule [--path-glob]
DismissRule(f, path) ==
  /\ [rule |-> RuleOf[f], path |-> path] \in SuppressRuns
  /\ EditRecord(f, DismissedRecord(findings[f]))
  /\ suppressions' = suppressions \cup {[rule |-> RuleOf[f], path |-> path]}

\* redassay resolve
Resolve(f) ==
  /\ EditRecord(f, FixRecorded(findings[f]))
  /\ UNCHANGED suppressions

Suppress(pattern) ==
  /\ suppressions' = suppressions \cup {pattern}
  /\ UNCHANGED <<present, findings, standing>>

\* redassay prune: the store is saved only when something was removed.
PruneStore(wanted, older) ==
  /\ Prunable(findings, wanted, older) # {}
  /\ findings' = Prune(findings, wanted, older)
  /\ KeepStanding
  /\ UNCHANGED <<present, suppressions>>

-----------------------------------------------------------------------------
(* The environment.                                                        *)

\* Somebody edits the audited code: a defect appears or goes away.
EditCode(f) ==
  /\ present' = IF f \in present THEN present \ {f} ELSE present \cup {f}
  /\ UNCHANGED <<findings, suppressions, standing>>

Tick ==
  /\ findings' = Aged(findings)
  /\ standing' = [f \in Ids |-> OneOlder(standing[f])]
  /\ UNCHANGED <<present, suppressions>>

-----------------------------------------------------------------------------

ScanStep == \E run \in ScanRuns : Scan(run)
AddStep == \E batch \in AddedBatches : Add(batch)
StatusStep == \E f \in Ids, target \in Statuses : ChangeStatus(f, target)
DismissStep ==
  \E f \in Ids : Dismiss(f) \/ \E path \in Paths \cup {AnyPath} : DismissRule(f, path)
PruneStep == \E wanted \in PruneRuns, older \in Ages : PruneStore(wanted, older)

Next ==
  \/ ScanStep
  \/ AddStep
  \/ StatusStep
  \/ \E f \in Ids : Comment(f)
  \/ DismissStep
  \/ \E f \in Ids : Resolve(f)
  \/ \E pattern \in SuppressRuns : Suppress(pattern)
  \/ PruneStep
  \/ \E f \in Ids : EditCode(f)
  \/ Tick

Spec == Init /\ [][Next]_vars

\* A repository whose owner keeps running the full scan.
FairSpec == Spec /\ WF_vars(Scan(FullScan))

-----------------------------------------------------------------------------
(* Properties.                                                             *)

TypeOK ==
  /\ present \subseteq Ids
  /\ findings \in Stores
  /\ suppressions \subseteq Patterns
  /\ standing \in [Ids -> Ages]

\* A finding enters the store as open, or with the status an added record
\* gives it, and then moves only along LegalTransitions, merge included although
\* it assigns the status of a regressed finding without asking can_transition.
LegalMove(f) ==
  LET old == findings[f].status
      new == findings'[f].status
  IN  CASE old = "absent" ->
             new \in {"absent", "open"} \cup {r.status : r \in AddedRecords}
        [] new = "absent" -> TRUE
        [] OTHER -> CanTransition(old, new)

OnlyLegalMoves == [][\A f \in Ids : LegalMove(f)]_vars

\* The properties of merge are stated of every reachable state and every
\* merge that could run next, so that one that changes nothing counts too.

\* "Re-scanning must never lose a human decision" (store.py): a merge, of a
\* scan or of an added batch, removes no finding, takes away no comment and
\* no fix record, and changes a status only from fixed or verified.
KeepsDecision(f, after) ==
  /\ InStore(after, f)
  /\ findings[f].comments \subseteq after[f].comments
  /\ after[f].fix = findings[f].fix
  /\ \/ after[f].status = findings[f].status
     \/ findings[f].status \in {"fixed", "verified"}

MergeKeepsDecisions ==
  \A f \in Reported(findings) :
    /\ \A run \in ScanRuns : KeepsDecision(f, AfterScan(run))
    /\ \A batch \in AddedBatches : KeepsDecision(f, AfterAdd(batch))

\* After a full scan the store agrees with the code for every finding a
\* scanner can report and no rule suppresses: what is present is in the
\* store and not counted as repaired, what is gone is not left at fixed.
AgreesWithCode(f, after) ==
  IF f \in present
  THEN after[f].status \notin {"absent", "fixed", "verified"}
  ELSE after[f].status # "fixed"

FullScanAgrees ==
  \A f \in Scannable :
    ~IsSuppressed(f, suppressions) => AgreesWithCode(f, AfterScan(FullScan))

\* The files a scan limited to a diff opens beside the diff: those that the
\* name of a changed file matches when it is read as a pattern.
OpenedByClass(run) ==
  {p \in Paths \ ScopedTo(run) : \E g \in ScopedTo(run) : Matches(g, p)}

\* A scan limited to a diff that left some file to look at retires nothing in
\* the other files, whatever it missed, and changes nothing there
\* (engine.scan_and_merge); but for what is in the code of a file that a
\* changed file's name matches as a pattern, which is then shown as open work.
DiffScanStaysInScope ==
  \A run \in ScanRuns :
    ScopedTo(run) # {} =>
      \A f \in Ids : PathOf[f] \notin ScopedTo(run) =>
        \/ AfterScan(run)[f] = findings[f]
        \/ /\ f \in present
           /\ PathOf[f] \in OpenedByClass(run)
           /\ AfterScan(run)[f].status \notin {"absent", "fixed", "verified"}

\* The MergeResult a scan prints and records names every finding whose
\* status the scan changes, and under `regressed` no other.
Becoming(status, after) ==
  {f \in Reported(findings) : /\ findings[f].status # status
                              /\ after[f].status = status}

ReportedRegressed(run) ==
  Regressed(findings, Batch(Detected(run)), suppressions)

ReportedVerified(run) ==
  VerifiedByMerge(findings, Batch(Detected(run)), suppressions, ScanScope(run))

ReportNamesChanges ==
  \A run \in ScanRuns :
    /\ ReportedRegressed(run) = Becoming("open", AfterScan(run))
    /\ Becoming("verified", AfterScan(run)) \subseteq ReportedVerified(run)

\* Someone who keeps running the full scan learns of a defect that stays in
\* the code, even if people go on marking it fixed, verified or pruned.
RegressionSurfaces ==
  \A f \in Scannable :
    <>[](f \in present /\ ~IsSuppressed(f, suppressions)) =>
      []<>(findings[f].status \notin {"absent", "fixed", "verified"})

\* A repaired finding does not stay at fixed for ever: a later scan settles
\* it, suppressed or not, scannable or not.
FixedIsSettled ==
  \A f \in Ids : <>[](f \notin present) => []<>(findings[f].status # "fixed")

-----------------------------------------------------------------------------
(* What the documentation or the comments say and the code does not do.    *)

\* models.py: verified means that a rescan no longer reproduces the finding;
\* architecture.md: what a scan did not look for is left alone.  So a finding
\* becomes verified by a scan that looked for it and did not find it, or
\* because somebody says so.
VerifiedIsEarned ==
  [][\A f \in Ids :
       findings[f].status # "verified" /\ findings'[f].status = "verified" =>
         \/ ChangeStatus(f, "verified")
         \/ \E run \in ScanRuns : f \in LookedFor(run) \ Detected(run) /\ Scan(run)]_vars

\* cmd_prune: it drops findings that had the status for that long.
PrunedHadStatusThatLong ==
  \A wanted \in PruneRuns, older \in Ages :
    \A f \in Prunable(findings, wanted, older) : standing[f] >= older

=============================================================================
