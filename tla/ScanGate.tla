------------------------------ MODULE ScanGate -------------------------------
(***************************************************************************)
(* Scans of a file that is being edited, the reviewer's dismissals, the    *)
(* baseline and the exit code a build goes by: engine.scan_and_merge and   *)
(* exit_code, cmd_scan and cmd_baseline of src/engine/redassay.            *)
(***************************************************************************)
EXTENDS SourceScan

CONSTANTS
  LineKinds,     \* what the file's lines may be
  InsertedAnywhere,  \* are lines put in anywhere, or on top only?
  Floors,        \* the --min-severity values
  FailOn,        \* the --fail-on value of the build
  MaxLength,     \* bound on the length of the file
  MaxEdits       \* bound on edits of it

ASSUME GateAssumption ==
  /\ LineKinds \subseteq LineRecord
  /\ MaxLength \in Nat \ {0}

VARIABLES
  lines,         \* external: the file
  marks,         \* external: which line of the author's each one is
  store,         \* the findings of the store, by id
  report,        \* result.findings of the last scan
  exitCode,      \* of that scan
  fresh,         \* the file has not been edited since
  baseline,      \* the ids in baseline.json
  frozen,        \* history: the lines when a baseline of all was taken
  judged,        \* history: what the reviewer has dismissed, by line and rule
  edits

gateVars ==
  <<lines, marks, store, report, exitCode, fresh, baseline, frozen, judged, edits>>

\* Identities a file of this length can give.
Identities ==
  UNION {line.found \X {line.text} \X (0 .. MaxLength - 1) : line \in LineKinds}

ThePath == "file"
GlobOfThePath == [p \in {ThePath} |-> {p}]
PathOfIdentity == [f \in Identities |-> ThePath]
RuleOfIdentity == [f \in Identities |-> f[1]]

Store == INSTANCE FindingsStore WITH
  Ids <- Identities, Paths <- {ThePath}, Rules <- RuleIds,
  PathOf <- PathOfIdentity, RuleOf <- RuleOfIdentity,
  AnyPath <- "*", GlobOf <- GlobOfThePath, MaxAge <- 0

Actionable == {"open", "confirmed", "queued", "fixing"}

GateInit ==
  /\ lines \in {<<kind>> : kind \in LineKinds}
  /\ marks = <<0>>
  /\ store = Store!EmptyStore
  /\ report = {}
  /\ exitCode = 0
  /\ fresh = FALSE
  /\ baseline = {}
  /\ frozen = <<>>
  /\ judged = {}
  /\ edits = 0

-----------------------------------------------------------------------------
(* Editing.                                                                *)

Edited ==
  /\ edits < MaxEdits
  /\ edits' = edits + 1
  /\ fresh' = FALSE
  /\ UNCHANGED <<store, report, exitCode, baseline, frozen, judged>>

InsertLine(kind, at) ==
  /\ Edited
  /\ Len(lines) < MaxLength
  /\ lines' = InsertAt(lines, at, kind)
  /\ marks' = InsertAt(marks, at, edits + 1)

RemoveLine(at) ==
  /\ Edited
  /\ lines' = RemoveAt(lines, at)
  /\ marks' = RemoveAt(marks, at)

-----------------------------------------------------------------------------
(* The commands.                                                           *)

\* All that the scanners report of the file, in some order.
Reports == SetToSeq(Detections(lines))

Incoming(found) ==
  [f \in Identities |-> IF \E g \in found : g.id = f
                        THEN [Store!Blank EXCEPT !.status = "open"]
                        ELSE Store!Blank]

\* exit_code looks at what the scan found, not at the store.
ExitCode(found, level) ==
  IF \E f \in found : Rank(f.severity) >= Rank(level) THEN 1 ELSE 0

\* cmd_scan: all of it goes into the store, whatever --new-only leaves out.
ScanCommand(newOnly, floor) ==
  LET found == Triage(Reports, floor)
      shown == IF newOnly THEN {f \in found : f.id \notin baseline} ELSE found
  IN  /\ store' = Store!Merge(store, Incoming(found), {}, {ThePath})
      /\ report' = shown
      /\ exitCode' = ExitCode(shown, FailOn)
      /\ fresh' = TRUE
      /\ UNCHANGED <<lines, marks, baseline, frozen, judged, edits>>

\* The reviewer dismisses what the last scan reported at a line.
DismissReported(f) ==
  /\ fresh
  /\ f \in report
  /\ store' = [store EXCEPT ![f.id] = Store!DismissedRecord(@)]
  /\ judged' = judged \cup {<<marks[f.line], f.rule>>}
  /\ UNCHANGED <<lines, marks, report, exitCode, fresh, baseline, frozen, edits>>

\* cmd_baseline freezes what is actionable, and nothing else.
TakeBaseline ==
  /\ baseline' = {f \in Identities : store[f].status \in Actionable}
  /\ frozen' = IF fresh /\ judged = {} /\ report = Triage(Reports, "info")
               THEN lines ELSE <<>>
  /\ UNCHANGED <<lines, marks, store, report, exitCode, fresh, judged, edits>>

GateNext ==
  \/ \E kind \in LineKinds, at \in 1 .. Len(lines) + 1 :
       /\ InsertedAnywhere \/ at = 1
       /\ InsertLine(kind, at)
  \/ \E at \in DOMAIN lines : RemoveLine(at)
  \/ \E newOnly \in BOOLEAN, floor \in Floors : ScanCommand(newOnly, floor)
  \/ \E f \in report : DismissReported(f)
  \/ TakeBaseline

GateSpec == GateInit /\ [][GateNext]_gateVars

-----------------------------------------------------------------------------

\* Which scanner yields its findings first decides nothing: reports of one
\* defect leave the same one whatever their order, the reports of others in
\* between do not matter, and the one that is left is as loud as any (dedupe,
\* _wins).
DedupeIgnoresOrder ==
  LET all == Detections(lines)
      kept == Dedupe(SetToSeq(all))
  IN  \A key \in {DedupeKey(f) : f \in all} :
        LET rivals == {f \in all : DedupeKey(f) = key}
            left == {f \in kept : DedupeKey(f) = key}
        IN  /\ \A order \in SetToSeqs(rivals) : Dedupe(order) = left
            /\ \A f \in rivals, g \in left : Priority(g) >= Priority(f)

\* The lines that change the identity of nothing below them.
Quiet(line) ==
  /\ line.found = {} /\ line.ignores = {} /\ ~line.near
  /\ ~line.fence /\ line.opens = 0 /\ line.triples % 2 = 0

IdsOf(file) == {f.id : f \in Detections(file)}

\* Identity survives motion: with lines put on top that no rule and no ignore
\* comment is about, every finding below has the identity it had (ids.py, the
\* line number is not part of it), whatever was cut off by max_matches,
\* excused or inside a sample.
MotionKeepsIdentity ==
  [][\A kind \in LineKinds :
       lines' = <<kind>> \o lines /\ Quiet(kind) => IdsOf(lines') = IdsOf(lines)]_lines

\* A ratchet that was set on the whole of a file, nothing of it dismissed,
\* passes that file for ever, through edits that were undone, dismissals
\* and scans with any floor in between.
RatchetPassesWhatItFroze ==
  [][\A floor \in Floors :
       frozen # <<>> /\ lines = frozen /\ ScanCommand(TRUE, floor) =>
         report' = {} /\ exitCode' = 0]_gateVars

\* "it stays dismissed" (docs/loop.md): what the reviewer dismissed at a line
\* is not open again at that line however the code moves.
DismissalSurvivesMotion ==
  fresh =>
    \A f \in report :
      <<marks[f.line], f.rule>> \in judged => store[f.id].status # "open"

\* "Exit 1 if anything at this level is open" (docs/cli.md): and only then.
GateIsAboutOpen ==
  fresh /\ exitCode = 1 => \E f \in report : store[f.id].status \in Actionable

=============================================================================
