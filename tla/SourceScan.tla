----------------------------- MODULE SourceScan ------------------------------
(***************************************************************************)
(* What one scan makes of one file: the line matching of the pattern       *)
(* scanner (src/engine/redassay/scanners/pattern.py), the identity of a    *)
(* finding (ids.py, Scanner.make_finding) and the triage of what the       *)
(* scanners report (triage.py).  Pure definitions.                         *)
(*                                                                         *)
(* A line is what the patterns see in it; its text is there for its        *)
(* identity only, blanks and the bodies of strings removed.                *)
(***************************************************************************)
EXTENDS Integers, SequencesExt

CONSTANTS
  RuleTable,      \* rule id -> a record of RuleRecord
  Markup,         \* is the file in a language with sample blocks?
  Tripled         \* is it in one with triple-quoted strings?

RuleIds == DOMAIN RuleTable

Severities == <<"info", "low", "medium", "high", "critical">>
Confidences == {"high", "medium", "low"}

Rank(severity) == CHOOSE n \in DOMAIN Severities : Severities[n] = severity

RuleRecord ==
  [severity : ToSet(Severities), confidence : Confidences,
   concept : STRING,                        \* EQUIVALENT, or the rule itself
   scanner : STRING, limit : Nat,           \* max_matches
   comments : BOOLEAN, strings : BOOLEAN,   \* match_comments, not skip_in_strings
   nearby : {"any", "needed", "absent"}, window : Nat]

ASSUME RuleTableAssumption ==
  IsFiniteSet(RuleIds) /\ \A rule \in RuleIds : RuleTable[rule] \in RuleRecord

-----------------------------------------------------------------------------
(* Lines.                                                                  *)

LineRecord ==
  [text : STRING, found : SUBSET RuleIds, excused : SUBSET RuleIds,
   quoted : BOOLEAN, near : BOOLEAN, comment : BOOLEAN, ignores : SUBSET RuleIds,
   long : BOOLEAN, fence : BOOLEAN, opens : Nat, closes : Nat, triples : Nat]

EmptyLine ==
  [text |-> "", found |-> {},    \* rules whose pattern matches
   excused |-> {},               \* those whose not_pattern does
   quoted |-> FALSE,             \* the match is inside a string
   near |-> FALSE,               \* what nearby patterns look for
   comment |-> FALSE, ignores |-> {}, long |-> FALSE,
   fence |-> FALSE, opens |-> 0, closes |-> 0, triples |-> 0]

\* sample_block_lines: after each line, whether a fence and how many sample
\* tags are open, and whether the line is inside a sample.
Outside == [fenced |-> FALSE, depth |-> 0, inside |-> FALSE]

AfterLine(was, line) ==
  IF line.fence \/ was.fenced
  THEN [fenced |-> (was.fenced # line.fence), depth |-> was.depth, inside |-> TRUE]
  ELSE [fenced |-> FALSE, depth |-> Max({0, was.depth + line.opens - line.closes}),
        inside |-> was.depth > 0 \/ line.opens > 0]

Samples(lines) ==
  LET after[i \in 0 .. Len(lines)] ==
        IF i = 0 THEN Outside ELSE AfterLine(after[i - 1], lines[i])
  IN  {i \in DOMAIN lines : Markup /\ after[i].inside}

\* heredoc_lines, with one kind of delimiter.
Heredocs(lines) ==
  LET open[i \in 0 .. Len(lines)] ==
        IF i = 0 THEN FALSE ELSE open[i - 1] # (lines[i].triples % 2 = 1)
  IN  {i \in DOMAIN lines :
         Tripled /\ (open[i - 1] \/ open[i] \/ lines[i].triples > 0)}

\* The patterns of nearby and nearby_absent see no comments.
NearWord(lines, i, radius) ==
  \E j \in DOMAIN lines :
    /\ i - radius <= j /\ j <= i + radius
    /\ lines[j].near /\ ~lines[j].comment

\* An inline comment excuses its own line and the one below.
SuppressedBySource(lines, i, rule) ==
  \/ rule \in lines[i].ignores
  \/ i > 1 /\ rule \in lines[i - 1].ignores

\* The lines of a file on which a rule's pattern counts.
Matching(lines, rule) ==
  LET r == RuleTable[rule]
      samples == Samples(lines)
      heredocs == Heredocs(lines)
  IN
  {i \in DOMAIN lines :
     /\ ~lines[i].long
     /\ i \notin samples
     /\ lines[i].comment => r.comments
     /\ rule \in lines[i].found \ lines[i].excused
     /\ ~r.strings => i \notin heredocs /\ ~lines[i].quoted
     /\ r.nearby = "needed" => NearWord(lines, i, r.window)
     /\ r.nearby = "absent" => ~NearWord(lines, i, r.window)
     /\ ~SuppressedBySource(lines, i, rule)}

\* Mutant: finding_id with the line number for a salt.
LineNumber(matching, i) == i

\* How many matches of the rule come before: the first has no salt.
Ordinal(matching, i) == Cardinality({j \in matching : j < i})

\* finding_id: a hash of rule, path, text and salt.
FindingId(rule, text, salt) == <<rule, text, salt>>

MakeFinding(rule, line, text, salt) ==
  [id |-> FindingId(rule, text, salt), rule |-> rule, line |-> line,
   severity |-> RuleTable[rule].severity, confidence |-> RuleTable[rule].confidence,
   scanner |-> RuleTable[rule].scanner]

\* scan_file: the first max_matches of each rule.
Detections(lines) ==
  UNION {LET matching == Matching(lines, rule)
         IN  {MakeFinding(rule, i, lines[i].text, Ordinal(matching, i)) :
                i \in {j \in matching : Cardinality({k \in matching : k < j})
                                           < RuleTable[rule].limit}} :
           rule \in RuleIds}

-----------------------------------------------------------------------------
(* Triage.                                                                 *)

SeverityWeight ==
  [critical |-> 100, high |-> 60, medium |-> 30, low |-> 12, info |-> 4]
ConfidenceWeight == [high |-> 100, medium |-> 65, low |-> 35]

ScannerPrecedence(scanner) ==
  CASE scanner = "python-ast" -> 100
    [] scanner = "secrets" -> 75
    [] scanner = "pattern" -> 40
    [] OTHER -> 0

\* In hundredths.  A file's path weighs on all its findings alike.
Priority(f) == SeverityWeight[f.severity] * ConfidenceWeight[f.confidence]

Concept(f) == RuleTable[f.rule].concept

DedupeKey(f) == <<Concept(f), f.line>>

\* Rule ids are compared by their place in the alphabet.
CONSTANT Alphabet

ASSUME AlphabetAssumption ==
  /\ DOMAIN Alphabet \subseteq Nat
  /\ \A rule \in RuleIds : \E n \in DOMAIN Alphabet : Alphabet[n] = rule

\* Mutant: the last tie is not broken.
WinsWithoutRuleId(candidate, incumbent) ==
  \/ Priority(candidate) > Priority(incumbent)
  \/ /\ Priority(candidate) = Priority(incumbent)
     /\ ScannerPrecedence(candidate.scanner) > ScannerPrecedence(incumbent.scanner)

Wins(candidate, incumbent) ==
  LET rank(f) == ScannerPrecedence(f.scanner)
      place(f) == CHOOSE n \in DOMAIN Alphabet : Alphabet[n] = f.rule
  IN  IF Priority(candidate) # Priority(incumbent)
      THEN Priority(candidate) > Priority(incumbent)
      ELSE IF rank(candidate) # rank(incumbent)
           THEN rank(candidate) > rank(incumbent)
           ELSE place(candidate) < place(incumbent)

\* dedupe: one finding after the other is held against the best so far.
Dedupe(reports) ==
  FoldLeft(
    LAMBDA best, f :
      LET rivals == {g \in best : DedupeKey(g) = DedupeKey(f)}
      IN  IF rivals = {} THEN best \cup {f}
          ELSE IF \A g \in rivals : Wins(f, g) THEN (best \ rivals) \cup {f}
          ELSE best,
    {}, reports)

FilterSeverity(found, floor) == {f \in found : Rank(f.severity) >= Rank(floor)}

\* Mutant: the floor comes first.
FloorFirst(reports, floor) ==
  Dedupe(SelectSeq(reports, LAMBDA f : Rank(f.severity) >= Rank(floor)))

\* One representative of each defect, then the floor.  How they are sorted
\* only matters to the printing.
Triage(reports, floor) == FilterSeverity(Dedupe(reports), floor)

=============================================================================
