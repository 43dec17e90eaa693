------------------------------ MODULE Versions -------------------------------
(***************************************************************************)
(* Versions of dependencies and the advisories that are about them         *)
(* (src/engine/redassay/versions.py and scanners/deps.py).                 *)
(*                                                                         *)
(* A version is what _SPLIT leaves of it: a sequence of tokens, each a     *)
(* number, a stage ("rc"), a number with a stage glued to it ("0a1") or a  *)
(* word.  A number of the stage's own ("rc1") is left out: compare does    *)
(* not read it.                                                            *)
(***************************************************************************)
EXTENDS Integers, SequencesExt

CONSTANT Releases     \* the versions that are declared, or named by advisories

VARIABLES
  declared,           \* the versions a manifest names, one or none yet
  fixedIn,            \* the version an advisory says the fault is fixed in
  fixedBefore         \* the one it named before its last revision

versionVars == <<declared, fixedIn, fixedBefore>>

Stages == [dev |-> -5, alpha |-> -4, beta |-> -3, rc |-> -2]      \* _PRE_RANK
NoStage == "none"
NoNumber == -1

\* What separates a token from the one before it is a dot, or one of "-_".
Number(n) == [number |-> n, stage |-> NoStage, dotted |-> TRUE]
Dashed(n) == [number |-> n, stage |-> NoStage, dotted |-> FALSE]
Stage(s) == [number |-> NoNumber, stage |-> s, dotted |-> TRUE]
Glued(n, s) == [number |-> n, stage |-> s, dotted |-> TRUE]

VersionTokens ==
  [number : Nat \cup {NoNumber}, stage : DOMAIN Stages \cup {NoStage}, dotted : BOOLEAN]

ASSUME ReleasesAssumption == Releases \subseteq Seq(VersionTokens)

\* parse: the numbers in order, wherever they stand, and the rank of the last
\* stage named.
Parsed(version) ==
  FoldLeft(
    LAMBDA was, t :
      [parts |-> IF t.number = NoNumber THEN was.parts ELSE Append(was.parts, t.number),
       rank |-> IF t.stage \in DOMAIN Stages THEN Stages[t.stage] ELSE was.rank],
    [parts |-> <<>>, rank |-> 0], version)

\* A version without a number is 0.
Parts(version) ==
  IF Parsed(version).parts = <<>> THEN <<0>> ELSE Parsed(version).parts

PreRank(version) == Parsed(version).rank

Part(version, i) == IF i \in DOMAIN Parts(version) THEN Parts(version)[i] ELSE 0

\* Mutant: the shorter of two versions is not padded with zeros.
CompareUnpadded(left, right) ==
  LET common == {i \in DOMAIN Parts(left) \cap DOMAIN Parts(right) :
                   Part(left, i) # Part(right, i)}
      first == CHOOSE i \in common : \A j \in common : i <= j
  IN  IF common # {} THEN (IF Part(left, first) < Part(right, first) THEN -1 ELSE 1)
      ELSE IF PreRank(left) # PreRank(right)
           THEN (IF PreRank(left) < PreRank(right) THEN -1 ELSE 1)
      ELSE IF Len(left) = Len(right) THEN 0 ELSE IF Len(left) < Len(right) THEN -1 ELSE 1

\* compare: -1, 0 or 1.
Compare(left, right) ==
  LET differ == {i \in DOMAIN Parts(left) \cup DOMAIN Parts(right) :
                   Part(left, i) # Part(right, i)}
      first == CHOOSE i \in differ : \A j \in differ : i <= j
      Sign(a, b) == IF a < b THEN -1 ELSE IF a > b THEN 1 ELSE 0
  IN  IF differ # {} THEN Sign(Part(left, first), Part(right, first))
      ELSE Sign(PreRank(left), PreRank(right))

\* satisfies_vulnerable: a version is in a range if every clause lets it be.
\* A clause is [op, bound]; "=" and no operator at all are "==".
Within(version, clause) ==
  LET c == Compare(version, clause.bound)
  IN  CASE clause.op = "<" -> c < 0
        [] clause.op = "<=" -> c <= 0
        [] clause.op = ">" -> c > 0
        [] clause.op = ">=" -> c >= 0
        [] clause.op = "==" -> c = 0

SatisfiesVulnerable(version, constraint) ==
  constraint # {} /\ \A clause \in constraint : Within(version, clause)

-----------------------------------------------------------------------------
(* A declared dependency.  A spec is [form, version]: "pinned", a "range"  *)
(* that names a version, "floating" (latest), or "opaque" (a URL or path,  *)
(* whose text is taken apart like a version).                              *)

SpecForms == {"pinned", "range", "floating", "opaque"}

Numbered(version) == {i \in DOMAIN version : version[i].number # NoNumber}

\* _CONCRETE: numbers with dots between them; a stage or a dash ends them.
GoesOn(version, i) ==
  i \in Numbered(version) /\ version[i].dotted /\ version[i - 1].stage = NoStage

\* loose_version: the first run of numbers, wherever in the text it stands;
\* pinned_version finds the same if the text begins with it, or nothing.
Concrete(version) ==
  LET first == Min(Numbered(version))
      stop == Min({i \in first + 1 .. Len(version) + 1 : ~GoesOn(version, i)})
  IN  IF Numbered(version) = {} THEN <<>>
      ELSE [k \in 1 .. stop - first |-> Number(version[first + k - 1].number)]

Exact(spec) == spec.form = "pinned" /\ 1 \in Numbered(spec.version)

\* DependencyScanner.scan_file, for one declared dependency: the advisories it
\* falls under, each with its confidence, and the floating-version finding.
DependencyFindings(spec, advisories) ==
  (IF spec.form # "floating" /\ Concrete(spec.version) # <<>>
   THEN {[rule |-> a.id, confidence |-> IF Exact(spec) THEN "high" ELSE "medium"] :
           a \in {b \in advisories :
                    SatisfiesVulnerable(Concrete(spec.version), b.vulnerable)}}
   ELSE {})
  \cup (IF spec.form = "floating"
        THEN {[rule |-> "dep.floating-version", confidence |-> "high"]} ELSE {})

-----------------------------------------------------------------------------
(* Between two scans of a project.                                         *)

VersionsInit ==
  /\ declared = {}
  /\ fixedIn \in Releases /\ fixedBefore = fixedIn

\* Another version is declared.
Declare ==
  /\ \E version \in Releases : declared' = {version}
  /\ UNCHANGED <<fixedIn, fixedBefore>>

\* The advisory turns out to be fixed in another version.
Revise ==
  /\ fixedIn' \in Releases
  /\ fixedBefore' = fixedIn
  /\ UNCHANGED declared

VersionsNext == Declare \/ Revise
VersionsSpec == VersionsInit /\ [][VersionsNext]_versionVars

-----------------------------------------------------------------------------

\* What _PRE_RANK promises: "Pre-release identifiers sort below the release
\* they precede" (versions.py).
PreReleaseBelow(release, stage, suffix) ==
  Compare(release \o <<Stage(stage)>> \o suffix, release) < 0

Fixed(in) == {[id |-> "advisory", vulnerable |-> {[op |-> "<", bound |-> in]}]}

\* The order advisories are matched by is one: antisymmetric, transitive, the
\* same to versions that differ in trailing zeros; and so a dependency that is
\* reported against an advisory fixed in some version is reported against one
\* fixed in any later version.
AdvisoriesFollowTheOrder(a, b, c) ==
  /\ Compare(a, b) = -Compare(b, a)
  /\ Compare(a, b) <= 0 /\ Compare(b, c) <= 0 => Compare(a, c) <= 0
  /\ Compare(a, b) = 0 => Compare(a, c) = Compare(b, c)
  /\ Compare(a \o <<Number(0)>>, b) = Compare(a, b)
  /\ Compare(b, c) <= 0 =>
       \A form \in SpecForms :
         LET spec == [form |-> form, version |-> a] IN
         DependencyFindings(spec, Fixed(b)) \subseteq DependencyFindings(spec, Fixed(c))

\* Advisories follow the order of versions: a revision to a later one takes no
\* finding away.
AdvisoriesAreMonotone ==
  \A version \in declared : AdvisoriesFollowTheOrder(version, fixedBefore, fixedIn)

=============================================================================
