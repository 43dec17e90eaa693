------------------------------ MODULE Prefilter ------------------------------
(***************************************************************************)
(* The literal prefilter in front of every pattern rule                    *)
(* (src/engine/redassay/prefilter.py): which substrings a file must hold   *)
(* for the rule to be run on it at all.  The scanner asks it of one        *)
(* candidate after the other (scanners/pattern.py, scan_file).             *)
(*                                                                         *)
(* A pattern is the table of its atoms and a set of branches.  An atom is  *)
(* a word of plain characters, something that is not a literal (a class or *)
(* an escape), or a group around branches of its own; a quantifier is      *)
(* about the last character of a word, or about the whole of a group.  A   *)
(* branch is a sequence of atoms, each named by its place in the table,    *)
(* where a group stands after all that is inside of it.                    *)
(***************************************************************************)
EXTENDS Integers, SequencesExt

CONSTANTS
  WordLength,        \* word -> its length
  Cut(_),            \* a word without its last character; also a word
  Candidates         \* the patterns, in the order the scanner asks of them

VARIABLE candidate   \* the place of the one it is at, 0 before the first

MIN_LITERAL == 3
Words == DOMAIN WordLength

\* Quantifiers: none, at least one, or perhaps none at all ("?" stands for * as
\* well).  "{0,2}" and "?" mean the same to the matcher, not to the extractor.
Quantifiers == {"", "+", "?", "{0,2}"}
MayVanish(quantifier) == quantifier \in {"?", "{0,2}"}

Word(w, quantifier) == [kind |-> "word", word |-> w, quantifier |-> quantifier]
Other == [kind |-> "other"]
\* look: "" for a group, "(?=" for a lookahead, "(?!" for a negative one.
Group(look, branches, quantifier) ==
  [kind |-> "group", look |-> look, branches |-> branches, quantifier |-> quantifier]
Pattern(atoms, branches) == [atoms |-> atoms, branches |-> branches]

IsPattern(pattern) ==
  LET n == Len(pattern.atoms) IN
  /\ n \in Nat /\ DOMAIN pattern.atoms = 1 .. n
  /\ \A b \in pattern.branches : b \in Seq(1 .. n)
  /\ \A i \in 1 .. n :
       LET a == pattern.atoms[i] IN
       /\ a.kind \in {"word", "other", "group"}
       /\ a.kind = "word" => a.word \in Words
       /\ a.kind = "group" => /\ a.quantifier \in Quantifiers
                              /\ \A b \in a.branches : b \in Seq(1 .. i - 1)

ASSUME WordsAssumption ==
  \A w \in Words : WordLength[w] \in Nat /\ Cut(w) \in Words

-----------------------------------------------------------------------------
(* The matcher: what words a text that matches may have been matched by,   *)
(* as a set of sets, one for each way to match.                            *)

\* One way for each atom of the branch, of the ways there are for that atom.
Ways(branch, ofAtom) ==
  {way \in [DOMAIN branch -> UNION {ofAtom[branch[k]] : k \in DOMAIN branch}] :
     \A k \in DOMAIN branch : way[k] \in ofAtom[branch[k]]}

MatchedBy(branches, ofAtom) ==
  UNION {{UNION {way[k] : k \in DOMAIN branch} : way \in Ways(branch, ofAtom)} :
           branch \in branches}

PlainMatched(a) ==
  IF a.kind = "other" THEN {{}}
  ELSE {{a.word, Cut(a.word)}} \cup
       (IF MayVanish(a.quantifier) THEN {{Cut(a.word)}} ELSE {})

GroupMatched(a, ofAtom) ==
  (IF a.look = "(?!" THEN {{}} ELSE MatchedBy(a.branches, ofAtom)) \cup
  (IF MayVanish(a.quantifier) THEN {{}} ELSE {})

MatchesOf(atoms) ==
  LET ofAtom[i \in DOMAIN atoms] ==
        IF atoms[i].kind # "group" THEN PlainMatched(atoms[i])
        ELSE GroupMatched(atoms[i], ofAtom)
  IN  ofAtom

-----------------------------------------------------------------------------
(* The extractor.  The empty set stands for None.                          *)

\* literal_runs, of a stretch of plain text: the character that may be missing
\* is cut off, and what is too short to be of use is dropped.
LiteralRuns(a) ==
  IF a.kind # "word" THEN {}
  ELSE LET run == IF MayVanish(a.quantifier) THEN Cut(a.word) ELSE a.word
       IN  IF WordLength[run] >= MIN_LITERAL THEN {run} ELSE {}

\* The bundled rules have no group that may be there {0,2} times, and no negative
\* lookahead around a word of three characters: the extractor would require it.
Understood(pattern) ==
  \A i \in 1 .. Len(pattern.atoms) :
    LET a == pattern.atoms[i] IN
    a.kind = "group" =>
      /\ a.quantifier # "{0,2}"
      /\ a.look = "(?!" =>
           \A b \in a.branches : \A k \in DOMAIN b :
             LET inner == pattern.atoms[b[k]]
             IN  inner.kind # "group" /\ LiteralRuns(inner) = {}

ASSUME CandidatesAssumption ==
  /\ Len(Candidates) \in Nat
  /\ \A i \in 1 .. Len(Candidates) : IsPattern(Candidates[i]) /\ Understood(Candidates[i])

Shortest(literals) == CHOOSE n \in {WordLength[w] : w \in literals} :
                        \A w \in literals : n <= WordLength[w]

\* consider: the first of the sets whose shortest literal is longest.
Better(best, considered) ==
  IF considered = {} THEN best
  ELSE IF best = {} \/ Shortest(considered) > Shortest(best) THEN considered
  ELSE best
MostSelective(sets) == FoldLeft(Better, {}, sets)

\* Mutant: an optional group counts as any other.
NeverOptional(a) == FALSE

\* _atoms: a group is optional if ? or * is the next character, no other.
OptionalGroup(a) == a.quantifier = "?"

\* The literals of every branch together, or None if a branch has none.
Alternatives(ofBranches) == IF {} \in ofBranches THEN {} ELSE UNION ofBranches

\* The longest run of plain text in a branch; what is in its groups is no part
\* of it.
LongestRun(branch, atoms) ==
  MostSelective([k \in DOMAIN branch |-> LiteralRuns(atoms[branch[k]])])

\* The most selective atom of a branch.
BranchAlternatives(branch, ofAtom) ==
  MostSelective([k \in DOMAIN branch |-> ofAtom[branch[k]]])

\* What kind of group it is has been stripped off by then.  Inside a group a
\* run is preferred to what a group in it could offer.
GroupAlternatives(a, atoms, ofAtom) ==
  Alternatives({IF LongestRun(branch, atoms) # {} THEN LongestRun(branch, atoms)
                ELSE BranchAlternatives(branch, ofAtom) : branch \in a.branches})

\* What each atom guarantees.
LiteralsOf(atoms) ==
  LET ofAtom[i \in DOMAIN atoms] ==
        IF atoms[i].kind # "group" THEN LiteralRuns(atoms[i])
        ELSE IF OptionalGroup(atoms[i]) THEN {}
        ELSE GroupAlternatives(atoms[i], atoms, ofAtom)
  IN  ofAtom

RequiredLiterals(pattern) ==
  Alternatives({BranchAlternatives(branch, LiteralsOf(pattern.atoms)) :
                  branch \in pattern.branches})

\* Prefilter.matches, of a file in which some words occur.
PrefilterMatches(pattern, seen) ==
  LET literals == RequiredLiterals(pattern)
  IN  literals = {} \/ literals \cap seen # {}

-----------------------------------------------------------------------------
(* scan_file asks of each candidate before it matches line by line.        *)

PrefilterInit == candidate = 0

NextCandidate ==
  /\ candidate < Len(Candidates)
  /\ candidate' = candidate + 1

PrefilterSpec == PrefilterInit /\ [][NextCandidate]_candidate

-----------------------------------------------------------------------------

\* Whatever way a pattern may match, the file it matches in passes the rule's
\* prefilter.
Neutral(pattern) ==
  \A seen \in MatchedBy(pattern.branches, MatchesOf(pattern.atoms)) :
    PrefilterMatches(pattern, seen)

\* "The literal prefilter must never change what a scan finds"
\* (tests/python/test_prefilter.py): no candidate is left out of a file in
\* which its pattern matches.
PrefilterIsNeutral == candidate > 0 => Neutral(Candidates[candidate])

=============================================================================
