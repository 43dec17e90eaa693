---------------------------- MODULE Scans_proofs -----------------------------
(***************************************************************************)
(* Theorems about what is computed of a file: the gate and the identities  *)
(* of the pattern scanner's findings, its prefilter, the taint trackers,   *)
(* the order of versions and the entry surface, after what they all need   *)
(* of recursive functions.                                                 *)
(***************************************************************************)
EXTENDS EntrySurface, Prefilter, ScanGate, TaintTracking, Versions,
        FiniteSetTheorems, WellFoundedInduction, TLAPS

-----------------------------------------------------------------------------
(***************************************************************************)
(* Recursion.  A recursive function is the one its equation picks, if      *)
(* there is one: that there is is proved here once, for values of a set V. *)
(***************************************************************************)

\* On 0 .. n, each value is made of the one before.
IsChain(g, n, base, step) ==
  \A i \in 0 .. n : g[i] = IF i = 0 THEN base ELSE step[<<i, g[i - 1]>>]

\* On 1 .. n, each value is made of one before it, or of none.
IsRecursion(g, n, base, step, prev) ==
  \A i \in 1 .. n : g[i] = IF prev[i] = 0 THEN base[i] ELSE step[<<i, g[prev[i]]>>]

\* On the subsets of 1 .. n, as FoldLeft goes through them.
IsFold(g, n, base, step) ==
  \A s \in SUBSET (1 .. n) :
    g[s] = IF s = {} THEN base ELSE step[<<Max(s), g[s \ {Max(s)}]>>]

LEMMA LeastNumber ==
  ASSUME NEW T \in SUBSET Nat, T # {}
  PROVE  \E n \in T : \A m \in T : n <= m
<1>1. PICK n \in T : \A m \in T : <<m, n>> \notin OpToRel(<, Nat)
  BY NatLessThanWellFounded, WFMin
<1>2. \A m \in T : ~(m < n)
  BY <1>1, Zenon DEF OpToRel
<1> QED
  BY <1>2

\* Induction, for a set of numbers instead of a predicate.
LEMMA Induction ==
  ASSUME NEW n \in Nat, NEW S, 0 \in S, \A i \in 1 .. n : i - 1 \in S => i \in S
  PROVE  \A i \in 0 .. n : i \in S
<1> SUFFICES ASSUME (0 .. n) \ S # {}
             PROVE  FALSE
  OBVIOUS
<1>1. PICK m \in (0 .. n) \ S : \A k \in (0 .. n) \ S : m <= k
  <2>1. (0 .. n) \ S \in SUBSET Nat
    OBVIOUS
  <2> QED
    BY <2>1, LeastNumber
<1>2. m # 0 /\ m \in 1 .. n /\ m - 1 \in 0 .. n
  BY <1>1
<1>3. m - 1 \in S
  BY <1>1, <1>2
<1> QED
  BY <1>1, <1>2, <1>3

LEMMA StrongInduction ==
  ASSUME NEW n \in Nat, NEW S,
         \A i \in 1 .. n : (\A j \in 1 .. i - 1 : j \in S) => i \in S
  PROVE  \A i \in 1 .. n : i \in S
<1> SUFFICES ASSUME (1 .. n) \ S # {}
             PROVE  FALSE
  OBVIOUS
<1>1. PICK m \in (1 .. n) \ S : \A k \in (1 .. n) \ S : m <= k
  <2>1. (1 .. n) \ S \in SUBSET Nat
    OBVIOUS
  <2> QED
    BY <2>1, LeastNumber
<1>2. \A j \in 1 .. m - 1 : j \in S
  <2> SUFFICES ASSUME NEW j \in 1 .. m - 1, j \notin S
               PROVE  FALSE
    OBVIOUS
  <2>1. j \in (1 .. n) \ S /\ ~(m <= j)
    BY <1>1
  <2> QED
    BY <1>1, <2>1
<1> QED
  BY <1>1, <1>2

LEMMA Chain ==
  ASSUME NEW n \in Nat, NEW V, NEW base \in V, NEW step \in [(1 .. n) \X V -> V]
  PROVE  \E g \in [0 .. n -> V] : IsChain(g, n, base, step)
<1> DEFINE Good(m) == \E g \in [0 .. m -> V] : IsChain(g, m, base, step)
           Bad == {m \in 0 .. n : ~Good(m)}
<1>1. SUFFICES ASSUME ~Good(n)
               PROVE  FALSE
  BY <1>1
<1> HIDE DEF Good
<1>2. PICK m \in Bad : \A k \in Bad : m <= k
  <2>1. Bad \in SUBSET Nat /\ n \in Bad
    BY <1>1
  <2> QED
    BY <2>1, LeastNumber
<1>3. m # 0
  <2> DEFINE zero == [i \in 0 .. 0 |-> base]
  <2>1. /\ zero \in [0 .. 0 -> V]
        /\ \A i \in 0 .. 0 : zero[i] = IF i = 0 THEN base ELSE step[<<i, zero[i - 1]>>]
    OBVIOUS
  <2>2. Good(0)
    <3> HIDE DEF zero
    <3> QED
      BY <2>1 DEF Good, IsChain
  <2> QED
    BY <1>2, <2>2
<1>4. m - 1 \in 0 .. n /\ m \in 1 .. n /\ Good(m - 1)
  BY <1>2, <1>3
<1>5. PICK g \in [0 .. m - 1 -> V] :
        \A i \in 0 .. m - 1 : g[i] = IF i = 0 THEN base ELSE step[<<i, g[i - 1]>>]
  BY <1>4 DEF Good, IsChain
<1> DEFINE h == [i \in 0 .. m |-> IF i = m THEN step[<<m, g[m - 1]>>] ELSE g[i]]
<1>6. h \in [0 .. m -> V]
  BY <1>4
<1>7. ASSUME NEW i \in 0 .. m
      PROVE  h[i] = IF i = 0 THEN base ELSE step[<<i, h[i - 1]>>]
  <2>1. CASE i = m
    <3>1. i # 0 /\ i - 1 \in 0 .. m - 1 /\ i - 1 \in 0 .. m /\ i - 1 # m
      BY <1>4, <2>1
    <3> QED
      BY <2>1, <3>1
  <2>2. CASE i # m /\ i # 0
    <3>1. i \in 0 .. m - 1 /\ i - 1 \in 0 .. m /\ i - 1 # m
      BY <1>4, <2>2
    <3> QED
      BY <1>5, <2>2, <3>1
  <2>3. CASE i = 0
    <3>1. i # m /\ i \in 0 .. m - 1
      BY <1>4, <2>3
    <3> QED
      BY <1>5, <2>3, <3>1
  <2> QED
    BY <2>1, <2>2, <2>3
<1> HIDE DEF h
<1>8. Good(m)
  BY <1>6, <1>7 DEF Good, IsChain
<1> QED
  BY <1>2, <1>8

LEMMA Recursion ==
  ASSUME NEW n \in Nat, NEW V, NEW base \in [1 .. n -> V],
         NEW step \in [(1 .. n) \X V -> V],
         NEW prev \in [1 .. n -> Nat], \A i \in 1 .. n : prev[i] < i
  PROVE  \E g \in [1 .. n -> V] : IsRecursion(g, n, base, step, prev)
<1> DEFINE Good(m) == \E g \in [1 .. m -> V] : IsRecursion(g, m, base, step, prev)
           Bad == {m \in 0 .. n : ~Good(m)}
<1>1. SUFFICES ASSUME ~Good(n)
               PROVE  FALSE
  BY <1>1
<1> HIDE DEF Good
<1>2. PICK m \in Bad : \A k \in Bad : m <= k
  <2>1. Bad \in SUBSET Nat /\ n \in Bad
    BY <1>1
  <2> QED
    BY <2>1, LeastNumber
<1>3. m # 0
  <2> DEFINE none == [i \in 1 .. 0 |-> base[i]]
  <2>1. none \in [1 .. 0 -> V] /\ \A i \in 1 .. 0 : FALSE
    OBVIOUS
  <2>2. Good(0)
    <3> HIDE DEF none
    <3> QED
      BY <2>1 DEF Good, IsRecursion
  <2> QED
    BY <1>2, <2>2
<1>4. m - 1 \in 0 .. n /\ m \in 1 .. n /\ Good(m - 1)
  BY <1>2, <1>3
<1>5. PICK g \in [1 .. m - 1 -> V] :
        \A i \in 1 .. m - 1 :
          g[i] = IF prev[i] = 0 THEN base[i] ELSE step[<<i, g[prev[i]]>>]
  BY <1>4 DEF Good, IsRecursion
<1> DEFINE last == IF prev[m] = 0 THEN base[m] ELSE step[<<m, g[prev[m]]>>]
           h == [i \in 1 .. m |-> IF i = m THEN last ELSE g[i]]
<1>6. last \in V
  BY <1>4
<1>7. h \in [1 .. m -> V]
  BY <1>6
<1>8. ASSUME NEW i \in 1 .. m
      PROVE  h[i] = IF prev[i] = 0 THEN base[i] ELSE step[<<i, h[prev[i]]>>]
  <2>1. prev[i] \in Nat /\ prev[i] < i /\ m \in Nat
    BY <1>4
  <2>2. prev[i] # 0 => h[prev[i]] = g[prev[i]]
    BY <2>1
  <2>3. CASE i = m
    BY <2>2, <2>3
  <2>4. CASE i # m
    <3>1. i \in 1 .. m - 1
      BY <2>1, <2>4
    <3>2. h[i] = g[i]
      BY <2>4
    <3> QED
      BY <1>5, <2>2, <3>1, <3>2
  <2> QED
    BY <2>3, <2>4
<1> HIDE DEF h
<1>9. Good(m)
  BY <1>7, <1>8 DEF Good, IsRecursion
<1> QED
  BY <1>2, <1>9

LEMMA MaxIs ==
  ASSUME NEW S \in SUBSET Int, NEW m \in S, \A x \in S : m >= x
  PROVE  Max(S) = m
<1>1. Max(S) \in S /\ \A y \in S : Max(S) >= y
  <2>1. \E x \in S : \A y \in S : x >= y
    OBVIOUS
  <2> QED
    BY <2>1 DEF Max
<1> DEFINE largest == Max(S)
<1> HIDE DEF largest
<1>2. largest \in S /\ \A y \in S : largest >= y
  BY <1>1 DEF largest
<1>3. largest = m
  BY <1>2
<1> QED
  BY <1>3 DEF largest

LEMMA FoldExists ==
  ASSUME NEW n \in Nat, NEW V, NEW base \in V, NEW step \in [(1 .. n) \X V -> V]
  PROVE  \E g \in [SUBSET (1 .. n) -> V] : IsFold(g, n, base, step)
<1> DEFINE Good(m) == \E g \in [SUBSET (1 .. m) -> V] : IsFold(g, m, base, step)
           Bad == {m \in 0 .. n : ~Good(m)}
<1>1. SUFFICES ASSUME ~Good(n)
               PROVE  FALSE
  BY <1>1
<1> HIDE DEF Good
<1>2. PICK m \in Bad : \A k \in Bad : m <= k
  <2>1. Bad \in SUBSET Nat /\ n \in Bad
    BY <1>1
  <2> QED
    BY <2>1, LeastNumber
<1>3. m # 0
  <2>1. [s \in SUBSET (1 .. 0) |-> base] \in [SUBSET (1 .. 0) -> V]
    OBVIOUS
  <2>2. \A s \in SUBSET (1 .. 0) : s = {}
    OBVIOUS
  <2>3. Good(0)
    BY <2>1, <2>2 DEF Good, IsFold
  <2> QED
    BY <1>2, <2>3
<1>4. m - 1 \in 0 .. n /\ m \in 1 .. n /\ Good(m - 1)
  BY <1>2, <1>3
<1>5. PICK g \in [SUBSET (1 .. m - 1) -> V] :
        \A s \in SUBSET (1 .. m - 1) :
          g[s] = IF s = {} THEN base ELSE step[<<Max(s), g[s \ {Max(s)}]>>]
  BY <1>4 DEF Good, IsFold
<1> DEFINE h == [s \in SUBSET (1 .. m) |->
                   IF m \in s THEN step[<<m, g[s \ {m}]>>] ELSE g[s]]
<1>6. \A s \in SUBSET (1 .. m) : s \ {m} \in SUBSET (1 .. m - 1)
  BY <1>4
<1>7. h \in [SUBSET (1 .. m) -> V]
  <2>1. ASSUME NEW s \in SUBSET (1 .. m)
        PROVE  (IF m \in s THEN step[<<m, g[s \ {m}]>>] ELSE g[s]) \in V
    <3>1. CASE m \in s
      <4>1. g[s \ {m}] \in V
        BY <1>6
      <4> QED
        BY <1>4, <3>1, <4>1
    <3>2. CASE m \notin s
      BY <1>6, <3>2
    <3> QED
      BY <3>1, <3>2
  <2> QED
    BY <2>1
<1>8. ASSUME NEW s \in SUBSET (1 .. m), s # {}
      PROVE  h[s] = step[<<Max(s), h[s \ {Max(s)}]>>]
  <2>1. CASE m \in s
    <3>1. Max(s) = m
      BY <1>4, <2>1, MaxIs
    <3>2. h[s \ {m}] = g[s \ {m}]
      OBVIOUS
    <3> QED
      BY <2>1, <3>1, <3>2
  <2>2. CASE m \notin s
    <3>1. s \in SUBSET (1 .. m - 1) /\ s \ {Max(s)} \in SUBSET (1 .. m - 1)
      BY <1>6, <2>2
    <3>2. h[s] = g[s] /\ h[s \ {Max(s)}] = g[s \ {Max(s)}]
      BY <2>2, <3>1
    <3> QED
      BY <1>5, <1>8, <3>1, <3>2
  <2> QED
    BY <2>1, <2>2
<1>9. h[{}] = base
  BY <1>5
<1> HIDE DEF h
<1>10. Good(m)
  BY <1>7, <1>8, <1>9 DEF Good, IsFold
<1> QED
  BY <1>2, <1>10

LEMMA MaxInside ==
  ASSUME NEW n \in Nat, NEW s \in SUBSET (0 .. n), s # {}
  PROVE  Max(s) \in s /\ \A x \in s : x <= Max(s)
<1> DEFINE T == {n - x : x \in s}
<1>1. T \in SUBSET Nat /\ T # {}
  <2>1. PICK x \in s : TRUE
    OBVIOUS
  <2>2. n - x \in T
    BY <2>1
  <2> QED
    BY <2>2
<1>2. PICK t \in T : \A u \in T : t <= u
  <2> HIDE DEF T
  <2> QED
    BY <1>1, LeastNumber
<1>3. PICK m \in s : t = n - m
  BY <1>2
<1>4. ASSUME NEW x \in s
      PROVE  m >= x /\ x <= m
  <2>1. n - m <= n - x
    BY <1>2, <1>3
  <2>2. n \in Int /\ m \in Int /\ x \in Int
    OBVIOUS
  <2> QED
    BY <2>1, <2>2
<1>5. Max(s) = m
  <2>1. s \in SUBSET Int
    OBVIOUS
  <2> QED
    BY <1>4, <2>1, MaxIs
<1> QED
  BY <1>4, <1>5

-----------------------------------------------------------------------------
(***************************************************************************)
(* The scans of a file and the gate a build goes by, for files of any      *)
(* length, any rules and any order in which the reports come.              *)
(***************************************************************************)

Files == {file \in Seq(LineKinds) : Len(file) <= MaxLength}

\* What a rule finds in a file.
Found(file, rule) ==
  {MakeFinding(rule, i, file[i].text, Ordinal(Matching(file, rule), i)) :
     i \in {j \in Matching(file, rule) :
              Cardinality({k \in Matching(file, rule) : k < j}) < RuleTable[rule].limit}}

LEMMA DetectionsAre ==
  ASSUME NEW file
  PROVE  Detections(file) = UNION {Found(file, rule) : rule \in RuleIds}
BY DEF Detections, Found

LEMMA MatchingInFile ==
  ASSUME NEW file \in Seq(LineKinds), NEW rule \in RuleIds
  PROVE  /\ Matching(file, rule) \subseteq 1 .. Len(file)
         /\ \A i \in Matching(file, rule) : rule \in file[i].found
<1> DEFINE samples == Samples(file)
           heredocs == Heredocs(file)
<1> HIDE DEF samples, heredocs
<1> QED
  BY DEF Matching, samples, heredocs

\* Of the matches above a line there are fewer than lines.
LEMMA OrdinalBound ==
  ASSUME NEW matching \in SUBSET Nat, NEW i \in Nat \ {0}, 0 \notin matching
  PROVE  Ordinal(matching, i) \in 0 .. i - 1
<1> DEFINE above == {j \in matching : j < i}
<1>1. above \in SUBSET (1 .. i - 1)
  <2>1. ASSUME NEW j \in above
        PROVE  j \in 1 .. i - 1
    <3>1. j \in Nat /\ j # 0 /\ j < i
      BY <2>1
    <3> QED
      BY <3>1
  <2> QED
    BY <2>1
<1>2. IsFiniteSet(1 .. i - 1) /\ Cardinality(1 .. i - 1) = i - 1
  BY FS_Interval
<1>3. IsFiniteSet(above) /\ Cardinality(above) <= i - 1
  BY <1>1, <1>2, FS_Subset
<1>4. Cardinality(above) \in Nat
  BY <1>3, FS_CardinalityType
<1> QED
  BY <1>3, <1>4 DEF Ordinal

\* A finding of a file says which rule found it and where, and its identity is
\* one that a file of this length can give.
LEMMA DetectionShape ==
  ASSUME NEW file \in Files, NEW f \in Detections(file)
  PROVE  /\ f.rule \in RuleIds /\ f.line \in Matching(file, f.rule)
         /\ f = MakeFinding(f.rule, f.line, file[f.line].text,
                            Ordinal(Matching(file, f.rule), f.line))
         /\ f.severity = RuleTable[f.rule].severity
         /\ f.confidence = RuleTable[f.rule].confidence
         /\ f.scanner = RuleTable[f.rule].scanner
         /\ f.id \in Identities
<1>1. PICK rule \in RuleIds : f \in Found(file, rule)
  BY DetectionsAre
<1>2. PICK i \in Matching(file, rule) :
        f = MakeFinding(rule, i, file[i].text, Ordinal(Matching(file, rule), i))
  BY <1>1 DEF Found
<1> DEFINE salt == Ordinal(Matching(file, rule), i)
<1>3. /\ f.rule = rule /\ f.line = i /\ f.id = <<rule, file[i].text, salt>>
      /\ f.severity = RuleTable[rule].severity /\ f.confidence = RuleTable[rule].confidence
      /\ f.scanner = RuleTable[rule].scanner
  BY <1>2 DEF MakeFinding, FindingId
<1>4. /\ i \in 1 .. Len(file) /\ rule \in file[i].found /\ file[i] \in LineKinds
      /\ Len(file) \in Nat /\ Len(file) <= MaxLength
  BY MatchingInFile DEF Files
<1>5. salt \in 0 .. MaxLength - 1
  <2>1. Matching(file, rule) \in SUBSET Nat /\ 0 \notin Matching(file, rule)
    BY MatchingInFile DEF Files
  <2>2. salt \in 0 .. i - 1
    BY <1>4, <2>1, OrdinalBound
  <2>3. MaxLength \in Nat
    BY GateAssumption
  <2> QED
    BY <1>4, <2>2, <2>3
<1>6. f.id \in Identities
  <2> HIDE DEF salt
  <2>1. f.id \in file[i].found \X {file[i].text} \X (0 .. MaxLength - 1)
    BY <1>3, <1>4, <1>5
  <2> QED
    BY <1>4, <2>1 DEF Identities
<1> QED
  BY <1>2, <1>3, <1>6

LEMMA DetectionsFinite ==
  ASSUME NEW file \in Files
  PROVE  IsFiniteSet(Detections(file))
<1> DEFINE S == RuleIds \X (1 .. Len(file))
           d == [p \in S |-> MakeFinding(p[1], p[2], file[p[2]].text,
                                         Ordinal(Matching(file, p[1]), p[2]))]
           T == {d[p] : p \in S}
<1>1. IsFiniteSet(S)
  <2>1. Len(file) \in Int /\ IsFiniteSet(RuleIds)
    BY RuleTableAssumption DEF Files
  <2>2. IsFiniteSet(1 .. Len(file))
    BY <2>1, FS_Interval
  <2> QED
    BY <2>1, <2>2, FS_Product
<1>2. d \in Surjection(S, T)
  BY DEF Surjection
<1>3. IsFiniteSet(T)
  BY <1>1, <1>2, FS_Surjection
<1>4. ASSUME NEW f \in Detections(file)
      PROVE  f \in T
  <2> DEFINE p == <<f.rule, f.line>>
  <2>1. p \in S /\ p[1] = f.rule /\ p[2] = f.line
    <3>1. file \in Seq(LineKinds)
      BY DEF Files
    <3>2. f.rule \in RuleIds /\ f.line \in Matching(file, f.rule)
      BY DetectionShape
    <3>3. f.line \in 1 .. Len(file)
      BY <3>1, <3>2, MatchingInFile
    <3> QED
      BY <3>2, <3>3
  <2>2. f = d[p]
    BY <2>1, DetectionShape
  <2> QED
    BY <2>1, <2>2
<1>5. Detections(file) \in SUBSET T
  <2> HIDE DEF T
  <2> QED
    BY <1>4
<1> QED
  BY <1>3, <1>5, FS_Subset

-----------------------------------------------------------------------------
(* Sequences that list a finite set.                                       *)

LEMMA ListsAll ==
  ASSUME NEW S, IsFiniteSet(S), NEW order \in [1 .. Cardinality(S) -> S],
         IsInjective(order)
  PROVE  order \in Seq(S) /\ ToSet(order) = S
<1> DEFINE n == Cardinality(S)
<1>1. n \in Nat
  BY FS_CardinalityType
<1>2. order \in Injection(1 .. n, S)
  BY DEF Injection
<1>3. Cardinality(1 .. n) = n
  BY <1>1, FS_Interval
<1>4. order \in Surjection(1 .. n, S)
  BY <1>2, <1>3, FS_Injection
<1>5. order \in Seq(S)
  BY <1>1
<1>6. DOMAIN order = 1 .. n /\ \A x \in S : \E i \in 1 .. n : order[i] = x
  BY <1>4 DEF Surjection
<1> QED
  BY <1>5, <1>6 DEF ToSet

LEMMA SetToSeqLists ==
  ASSUME NEW S, IsFiniteSet(S)
  PROVE  SetToSeq(S) \in Seq(S) /\ ToSet(SetToSeq(S)) = S
<1>1. \E f \in [1 .. Cardinality(S) -> S] : IsInjective(f)
  BY FS_CardinalityType DEF ExistsBijection, Bijection, Injection
<1>2. SetToSeq(S) \in [1 .. Cardinality(S) -> S] /\ IsInjective(SetToSeq(S))
  BY <1>1 DEF SetToSeq
<1> QED
  BY <1>2, ListsAll

LEMMA SetToSeqsList ==
  ASSUME NEW S, IsFiniteSet(S), NEW order \in SetToSeqs(S)
  PROVE  order \in Seq(S) /\ ToSet(order) = S
<1>1. order \in [1 .. Cardinality(S) -> S] /\ IsInjective(order)
  BY DEF SetToSeqs, IsInjective
<1> QED
  BY <1>1, ListsAll

-----------------------------------------------------------------------------
(* dedupe leaves, of the reports of one defect, the one that wins over all *)
(* the others.                                                             *)

\* One more finding is held against the best so far.
Held(best, f) ==
  LET rivals == {g \in best : DedupeKey(g) = DedupeKey(f)}
  IN  IF rivals = {} THEN best \cup {f}
      ELSE IF \A g \in rivals : Wins(f, g) THEN (best \ rivals) \cup {f}
      ELSE best

LEMMA DedupeSteps ==
  ASSUME NEW D, NEW reports \in Seq(D)
  PROVE  \E k \in [0 .. Len(reports) -> SUBSET D] :
           /\ k[0] = {}
           /\ \A i \in DOMAIN reports : k[i] = Held(k[i - 1], reports[i])
           /\ Dedupe(reports) = k[Len(reports)]
<1> DEFINE n == Len(reports)
           V == SUBSET D
           step == [p \in (1 .. n) \X V |-> Held(p[2], reports[p[1]])]
           Folded(g) == [s \in SUBSET DOMAIN reports |->
                           IF s = {} THEN {} ELSE Held(g[s \ {Max(s)}], reports[Max(s)])]
           iter == CHOOSE g : g = Folded(g)
<1>1. /\ n \in Nat /\ DOMAIN reports = 1 .. n /\ {} \in V
      /\ \A i \in 1 .. n : reports[i] \in D
  OBVIOUS
<1>2. ASSUME NEW best \in V, NEW f \in D
      PROVE  Held(best, f) \in V
  BY DEF Held
<1>3. step \in [(1 .. n) \X V -> V]
  BY <1>1, <1>2
<1>4. PICK g \in [SUBSET (1 .. n) -> V] : IsFold(g, n, {}, step)
  <2> HIDE DEF step, n, V
  <2> QED
    BY <1>1, <1>3, FoldExists
<1>5. ASSUME NEW s \in SUBSET (1 .. n), s # {}
      PROVE  step[<<Max(s), g[s \ {Max(s)}]>>] = Held(g[s \ {Max(s)}], reports[Max(s)])
  <2>1. Max(s) \in 1 .. n
    <3>1. s \in SUBSET (0 .. n)
      BY <1>1
    <3> QED
      BY <1>1, <1>5, <3>1, MaxInside
  <2>2. g[s \ {Max(s)}] \in V
    BY <1>4
  <2> QED
    BY <2>1, <2>2
<1>6. g = Folded(g)
  <2>1. \A s \in SUBSET (1 .. n) :
          g[s] = IF s = {} THEN {} ELSE Held(g[s \ {Max(s)}], reports[Max(s)])
    BY <1>4, <1>5 DEF IsFold
  <2> QED
    BY <1>1, <2>1
<1>7. iter = Folded(iter)
  BY <1>6
<1>8. Dedupe(reports) = iter[DOMAIN reports]
  BY DEF Dedupe, FoldLeft, MapThenFoldSet, Held
<1> HIDE DEF iter, step
<1> DEFINE k == [i \in 0 .. n |-> iter[1 .. i]]
<1>9. k[0] = {}
  <2>1. 1 .. 0 = {} /\ 1 .. 0 \in SUBSET DOMAIN reports
    BY <1>1
  <2>2. iter[{}] = {}
    BY <1>7, <2>1
  <2> QED
    BY <1>1, <2>1, <2>2
<1>10. ASSUME NEW i \in DOMAIN reports
       PROVE  k[i] = Held(k[i - 1], reports[i])
  <2>1. Max(1 .. i) = i
    <3>1. 1 .. i \in SUBSET Int /\ i \in 1 .. i /\ \A x \in 1 .. i : i >= x
      BY <1>1
    <3> QED
      BY <3>1, MaxIs
  <2>2. 1 .. i # {} /\ 1 .. i \in SUBSET DOMAIN reports /\ (1 .. i) \ {i} = 1 .. i - 1
        /\ i - 1 \in 0 .. n /\ i \in 0 .. n
    BY <1>1
  <2>3. iter[1 .. i] = Held(iter[(1 .. i) \ {Max(1 .. i)}], reports[Max(1 .. i)])
    BY <1>7, <2>2
  <2> QED
    BY <2>1, <2>2, <2>3
<1>11. \A i \in 0 .. n : k[i] \in V
  <2> DEFINE Typed == {i \in 0 .. n : k[i] \in V}
  <2> HIDE DEF k, V
  <2>1. 0 \in Typed
    <3>1. 0 \in 0 .. n /\ k[0] \in V
      BY <1>1, <1>9 DEF V
    <3> QED
      BY <3>1
  <2>2. ASSUME NEW i \in 1 .. n, i - 1 \in Typed
        PROVE  i \in Typed
    BY <1>1, <1>2, <1>10, <2>2
  <2> HIDE DEF Typed
  <2>3. \A i \in 0 .. n : i \in Typed
    BY <1>1, <2>1, <2>2, Induction
  <2> QED
    BY <2>3 DEF Typed
<1>12. k \in [0 .. n -> V]
  BY <1>11
<1>13. Dedupe(reports) = k[n]
  BY <1>1, <1>8
<1> HIDE DEF k
<1> QED
  BY <1>9, <1>10, <1>12, <1>13

LEMMA DedupeKeepsReports ==
  ASSUME NEW D, NEW reports \in Seq(D)
  PROVE  Dedupe(reports) \subseteq D
<1>1. PICK k \in [0 .. Len(reports) -> SUBSET D] : Dedupe(reports) = k[Len(reports)]
  BY DedupeSteps
<1>2. Len(reports) \in 0 .. Len(reports)
  OBVIOUS
<1> QED
  BY <1>1, <1>2

-----------------------------------------------------------------------------
(* Who wins over whom is an order of the findings of one defect.           *)

LEMMA WeightsType ==
  ASSUME NEW file \in Files, NEW f \in Detections(file)
  PROVE  Priority(f) \in Nat /\ ScannerPrecedence(f.scanner) \in Nat
<1>1. RuleTable[f.rule] \in RuleRecord
  BY DetectionShape, RuleTableAssumption
<1>2. /\ f.severity \in {"info", "low", "medium", "high", "critical"}
      /\ f.confidence \in {"high", "medium", "low"}
  BY <1>1, DetectionShape DEF RuleRecord, Severities, Confidences, ToSet
<1>3. SeverityWeight[f.severity] \in Nat
  BY <1>2 DEF SeverityWeight
<1>4. ConfidenceWeight[f.confidence] \in Nat
  BY <1>2 DEF ConfidenceWeight
<1> QED
  BY <1>3, <1>4 DEF Priority, ScannerPrecedence

Place(f) == CHOOSE n \in DOMAIN Alphabet : Alphabet[n] = f.rule

LEMMA PlaceIs ==
  ASSUME NEW f, f.rule \in RuleIds
  PROVE  Place(f) \in Nat /\ Alphabet[Place(f)] = f.rule
BY AlphabetAssumption DEF Place

\* Two findings of one defect are of different rules: at a line a rule reports
\* one thing.
LEMMA RivalsDiffer ==
  ASSUME NEW file \in Files, NEW f \in Detections(file), NEW g \in Detections(file),
         DedupeKey(f) = DedupeKey(g), f # g
  PROVE  Place(f) # Place(g)
<1>1. f.line = g.line
  BY DEF DedupeKey
<1>2. f.rule # g.rule
  BY <1>1, DetectionShape
<1> QED
  BY <1>2, PlaceIs, DetectionShape

\* What Wins compares.
Beats(p, q, r, s, m, n) ==
  \/ p > q
  \/ p = q /\ r > s
  \/ p = q /\ r = s /\ m < n

LEMMA WinsIs ==
  ASSUME NEW file \in Files, NEW f \in Detections(file), NEW g \in Detections(file)
  PROVE  Wins(f, g) <=> Beats(Priority(f), Priority(g), ScannerPrecedence(f.scanner),
                              ScannerPrecedence(g.scanner), Place(f), Place(g))
<1>1. /\ Priority(f) \in Nat /\ ScannerPrecedence(f.scanner) \in Nat
      /\ Priority(g) \in Nat /\ ScannerPrecedence(g.scanner) \in Nat
      /\ Place(f) \in Nat /\ Place(g) \in Nat
  BY WeightsType, PlaceIs, DetectionShape
<1> QED
  BY <1>1 DEF Wins, Beats, Place

LEMMA WinsOrders ==
  ASSUME NEW file \in Files, NEW f \in Detections(file), NEW g \in Detections(file)
  PROVE  /\ ~Wins(f, f)
         /\ Wins(f, g) => ~Wins(g, f) /\ Priority(f) >= Priority(g)
         /\ DedupeKey(f) = DedupeKey(g) => f = g \/ Wins(f, g) \/ Wins(g, f)
         /\ \A h \in Detections(file) : Wins(f, g) /\ Wins(g, h) => Wins(f, h)
<1>1. \A h \in Detections(file) : /\ Priority(h) \in Nat /\ Place(h) \in Nat
                                  /\ ScannerPrecedence(h.scanner) \in Nat
  BY WeightsType, PlaceIs, DetectionShape
<1>2. \A h, i \in Detections(file) :
        Wins(h, i) <=> Beats(Priority(h), Priority(i), ScannerPrecedence(h.scanner),
                             ScannerPrecedence(i.scanner), Place(h), Place(i))
  BY WinsIs
<1>3. DedupeKey(f) = DedupeKey(g) => f = g \/ Place(f) # Place(g)
  BY RivalsDiffer
<1> HIDE DEF Priority
<1> QED
  BY <1>1, <1>2, <1>3 DEF Beats

\* Those no other report of their defect wins over.
Best(found) ==
  {f \in found : \A g \in found : DedupeKey(g) = DedupeKey(f) /\ g # f => Wins(f, g)}

\* Best with one finding more, if there is a best one of each defect so far.
LEMMA BestMore ==
  ASSUME NEW file \in Files, NEW found \in SUBSET Detections(file),
         NEW f \in Detections(file),
         \A g \in found : \E h \in Best(found) : DedupeKey(h) = DedupeKey(g)
  PROVE  /\ Held(Best(found), f) = Best(found \cup {f})
         /\ \A g \in found \cup {f} :
              \E h \in Best(found \cup {f}) : DedupeKey(h) = DedupeKey(g)
<1> DEFINE rivals == {g \in Best(found) : DedupeKey(g) = DedupeKey(f)}
           more == found \cup {f}
<1>1. Best(found) \subseteq found
  BY DEF Best
<1>2. \A g, h \in Detections(file) : Wins(g, h) => ~Wins(h, g)
  BY WinsOrders
<1>3. \A g, h, i \in Detections(file) : Wins(g, h) /\ Wins(h, i) => Wins(g, i)
  BY WinsOrders
<1>4. \A g, h \in Detections(file) : DedupeKey(g) = DedupeKey(h) =>
        g = h \/ Wins(g, h) \/ Wins(h, g)
  BY WinsOrders
<1>5. \A g \in Best(found) : \A h \in found :
        DedupeKey(h) = DedupeKey(g) /\ h # g => Wins(g, h)
  BY DEF Best
<1>6. ASSUME NEW g \in more, \A h \in more : DedupeKey(h) = DedupeKey(g) /\ h # g => Wins(g, h)
      PROVE  g \in Best(more)
  BY <1>6 DEF Best
<1>7. Best(more) \subseteq more /\ more \subseteq Detections(file)
  BY DEF Best
<1>8. \A g \in Best(more) : \A h \in more :
        DedupeKey(h) = DedupeKey(g) /\ h # g => Wins(g, h)
  BY DEF Best
<1>9. \A g, h \in Best(found) : DedupeKey(g) = DedupeKey(h) => g = h
  BY <1>1, <1>2, <1>5
<1>10. CASE rivals = {}
  <2>1. \A g \in found : DedupeKey(g) # DedupeKey(f)
    BY <1>10
  <2>2. Best(more) = Best(found) \cup {f}
    <3>1. f \in Best(more)
      BY <1>6, <2>1
    <3>2. ASSUME NEW g \in found
          PROVE  g \in Best(more) <=> g \in Best(found)
      BY <2>1 DEF Best
    <3> QED
      BY <1>1, <1>7, <3>1, <3>2
  <2>3. Held(Best(found), f) = Best(found) \cup {f}
    BY <1>10 DEF Held
  <2> QED
    BY <2>2, <2>3
<1>11. CASE rivals # {}
  <2>1. PICK r \in Best(found) : DedupeKey(r) = DedupeKey(f)
    BY <1>11
  <2>2. rivals = {r} /\ r \in found /\ r \in Detections(file)
    BY <1>1, <1>9, <2>1
  <2>3. ASSUME NEW g \in found, DedupeKey(g) # DedupeKey(f)
        PROVE  g \in Best(more) <=> g \in Best(found)
    BY <2>3 DEF Best
  <2>4. ASSUME NEW g \in found, DedupeKey(g) = DedupeKey(f), g # r
        PROVE  g \notin Best(more) /\ g \notin Best(found) /\ Wins(r, g)
    <3>1. Wins(r, g) /\ g \in Detections(file) /\ r \in more /\ DedupeKey(r) = DedupeKey(g)
      BY <1>5, <2>1, <2>2, <2>4
    <3>2. ~Wins(g, r)
      BY <1>2, <2>2, <3>1
    <3> QED
      BY <1>5, <1>8, <2>2, <2>4, <3>1, <3>2
  <2>5. CASE Wins(f, r)
    <3>1. Held(Best(found), f) = (Best(found) \ {r}) \cup {f}
      BY <2>2, <2>5 DEF Held
    <3>2. f # r /\ ~Wins(r, f)
      BY <1>2, <2>2, <2>5
    <3>3. r \notin Best(more)
      BY <1>8, <2>1, <3>2
    <3>4. f \in Best(more)
      <4>1. ASSUME NEW h \in more, DedupeKey(h) = DedupeKey(f), h # f
            PROVE  Wins(f, h)
        <5>1. CASE h = r
          BY <2>5, <5>1
        <5>2. CASE h # r
          <6>1. h \in found /\ Wins(r, h) /\ h \in Detections(file)
            BY <2>4, <4>1, <5>2
          <6> QED
            BY <1>3, <2>2, <2>5, <6>1
        <5> QED
          BY <5>1, <5>2
      <4> QED
        BY <1>6, <4>1
    <3>5. f \in found => f \notin Best(found)
      BY <1>5, <2>1, <2>2, <3>2, <1>9
    <3>6. ASSUME NEW g
          PROVE  g \in Best(more) <=> g \in (Best(found) \ {r}) \cup {f}
      BY <1>1, <1>7, <2>3, <2>4, <3>3, <3>4, <3>5
    <3>7. Best(more) = (Best(found) \ {r}) \cup {f}
      BY <3>6
    <3>8. ASSUME NEW g \in more
          PROVE  \E h \in Best(more) : DedupeKey(h) = DedupeKey(g)
      BY <2>1, <3>4, <3>7
    <3> QED
      BY <3>1, <3>7, <3>8
  <2>6. CASE ~Wins(f, r)
    <3>1. Held(Best(found), f) = Best(found)
      BY <2>2, <2>6 DEF Held
    <3>2. f = r \/ Wins(r, f)
      BY <1>4, <2>1, <2>2, <2>6
    <3>3. r \in Best(more)
      <4>1. ASSUME NEW h \in more, DedupeKey(h) = DedupeKey(r), h # r
            PROVE  Wins(r, h)
        BY <2>1, <2>4, <3>2, <4>1
      <4> QED
        BY <1>6, <2>2, <4>1
    <3>4. f # r => f \notin Best(more) /\ f \notin Best(found)
      <4> SUFFICES ASSUME f # r
                   PROVE  f \notin Best(more) /\ f \notin Best(found)
        OBVIOUS
      <4>1. ~Wins(f, r) /\ r \in more /\ r \in found
        BY <2>2, <2>6
      <4> QED
        BY <1>5, <1>8, <2>1, <4>1
    <3>5. ASSUME NEW g
          PROVE  g \in Best(more) <=> g \in Best(found)
      BY <1>1, <1>7, <2>1, <2>3, <2>4, <3>3, <3>4
    <3>6. Best(more) = Best(found)
      BY <3>5
    <3> QED
      BY <2>1, <3>1, <3>6
  <2> QED
    BY <2>5, <2>6
<1> QED
  BY <1>10, <1>11

LEMMA DedupeIsBest ==
  ASSUME NEW file \in Files, NEW reports \in Seq(Detections(file))
  PROVE  /\ Dedupe(reports) = Best(ToSet(reports))
         /\ \A g \in ToSet(reports) :
              \E h \in Best(ToSet(reports)) : DedupeKey(h) = DedupeKey(g)
<1> DEFINE n == Len(reports)
           first(i) == {reports[j] : j \in 1 .. i}
<1>1. n \in Nat /\ DOMAIN reports = 1 .. n /\ \A i \in 1 .. n : reports[i] \in Detections(file)
  OBVIOUS
<1>2. PICK k : /\ k[0] = {}
               /\ \A i \in 1 .. n : k[i] = Held(k[i - 1], reports[i])
               /\ Dedupe(reports) = k[n]
  BY <1>1, DedupeSteps
<1> DEFINE Led(i) == /\ k[i] = Best(first(i))
                     /\ \A g \in first(i) : \E h \in Best(first(i)) : DedupeKey(h) = DedupeKey(g)
           Good == {i \in 0 .. n : Led(i)}
<1>3. Led(0)
  <2>1. first(0) = {} /\ Best({}) = {}
    BY DEF Best
  <2> HIDE DEF first
  <2> QED
    BY <1>2, <2>1
<1>4. ASSUME NEW i \in 1 .. n, Led(i - 1)
      PROVE  Led(i)
  <2>1. first(i) = first(i - 1) \cup {reports[i]}
    <3>1. 1 .. i = 1 .. i - 1 \cup {i}
      BY <1>1
    <3> QED
      BY <3>1
  <2>2. first(i - 1) \in SUBSET Detections(file) /\ reports[i] \in Detections(file)
    <3>1. \A j \in 1 .. i - 1 : j \in 1 .. n
      BY <1>1
    <3> QED
      BY <1>1, <3>1
  <2> HIDE DEF first
  <2>3. Held(Best(first(i - 1)), reports[i]) = Best(first(i))
        /\ \A g \in first(i) : \E h \in Best(first(i)) : DedupeKey(h) = DedupeKey(g)
    BY <1>4, <2>1, <2>2, BestMore
  <2> QED
    BY <1>2, <1>4, <2>3
<1>5. Led(n)
  <2> HIDE DEF Led
  <2>1. 0 \in Good
    BY <1>1, <1>3
  <2>2. ASSUME NEW i \in 1 .. n, i - 1 \in Good
        PROVE  i \in Good
    BY <1>1, <1>4, <2>2
  <2> HIDE DEF Good
  <2>3. \A i \in 0 .. n : i \in Good
    BY <1>1, <2>1, <2>2, Induction
  <2>4. n \in Good
    BY <1>1, <2>3
  <2> QED
    BY <2>4 DEF Good
<1>6. first(n) = ToSet(reports)
  BY <1>1 DEF ToSet
<1> HIDE DEF first
<1> QED
  BY <1>2, <1>5, <1>6

-----------------------------------------------------------------------------
(* The order of the reports.                                               *)

GateFile == lines \in Files

LEMMA InsertedType ==
  ASSUME NEW file \in Files, Len(file) < MaxLength, NEW kind \in LineKinds,
         NEW at \in 1 .. Len(file) + 1
  PROVE  InsertAt(file, at, kind) \in Files
<1>1. MaxLength \in Nat /\ file \in Seq(LineKinds)
  BY GateAssumption DEF Files
<1> DEFINE above == SubSeq(file, 1, at - 1)
           below == SubSeq(file, at, Len(file))
<1>2. above \in Seq(LineKinds) /\ Len(above) = at - 1
  BY <1>1
<1>3. below \in Seq(LineKinds) /\ Len(below) = Len(file) + 1 - at
  BY <1>1
<1> HIDE DEF above, below
<1> DEFINE upper == above \o <<kind>>
<1>4. <<kind>> \in Seq(LineKinds) /\ Len(<<kind>>) = 1
  OBVIOUS
<1>5. upper \in Seq(LineKinds) /\ Len(upper) = at
  BY <1>4, <1>2
<1> HIDE DEF upper
<1>6. upper \o below \in Seq(LineKinds) /\ Len(upper \o below) = Len(upper) + Len(below)
  BY <1>5, <1>3
<1>7. /\ above \o <<kind>> \o below \in Seq(LineKinds)
      /\ Len(above \o <<kind>> \o below) = Len(file) + 1
  BY <1>1, <1>5, <1>6, <1>3 DEF upper
<1>8. InsertAt(file, at, kind) = above \o <<kind>> \o below
  BY DEF InsertAt, above, below
<1>9. Len(file) + 1 <= MaxLength
  BY <1>1
<1> QED
  BY <1>7, <1>8, <1>9 DEF Files

LEMMA RemovedType ==
  ASSUME NEW file \in Files, NEW at \in DOMAIN file
  PROVE  RemoveAt(file, at) \in Files
<1>1. MaxLength \in Nat /\ file \in Seq(LineKinds) /\ at \in 1 .. Len(file)
  BY GateAssumption DEF Files
<1> DEFINE above == SubSeq(file, 1, at - 1)
           below == SubSeq(file, at + 1, Len(file))
<1>2. above \in Seq(LineKinds) /\ Len(above) = at - 1
  BY <1>1
<1>3. below \in Seq(LineKinds) /\ Len(below) = Len(file) - at
  BY <1>1
<1> HIDE DEF above, below
<1>4. above \o below \in Seq(LineKinds) /\ Len(above \o below) = Len(file) - 1
  BY <1>1, <1>2, <1>3
<1> QED
  BY <1>1, <1>4 DEF RemoveAt, Files, above, below

LEMMA FileInit == GateInit => GateFile
<1> SUFFICES ASSUME NEW kind \in LineKinds
             PROVE  <<kind>> \in Files
  BY DEF GateInit, GateFile
<1> QED
  BY GateAssumption DEF Files

LEMMA FileNext == GateFile /\ [GateNext]_gateVars => GateFile'
<1> SUFFICES ASSUME GateFile, [GateNext]_gateVars
             PROVE  GateFile'
  OBVIOUS
<1>1. ASSUME NEW kind \in LineKinds, NEW at \in 1 .. Len(lines) + 1, InsertLine(kind, at)
      PROVE  GateFile'
  BY <1>1, InsertedType DEF InsertLine, GateFile
<1>2. ASSUME NEW at \in DOMAIN lines, RemoveLine(at)
      PROVE  GateFile'
  BY <1>2, RemovedType DEF RemoveLine, GateFile
<1>3. ASSUME NEW newOnly \in BOOLEAN, NEW floor \in Floors, ScanCommand(newOnly, floor)
      PROVE  GateFile'
  BY <1>3 DEF ScanCommand, GateFile
<1>4. ASSUME NEW f \in report, DismissReported(f)
      PROVE  GateFile'
  BY <1>4 DEF DismissReported, GateFile
<1>5. CASE TakeBaseline
  BY <1>5 DEF TakeBaseline, GateFile
<1>6. CASE UNCHANGED gateVars
  BY <1>6 DEF gateVars, GateFile
<1> QED
  BY <1>1, <1>2, <1>3, <1>4, <1>5, <1>6 DEF GateNext

LEMMA OrderDecidesNothing == GateFile => DedupeIgnoresOrder
<1> SUFFICES ASSUME GateFile
             PROVE  DedupeIgnoresOrder
  OBVIOUS
<1> DEFINE all == Detections(lines)
           kept == Dedupe(SetToSeq(all))
<1>1. lines \in Files /\ IsFiniteSet(all)
  BY DetectionsFinite DEF GateFile
<1>2. kept = Best(all) /\ \A g \in all : \E h \in Best(all) : DedupeKey(h) = DedupeKey(g)
  <2>1. SetToSeq(all) \in Seq(all) /\ ToSet(SetToSeq(all)) = all
    BY <1>1, SetToSeqLists
  <2> QED
    BY <1>1, <2>1, DedupeIsBest
<1> HIDE DEF all, kept
<1>3. ASSUME NEW key \in {DedupeKey(f) : f \in all}
      PROVE  LET rivals == {f \in all : DedupeKey(f) = key}
                 left == {f \in kept : DedupeKey(f) = key}
             IN  /\ \A order \in SetToSeqs(rivals) : Dedupe(order) = left
                 /\ \A f \in rivals, g \in left : Priority(g) >= Priority(f)
  <2> DEFINE rivals == {f \in all : DedupeKey(f) = key}
             left == {f \in kept : DedupeKey(f) = key}
  <2>1. left = Best(rivals)
    BY <1>2 DEF Best
  <2>2. ASSUME NEW order \in SetToSeqs(rivals)
        PROVE  Dedupe(order) = left
    <3>1. rivals \in SUBSET all
      OBVIOUS
    <3>2. IsFiniteSet(rivals)
      BY <1>1, <3>1, FS_Subset
    <3>3. order \in Seq(rivals) /\ ToSet(order) = rivals
      BY <3>2, SetToSeqsList
    <3> HIDE DEF rivals, left
    <3>4. order \in Seq(all)
      BY <3>1, <3>3
    <3>5. Dedupe(order) = Best(rivals)
      BY <1>1, <3>3, <3>4, DedupeIsBest DEF all
    <3> QED
      BY <2>1, <3>5
  <2>3. ASSUME NEW f \in rivals, NEW g \in left
        PROVE  Priority(g) >= Priority(f)
    <3>1. g = f \/ Wins(g, f)
      BY <2>1 DEF Best
    <3>2. f \in all /\ g \in all /\ Priority(f) \in Nat /\ Priority(g) \in Nat
      <4>1. f \in all /\ g \in all
        BY <2>1 DEF Best
      <4> QED
        BY <1>1, <4>1, WeightsType DEF all
    <3> HIDE DEF left, rivals
    <3>3. Wins(g, f) => Priority(g) >= Priority(f)
      BY <1>1, <3>2, WinsOrders DEF all
    <3> QED
      BY <3>1, <3>2, <3>3
  <2> QED
    BY <2>2, <2>3
<1> QED
  BY <1>3 DEF DedupeIgnoresOrder, all, kept

\* Whatever the rules, whatever the file becomes and in whatever order the
\* scanners yield their findings, the same one of each defect is left, and
\* none of that defect is louder (dedupe, _wins).
THEOREM OrderIgnored == GateSpec => []DedupeIgnoresOrder
<1>1. GateInit => GateFile
  BY FileInit
<1>2. GateFile /\ [GateNext]_gateVars => GateFile'
  BY FileNext
<1>3. GateFile => DedupeIgnoresOrder
  BY OrderDecidesNothing
<1> QED
  BY <1>1, <1>2, <1>3, PTL DEF GateSpec

-----------------------------------------------------------------------------
(* What a baseline of all of a file lets pass.  As long as the reviewer    *)
(* has dismissed nothing, what the last scan reports is open in the store, *)
(* and so a baseline that is taken then holds all of it.                   *)

Undismissed ==
  [status : {"absent", "open"}, comments : SUBSET Store!Authors,
   fix : Store!Ages \cup {Store!NoFix}, seen : Store!Ages]

Everything(file) == Triage(SetToSeq(Detections(file)), "info")

RatchetInv ==
  /\ GateFile
  /\ judged = {} => store \in [Identities -> Undismissed]
  /\ fresh => report \subseteq Detections(lines)
  /\ fresh /\ judged = {} => \A f \in report : store[f.id].status = "open"
  /\ frozen # <<>> => \A f \in Everything(frozen) : f.id \in baseline

LEMMA RankIs ==
  ASSUME NEW n \in DOMAIN Severities
  PROVE  Rank(Severities[n]) = n
<1>1. DOMAIN Severities = 1 .. 5
  BY DEF Severities
<1>2. \A m \in DOMAIN Severities : Severities[m] = Severities[n] => m = n
  BY <1>1 DEF Severities
<1> QED
  BY <1>2 DEF Rank

\* The floor only ever takes away from what triage leaves with none.
LEMMA FloorLeavesFewer ==
  ASSUME NEW file \in Files, NEW floor
  PROVE  /\ Triage(SetToSeq(Detections(file)), floor) \subseteq Everything(file)
         /\ Everything(file) \subseteq Detections(file)
<1> DEFINE all == Detections(file)
           kept == Dedupe(SetToSeq(all))
<1>1. kept \subseteq all
  <2>1. SetToSeq(all) \in Seq(all)
    BY DetectionsFinite, SetToSeqLists
  <2> QED
    BY <2>1, DedupeKeepsReports
<1>2. ASSUME NEW f \in all
      PROVE  Rank(f.severity) >= Rank("info")
  <2>1. RuleTable[f.rule] \in RuleRecord /\ f.severity = RuleTable[f.rule].severity
    BY DetectionShape, RuleTableAssumption
  <2>2. PICK n \in DOMAIN Severities : f.severity = Severities[n]
    BY <2>1 DEF RuleRecord, ToSet
  <2>3. Rank(f.severity) = n
    BY <2>2, RankIs
  <2>4. DOMAIN Severities = 1 .. 5 /\ Severities[1] = "info"
    BY DEF Severities
  <2>5. Rank("info") = 1
    <3>1. 1 \in DOMAIN Severities
      BY <2>4
    <3> QED
      BY <2>4, <3>1, RankIs
  <2> QED
    BY <2>3, <2>4, <2>5
<1> HIDE DEF all, kept
<1>3. /\ Triage(SetToSeq(all), floor) = {f \in kept : Rank(f.severity) >= Rank(floor)}
      /\ Everything(file) = {f \in kept : Rank(f.severity) >= Rank("info")}
  BY DEF Triage, FilterSeverity, Everything, all, kept
<1> QED
  BY <1>1, <1>2, <1>3 DEF all

LEMMA MergeOfOpen ==
  ASSUME NEW F \in [Identities -> Undismissed], NEW incoming,
         \A f \in Identities : \/ incoming[f] = Store!Blank
                               \/ incoming[f] = [Store!Blank EXCEPT !.status = "open"]
  PROVE  LET merged == Store!Merge(F, incoming, {}, {ThePath})
         IN  /\ merged \in [Identities -> Undismissed]
             /\ \A f \in Identities :
                  incoming[f].status = "open" => merged[f].status = "open"
<1> DEFINE merged == Store!Merge(F, incoming, {}, {ThePath})
           reported == Store!Reported(incoming)
<1>1. \A f \in Identities : F[f] \in Undismissed
  OBVIOUS
<1>2. \A f \in Identities : /\ F[f].status \in {"absent", "open"}
                            /\ Store!InStore(F, f) <=> F[f].status = "open"
  BY <1>1 DEF Undismissed, Store!InStore
<1>3. Store!Seen(incoming, {}) = reported
  BY DEF Store!Seen, Store!IsSuppressed, Store!Reported
<1>4. Store!Regressed(F, incoming, {}) = {}
  <2>1. ASSUME NEW f \in Identities
        PROVE  F[f].status \notin {"fixed", "verified"}
    BY <1>2
  <2> QED
    BY <2>1 DEF Store!Regressed, Store!Seen, Store!Reported
<1>5. Store!VerifiedByMerge(F, incoming, {}, {ThePath}) = {}
  <2>1. ASSUME NEW f \in Identities
        PROVE  F[f].status \notin {"fixed", "fixing"}
    BY <1>2
  <2> QED
    BY <2>1 DEF Store!VerifiedByMerge, Store!Gone, Store!Reported
<1>6. \A f \in Identities : /\ f \in reported <=> incoming[f].status # "absent"
                            /\ incoming[f] \in Undismissed
                            /\ incoming[f].seen \in Store!Ages
                            /\ f \in reported => incoming[f].status = "open"
                            /\ incoming[f].status = "open" => f \in reported
  BY DEF Store!Blank, Undismissed, Store!Ages, Store!NoFix, Store!Reported, Store!InStore
<1>7. merged = [f \in Identities |->
                  CASE f \in reported /\ ~Store!InStore(F, f) -> incoming[f]
                    [] f \in {} -> Store!Reopened(F[f], incoming[f].seen)
                    [] f \in {} -> Store!Retired(F[f])
                    [] f \in (reported \ {}) /\ Store!InStore(F, f) ->
                         Store!Refreshed(F[f], incoming[f].seen)
                    [] OTHER -> F[f]]
  BY <1>3, <1>4, <1>5 DEF Store!Merge
<1> HIDE DEF merged
<1>8. ASSUME NEW f \in Identities
      PROVE  /\ merged[f] \in Undismissed
             /\ f \in reported => merged[f].status = "open"
  <2> DEFINE age == incoming[f].seen
             again == Store!Refreshed(F[f], age)
  <2>1. age \in Store!Ages /\ F[f] \in Undismissed
    BY <1>6
  <2>2. again \in Undismissed /\ again.status = F[f].status
    <3> HIDE DEF age
    <3> QED
      BY <2>1 DEF Store!Refreshed, Undismissed
  <2> HIDE DEF again
  <2>3. CASE f \in reported /\ ~Store!InStore(F, f)
    BY <1>6, <1>7, <2>3
  <2>4. CASE f \in reported /\ Store!InStore(F, f)
    <3>1. merged[f] = again
      BY <1>7, <2>4 DEF again
    <3> QED
      BY <1>2, <2>2, <2>4, <3>1
  <2>5. CASE f \notin reported
    BY <1>7, <2>1, <2>5
  <2> QED
    BY <2>3, <2>4, <2>5
<1>9. merged \in [Identities -> Undismissed]
  <2>1. merged = [f \in Identities |-> merged[f]]
    BY <1>7
  <2> QED
    BY <1>8, <2>1
<1> QED
  BY <1>6, <1>8, <1>9 DEF merged

LEMMA RatchetInit == GateInit => RatchetInv
<1> SUFFICES ASSUME GateInit
             PROVE  RatchetInv
  OBVIOUS
<1>1. GateFile
  BY FileInit
<1>2. store \in [Identities -> Undismissed]
  <2>1. Store!Blank \in Undismissed
    BY DEF Store!Blank, Undismissed, Store!Ages, Store!NoFix
  <2> QED
    BY <2>1 DEF GateInit, Store!EmptyStore
<1> QED
  BY <1>1, <1>2 DEF GateInit, RatchetInv

\* What a scan does to the store, and what it shows.
LEMMA ScanIs ==
  ASSUME RatchetInv, NEW newOnly \in BOOLEAN, NEW floor, ScanCommand(newOnly, floor)
  PROVE  /\ judged = {} => /\ store' \in [Identities -> Undismissed]
                           /\ \A f \in report' : store'[f.id].status = "open"
         /\ report' \subseteq Everything(lines)
         /\ report' \subseteq Detections(lines)
         /\ newOnly => \A f \in report' : f.id \notin baseline
<1> DEFINE found == Triage(Reports, floor)
<1>1. lines \in Files
  BY DEF RatchetInv, GateFile
<1>2. found \subseteq Everything(lines) /\ found \subseteq Detections(lines)
  BY <1>1, FloorLeavesFewer DEF Reports
<1>3. report' = IF newOnly THEN {f \in found : f.id \notin baseline} ELSE found
  BY DEF ScanCommand
<1>4. store' = Store!Merge(store, Incoming(found), {}, {ThePath})
  BY DEF ScanCommand
<1>5. \A f \in found : f.id \in Identities
  BY <1>1, <1>2, DetectionShape
<1> HIDE DEF found
<1>6. ASSUME judged = {}
      PROVE  store' \in [Identities -> Undismissed]
             /\ \A f \in found : store'[f.id].status = "open"
  <2>1. store \in [Identities -> Undismissed]
    BY <1>6 DEF RatchetInv
  <2> DEFINE incoming == Incoming(found)
  <2>2. \A f \in Identities : \/ incoming[f] = Store!Blank
                              \/ incoming[f] = [Store!Blank EXCEPT !.status = "open"]
    BY DEF Incoming
  <2>3. \A f \in found : incoming[f.id].status = "open"
    BY <1>5 DEF Incoming, Store!Blank
  <2> HIDE DEF incoming
  <2>4. /\ Store!Merge(store, incoming, {}, {ThePath}) \in [Identities -> Undismissed]
        /\ \A f \in Identities : incoming[f].status = "open" =>
             Store!Merge(store, incoming, {}, {ThePath})[f].status = "open"
    BY <2>1, <2>2, MergeOfOpen
  <2> QED
    BY <1>4, <1>5, <2>3, <2>4 DEF incoming
<1> QED
  BY <1>2, <1>3, <1>6

LEMMA RatchetNext == RatchetInv /\ [GateNext]_gateVars => RatchetInv'
<1> SUFFICES ASSUME RatchetInv, [GateNext]_gateVars
             PROVE  RatchetInv'
  OBVIOUS
<1>1. GateFile'
  BY FileNext DEF RatchetInv
<1>2. ASSUME NEW kind \in LineKinds, NEW at \in 1 .. Len(lines) + 1, InsertLine(kind, at)
      PROVE  RatchetInv'
  BY <1>1, <1>2 DEF InsertLine, Edited, RatchetInv
<1>3. ASSUME NEW at \in DOMAIN lines, RemoveLine(at)
      PROVE  RatchetInv'
  BY <1>1, <1>3 DEF RemoveLine, Edited, RatchetInv
<1>4. ASSUME NEW newOnly \in BOOLEAN, NEW floor \in Floors, ScanCommand(newOnly, floor)
      PROVE  RatchetInv'
  <2>1. UNCHANGED <<lines, baseline, frozen, judged>>
    BY <1>4 DEF ScanCommand
  <2>2. /\ judged = {} => /\ store' \in [Identities -> Undismissed]
                          /\ \A f \in report' : store'[f.id].status = "open"
        /\ report' \subseteq Detections(lines)
    BY <1>4, ScanIs
  <2> QED
    BY <1>1, <2>1, <2>2 DEF RatchetInv
<1>5. ASSUME NEW f \in report, DismissReported(f)
      PROVE  RatchetInv'
  <2>1. judged' # {} /\ UNCHANGED <<lines, report, fresh, baseline, frozen>>
    BY <1>5 DEF DismissReported
  <2> QED
    BY <1>1, <2>1 DEF RatchetInv
<1>6. CASE TakeBaseline
  <2>1. /\ UNCHANGED <<lines, store, report, fresh, judged>>
        /\ baseline' = {f \in Identities : store[f].status \in Actionable}
        /\ frozen' = IF fresh /\ judged = {} /\ report = Everything(lines)
                     THEN lines ELSE <<>>
    BY <1>6 DEF TakeBaseline, Everything, Reports
  <2>2. ASSUME fresh, judged = {}, report = Everything(lines), NEW f \in Everything(lines)
        PROVE  f.id \in baseline'
    <3>1. f \in Detections(lines) /\ store[f.id].status = "open"
      BY <2>2 DEF RatchetInv
    <3>2. f.id \in Identities
      BY <3>1, DetectionShape DEF RatchetInv, GateFile
    <3> QED
      BY <2>1, <3>1, <3>2 DEF Actionable
  <2>3. (frozen # <<>> => \A f \in Everything(frozen) : f.id \in baseline)'
    BY <2>1, <2>2
  <2> QED
    BY <1>1, <2>1, <2>3 DEF RatchetInv
<1>7. CASE UNCHANGED gateVars
  BY <1>1, <1>7 DEF gateVars, RatchetInv
<1> QED
  BY <1>2, <1>3, <1>4, <1>5, <1>6, <1>7 DEF GateNext

\* A ratchet set on the whole of a file, before anything was dismissed, passes
\* that file for ever, whatever the rules and the edits, dismissals and scans
\* in between (cmd_baseline, cmd_scan).
THEOREM RatchetPasses == GateSpec => RatchetPassesWhatItFroze
<1>1. GateInit => RatchetInv
  BY RatchetInit
<1>2. RatchetInv /\ [GateNext]_gateVars => RatchetInv'
  BY RatchetNext
<1>3. RatchetInv =>
        [\A floor \in Floors :
           frozen # <<>> /\ lines = frozen /\ ScanCommand(TRUE, floor) =>
             report' = {} /\ exitCode' = 0]_gateVars
  <2> SUFFICES ASSUME RatchetInv, NEW floor \in Floors,
                      frozen # <<>>, lines = frozen, ScanCommand(TRUE, floor)
               PROVE  report' = {} /\ exitCode' = 0
    OBVIOUS
  <2>1. report' = {}
    BY ScanIs DEF RatchetInv
  <2>2. exitCode' = ExitCode(report', FailOn)
    BY DEF ScanCommand
  <2> QED
    BY <2>1, <2>2 DEF ExitCode
<1> QED
  BY <1>1, <1>2, <1>3, PTL DEF GateSpec, RatchetPassesWhatItFroze

-----------------------------------------------------------------------------
(* A line on top.  Sample blocks and here-documents are read off one line  *)
(* after the other; a quiet line leaves them as they start, and all that   *)
(* was found of the file is found one line below.                          *)

BlockStates == [fenced : BOOLEAN, depth : Nat, inside : BOOLEAN]

LEMMA AfterLineType ==
  ASSUME NEW was \in BlockStates, NEW line \in LineKinds
  PROVE  AfterLine(was, line) \in BlockStates
<1>1. /\ line.fence \in BOOLEAN /\ line.opens \in Nat /\ line.closes \in Nat
      /\ was.fenced \in BOOLEAN /\ was.depth \in Nat
  BY GateAssumption DEF LineRecord, BlockStates
<1> DEFINE depth == was.depth + line.opens - line.closes
           open == Max({0, depth})
<1>2. open \in Nat
  <2>1. CASE depth >= 0
    <3>1. {0, depth} \in SUBSET Int /\ depth \in {0, depth}
          /\ \A x \in {0, depth} : depth >= x
      BY <1>1, <2>1
    <3> HIDE DEF depth
    <3>2. open = depth
      BY <3>1, MaxIs
    <3> QED
      BY <2>1, <3>1, <3>2
  <2>2. CASE ~(depth >= 0)
    <3>1. {0, depth} \in SUBSET Int /\ 0 \in {0, depth} /\ \A x \in {0, depth} : 0 >= x
      BY <1>1, <2>2
    <3>2. open = 0
      BY <3>1, MaxIs
    <3> QED
      BY <3>2
  <2> QED
    BY <2>1, <2>2
<1> HIDE DEF open
<1> QED
  BY <1>1, <1>2 DEF AfterLine, BlockStates, open

LEMMA SamplesSteps ==
  ASSUME NEW file \in Seq(LineKinds)
  PROVE  \E after \in [0 .. Len(file) -> BlockStates] :
           /\ after[0] = Outside
           /\ \A i \in 1 .. Len(file) : after[i] = AfterLine(after[i - 1], file[i])
           /\ Samples(file) = {i \in 1 .. Len(file) : Markup /\ after[i].inside}
<1> DEFINE n == Len(file)
           V == BlockStates
           step == [p \in (1 .. n) \X V |-> AfterLine(p[2], file[p[1]])]
           Turned(g) == [i \in 0 .. Len(file) |->
                         IF i = 0 THEN Outside ELSE AfterLine(g[i - 1], file[i])]
           after == CHOOSE g : g = Turned(g)
<1>1. /\ n \in Nat /\ DOMAIN file = 1 .. n /\ Outside \in V
      /\ \A i \in 1 .. n : file[i] \in LineKinds
  BY DEF Outside, BlockStates
<1>2. step \in [(1 .. n) \X V -> V]
  BY <1>1, AfterLineType
<1>3. PICK g \in [0 .. n -> V] : IsChain(g, n, Outside, step)
  <2> HIDE DEF step, n, V
  <2> QED
    BY <1>1, <1>2, Chain
<1>4. ASSUME NEW i \in 1 .. n
      PROVE  step[<<i, g[i - 1]>>] = AfterLine(g[i - 1], file[i])
  <2>1. i - 1 \in 0 .. n
    BY <1>1
  <2> QED
    BY <1>3, <2>1
<1>5. \A i \in 0 .. n : g[i] = IF i = 0 THEN Outside ELSE AfterLine(g[i - 1], file[i])
  <2>1. \A i \in 0 .. n : i # 0 => i \in 1 .. n
    BY <1>1
  <2> QED
    BY <1>3, <1>4, <2>1 DEF IsChain
<1>6. g = Turned(g)
  BY <1>3, <1>5
<1>7. after = Turned(after)
  BY <1>6
<1>8. Samples(file) = {i \in DOMAIN file : Markup /\ after[i].inside}
  BY DEF Samples
<1> HIDE DEF after, step
<1>9. after[0] = Outside /\ DOMAIN after = 0 .. n
  BY <1>1, <1>7
<1>10. \A i \in 1 .. n : after[i] = AfterLine(after[i - 1], file[i])
  BY <1>1, <1>7
<1>11. \A i \in 0 .. n : after[i] \in V
  <2> DEFINE Typed == {i \in 0 .. n : after[i] \in V}
  <2> HIDE DEF V
  <2>1. 0 \in Typed
    BY <1>1, <1>9
  <2>2. ASSUME NEW i \in 1 .. n, i - 1 \in Typed
        PROVE  i \in Typed
    BY <1>1, <1>10, <2>2, AfterLineType DEF V
  <2> HIDE DEF Typed
  <2>3. \A i \in 0 .. n : i \in Typed
    BY <1>1, <2>1, <2>2, Induction
  <2> QED
    BY <2>3 DEF Typed
<1>12. after \in [0 .. n -> V]
  <2>1. after = [i \in 0 .. n |-> after[i]]
    BY <1>7
  <2> QED
    BY <1>11, <2>1
<1> QED
  BY <1>1, <1>8, <1>9, <1>10, <1>12

LEMMA HeredocsSteps ==
  ASSUME NEW file \in Seq(LineKinds)
  PROVE  \E open \in [0 .. Len(file) -> BOOLEAN] :
           /\ ~open[0]
           /\ \A i \in 1 .. Len(file) :
                open[i] <=> (open[i - 1] # (file[i].triples % 2 = 1))
           /\ Heredocs(file) =
                {i \in 1 .. Len(file) :
                   Tripled /\ (open[i - 1] \/ open[i] \/ file[i].triples > 0)}
<1> DEFINE n == Len(file)
           V == BOOLEAN
           step == [p \in (1 .. n) \X V |-> p[2] # (file[p[1]].triples % 2 = 1)]
           Turned(g) == [i \in 0 .. Len(file) |->
                         IF i = 0 THEN FALSE ELSE g[i - 1] # (file[i].triples % 2 = 1)]
           open == CHOOSE g : g = Turned(g)
<1>1. n \in Nat /\ DOMAIN file = 1 .. n /\ FALSE \in V
  OBVIOUS
<1>2. step \in [(1 .. n) \X V -> V]
  OBVIOUS
<1>3. PICK g \in [0 .. n -> V] : IsChain(g, n, FALSE, step)
  <2> HIDE DEF step, n, V
  <2> QED
    BY <1>1, <1>2, Chain
<1>4. ASSUME NEW i \in 1 .. n
      PROVE  step[<<i, g[i - 1]>>] = (g[i - 1] # (file[i].triples % 2 = 1))
  <2>1. i - 1 \in 0 .. n
    BY <1>1
  <2> QED
    BY <1>3, <2>1
<1>5. \A i \in 0 .. n :
        g[i] = IF i = 0 THEN FALSE ELSE g[i - 1] # (file[i].triples % 2 = 1)
  <2>1. \A i \in 0 .. n : i # 0 => i \in 1 .. n
    BY <1>1
  <2> QED
    BY <1>3, <1>4, <2>1 DEF IsChain
<1>6. g = Turned(g)
  BY <1>3, <1>5
<1>7. open = Turned(open)
  BY <1>6
<1>8. Heredocs(file) =
        {i \in DOMAIN file : Tripled /\ (open[i - 1] \/ open[i] \/ file[i].triples > 0)}
  BY DEF Heredocs
<1> HIDE DEF open, step
<1>9. open[0] = FALSE
  BY <1>1, <1>7
<1>10. \A i \in 1 .. n : open[i] = (open[i - 1] # (file[i].triples % 2 = 1))
  BY <1>1, <1>7
<1>11. \A i \in 0 .. n : open[i] \in V
  <2>1. \A i \in 0 .. n : i # 0 => i \in 1 .. n
    BY <1>1
  <2> QED
    BY <1>9, <1>10, <2>1
<1>12. open \in [0 .. n -> V]
  <2>1. open = [i \in 0 .. n |-> open[i]]
    BY <1>7
  <2> QED
    BY <1>11, <2>1
<1> QED
  BY <1>1, <1>8, <1>9, <1>10, <1>12

\* A file with a line on top of it.
Under(kind, file) == <<kind>> \o file

LEMMA UnderIs ==
  ASSUME NEW kind \in LineKinds, NEW file \in Seq(LineKinds)
  PROVE  /\ Under(kind, file) \in Seq(LineKinds)
         /\ Len(Under(kind, file)) = Len(file) + 1 /\ Len(file) \in Nat
         /\ Under(kind, file)[1] = kind
         /\ \A i \in 1 .. Len(file) : Under(kind, file)[i + 1] = file[i]
BY DEF Under

LEMMA QuietLine ==
  ASSUME NEW kind \in LineKinds, Quiet(kind)
  PROVE  AfterLine(Outside, kind) = Outside
<1>1. kind.fence = FALSE /\ kind.opens = 0 /\ kind.closes \in Nat
  BY GateAssumption DEF Quiet, LineRecord
<1> DEFINE depth == 0 + kind.opens - kind.closes
<1>2. Max({0, depth}) = 0
  <2>1. {0, depth} \in SUBSET Int /\ 0 \in {0, depth} /\ \A x \in {0, depth} : 0 >= x
    BY <1>1
  <2> HIDE DEF depth
  <2> QED
    BY <2>1, MaxIs
<1>3. AfterLine(Outside, kind) =
        [fenced |-> FALSE, depth |-> Max({0, depth}), inside |-> 0 > 0 \/ kind.opens > 0]
  BY <1>1 DEF AfterLine, Outside
<1>4. (0 > 0 \/ kind.opens > 0) = FALSE
  BY <1>1
<1> HIDE DEF depth
<1> QED
  BY <1>2, <1>3, <1>4 DEF Outside

LEMMA SamplesShift ==
  ASSUME NEW kind \in LineKinds, Quiet(kind), NEW file \in Seq(LineKinds),
         NEW i \in 1 .. Len(file)
  PROVE  i + 1 \in Samples(Under(kind, file)) <=> i \in Samples(file)
<1> DEFINE n == Len(file)
           up == Under(kind, file)
<1>1. /\ up \in Seq(LineKinds) /\ Len(up) = n + 1 /\ n \in Nat
      /\ up[1] = kind /\ \A j \in 1 .. n : up[j + 1] = file[j]
  BY UnderIs
<1> HIDE DEF up
<1>2. PICK a : /\ a[0] = Outside
               /\ \A j \in 1 .. n : a[j] = AfterLine(a[j - 1], file[j])
               /\ Samples(file) = {j \in 1 .. n : Markup /\ a[j].inside}
  BY SamplesSteps
<1>3. PICK b : /\ b[0] = Outside
               /\ \A j \in 1 .. n + 1 : b[j] = AfterLine(b[j - 1], up[j])
               /\ Samples(up) = {j \in 1 .. n + 1 : Markup /\ b[j].inside}
  <2>1. PICK b : /\ b[0] = Outside
                 /\ \A j \in 1 .. Len(up) : b[j] = AfterLine(b[j - 1], up[j])
                 /\ Samples(up) = {j \in 1 .. Len(up) : Markup /\ b[j].inside}
    BY <1>1, SamplesSteps
  <2> QED
    BY <1>1, <2>1
<1>4. b[1] = Outside
  <2>1. b[1] = AfterLine(b[0], up[1])
    BY <1>1, <1>3
  <2> QED
    BY <1>1, <1>3, <2>1, QuietLine
<1>5. ASSUME NEW j \in 1 .. n, b[j] = a[j - 1]
      PROVE  b[j + 1] = a[j]
  <2>1. b[j + 1] = AfterLine(b[j], up[j + 1])
    <3>1. j + 1 \in 1 .. n + 1 /\ j + 1 - 1 = j
      BY <1>1
    <3> QED
      BY <1>3, <3>1
  <2> QED
    BY <1>1, <1>2, <1>5, <2>1
<1>6. \A j \in 0 .. n : b[j + 1] = a[j]
  <2> DEFINE Same == {j \in 0 .. n : b[j + 1] = a[j]}
  <2>1. 0 \in Same
    BY <1>1, <1>2, <1>4
  <2>2. ASSUME NEW j \in 1 .. n, j - 1 \in Same
        PROVE  j \in Same
    <3>1. j - 1 + 1 = j /\ b[j] = a[j - 1]
      BY <1>1, <2>2
    <3>2. b[j + 1] = a[j]
      BY <1>5, <3>1
    <3> QED
      BY <1>1, <3>2
  <2> HIDE DEF Same
  <2>3. \A j \in 0 .. n : j \in Same
    BY <1>1, <2>1, <2>2, Induction
  <2> QED
    BY <2>3 DEF Same
<1>7. i + 1 \in 1 .. n + 1 /\ i \in 0 .. n
  BY <1>1
<1> QED
  BY <1>2, <1>3, <1>6, <1>7 DEF up

LEMMA HeredocsShift ==
  ASSUME NEW kind \in LineKinds, Quiet(kind), NEW file \in Seq(LineKinds),
         NEW i \in 1 .. Len(file)
  PROVE  i + 1 \in Heredocs(Under(kind, file)) <=> i \in Heredocs(file)
<1> DEFINE n == Len(file)
           up == Under(kind, file)
<1>1. /\ up \in Seq(LineKinds) /\ Len(up) = n + 1 /\ n \in Nat
      /\ up[1] = kind /\ \A j \in 1 .. n : up[j + 1] = file[j]
  BY UnderIs
<1> HIDE DEF up
<1>2. PICK a \in [0 .. n -> BOOLEAN] :
        /\ ~a[0]
        /\ \A j \in 1 .. n : a[j] <=> (a[j - 1] # (file[j].triples % 2 = 1))
        /\ Heredocs(file) = {j \in 1 .. n : Tripled /\ (a[j - 1] \/ a[j] \/ file[j].triples > 0)}
  BY HeredocsSteps
<1>3. PICK b \in [0 .. Len(up) -> BOOLEAN] :
        /\ ~b[0]
        /\ \A j \in 1 .. Len(up) : b[j] <=> (b[j - 1] # (up[j].triples % 2 = 1))
        /\ Heredocs(up) =
             {j \in 1 .. Len(up) : Tripled /\ (b[j - 1] \/ b[j] \/ up[j].triples > 0)}
  BY <1>1, HeredocsSteps
<1> DEFINE odd(line) == line.triples % 2 = 1
<1>4. ~b[1]
  <2>1. kind.triples % 2 = 0
    BY DEF Quiet
  <2>2. 1 \in 1 .. Len(up) /\ 1 - 1 = 0
    BY <1>1
  <2>3. b[1] <=> (b[0] # odd(up[1]))
    BY <1>3, <2>2
  <2>4. odd(up[1]) = FALSE
    BY <1>1, <2>1
  <2> QED
    BY <1>3, <2>3, <2>4
<1>5. ASSUME NEW j \in 1 .. n, b[j] = a[j - 1]
      PROVE  b[j + 1] = a[j]
  <2>1. j + 1 \in 1 .. Len(up) /\ j + 1 - 1 = j /\ j \in 0 .. n /\ j + 1 \in 0 .. Len(up)
    BY <1>1
  <2>2. b[j + 1] <=> (b[j] # odd(up[j + 1]))
    BY <1>3, <2>1
  <2>3. a[j] <=> (a[j - 1] # odd(file[j]))
    BY <1>2
  <2>4. odd(up[j + 1]) = odd(file[j])
    BY <1>1
  <2> HIDE DEF odd
  <2>5. b[j + 1] <=> a[j]
    BY <1>5, <2>2, <2>3, <2>4
  <2>6. b[j + 1] \in BOOLEAN /\ a[j] \in BOOLEAN
    BY <1>2, <1>3, <2>1
  <2> QED
    BY <2>5, <2>6
<1>6. \A j \in 0 .. n : b[j + 1] = a[j]
  <2> DEFINE Same == {j \in 0 .. n : b[j + 1] = a[j]}
  <2>1. 0 \in Same
    <3>1. 1 \in 0 .. Len(up) /\ 0 \in 0 .. n /\ 0 + 1 = 1
      BY <1>1
    <3>2. b[1] \in BOOLEAN /\ a[0] \in BOOLEAN
      BY <1>2, <1>3, <3>1
    <3>3. b[1] = a[0]
      BY <1>2, <1>4, <3>2
    <3> QED
      BY <3>1, <3>3
  <2>2. ASSUME NEW j \in 1 .. n, j - 1 \in Same
        PROVE  j \in Same
    <3>1. j - 1 + 1 = j /\ b[j] = a[j - 1]
      BY <1>1, <2>2
    <3>2. b[j + 1] = a[j]
      BY <1>5, <3>1
    <3> QED
      BY <1>1, <3>2
  <2> HIDE DEF Same
  <2>3. \A j \in 0 .. n : j \in Same
    BY <1>1, <2>1, <2>2, Induction
  <2> QED
    BY <2>3 DEF Same
<1>7. i + 1 \in 1 .. Len(up) /\ i \in 0 .. n /\ i - 1 \in 0 .. n /\ i + 1 - 1 = i /\ i - 1 + 1 = i
  BY <1>1
<1>8. b[i + 1] = a[i] /\ b[i] = a[i - 1] /\ up[i + 1] = file[i]
  BY <1>1, <1>6, <1>7
<1> QED
  BY <1>2, <1>3, <1>7, <1>8 DEF up

LEMMA MatchingShift ==
  ASSUME NEW kind \in LineKinds, Quiet(kind), NEW file \in Seq(LineKinds),
         NEW rule \in RuleIds
  PROVE  Matching(Under(kind, file), rule) = {i + 1 : i \in Matching(file, rule)}
<1> DEFINE n == Len(file)
           up == Under(kind, file)
           r == RuleTable[rule]
<1>1. /\ up \in Seq(LineKinds) /\ Len(up) = n + 1 /\ n \in Nat /\ DOMAIN up = 1 .. n + 1
      /\ up[1] = kind /\ \A j \in 1 .. n : up[j + 1] = file[j]
      /\ DOMAIN file = 1 .. n
  BY UnderIs
<1>2. kind.found = {} /\ kind.ignores = {} /\ ~kind.near
  BY DEF Quiet
<1>3. \A i \in 1 .. n : /\ i + 1 \in Samples(up) <=> i \in Samples(file)
                        /\ i + 1 \in Heredocs(up) <=> i \in Heredocs(file)
  BY SamplesShift, HeredocsShift
<1>4. r.window \in Nat
  BY RuleTableAssumption DEF RuleRecord
<1> HIDE DEF up, r
<1>5. ASSUME NEW i \in 1 .. n
      PROVE  NearWord(up, i + 1, r.window) <=> NearWord(file, i, r.window)
  <2>1. ASSUME NearWord(up, i + 1, r.window)
        PROVE  NearWord(file, i, r.window)
    <3>1. PICK j \in 1 .. n + 1 : /\ (i + 1) - r.window <= j /\ j <= i + 1 + r.window
                                 /\ up[j].near /\ ~up[j].comment
      BY <1>1, <2>1 DEF NearWord
    <3>2. j # 1
      BY <1>1, <1>2, <3>1
    <3>3. /\ j - 1 \in 1 .. n /\ j - 1 + 1 = j
          /\ i - r.window <= j - 1 /\ j - 1 <= i + r.window
      BY <1>1, <1>4, <3>1, <3>2
    <3>4. up[j] = file[j - 1]
      BY <1>1, <3>3
    <3> QED
      BY <1>1, <3>1, <3>3, <3>4 DEF NearWord
  <2>2. ASSUME NearWord(file, i, r.window)
        PROVE  NearWord(up, i + 1, r.window)
    <3>1. PICK j \in 1 .. n : /\ i - r.window <= j /\ j <= i + r.window
                             /\ file[j].near /\ ~file[j].comment
      BY <1>1, <2>2 DEF NearWord
    <3>2. j + 1 \in DOMAIN up /\ (i + 1) - r.window <= j + 1 /\ j + 1 <= i + 1 + r.window
      BY <1>1, <1>4, <3>1
    <3>3. up[j + 1] = file[j]
      BY <1>1
    <3> QED
      BY <3>1, <3>2, <3>3 DEF NearWord
  <2> QED
    BY <2>1, <2>2
<1>6. ASSUME NEW i \in 1 .. n
      PROVE  SuppressedBySource(up, i + 1, rule) <=> SuppressedBySource(file, i, rule)
  <2>1. i + 1 > 1 /\ i + 1 - 1 = i /\ up[i + 1] = file[i]
    BY <1>1
  <2>2. CASE i = 1
    BY <1>1, <1>2, <2>1, <2>2 DEF SuppressedBySource
  <2>3. CASE i # 1
    <3>1. i - 1 \in 1 .. n /\ i - 1 + 1 = i /\ i > 1
      BY <1>1, <2>3
    <3>2. up[i] = file[i - 1]
      BY <1>1, <3>1
    <3> QED
      BY <2>1, <3>1, <3>2 DEF SuppressedBySource
  <2> QED
    BY <2>2, <2>3
<1> DEFINE Counts(lines_, i) ==
             /\ ~lines_[i].long
             /\ i \notin Samples(lines_)
             /\ lines_[i].comment => r.comments
             /\ rule \in lines_[i].found \ lines_[i].excused
             /\ ~r.strings => i \notin Heredocs(lines_) /\ ~lines_[i].quoted
             /\ r.nearby = "needed" => NearWord(lines_, i, r.window)
             /\ r.nearby = "absent" => ~NearWord(lines_, i, r.window)
             /\ ~SuppressedBySource(lines_, i, rule)
<1>7. /\ Matching(up, rule) = {i \in DOMAIN up : Counts(up, i)}
      /\ Matching(file, rule) = {i \in DOMAIN file : Counts(file, i)}
  BY DEF Matching, r
<1>8. ASSUME NEW i \in 1 .. n
      PROVE  Counts(up, i + 1) <=> Counts(file, i)
  <2>1. up[i + 1] = file[i]
    BY <1>1
  <2> QED
    BY <1>3, <1>5, <1>6, <2>1
<1>9. ~Counts(up, 1)
  BY <1>1, <1>2
<1> HIDE DEF Counts
<1>10. ASSUME NEW j \in Matching(up, rule)
       PROVE  j \in {i + 1 : i \in Matching(file, rule)}
  <2>1. j \in 1 .. n + 1 /\ Counts(up, j)
    BY <1>1, <1>7
  <2>2. j - 1 \in 1 .. n /\ j - 1 + 1 = j
    BY <1>1, <1>9, <2>1
  <2>3. j - 1 \in Matching(file, rule)
    BY <1>1, <1>7, <1>8, <2>1, <2>2
  <2> QED
    BY <2>2, <2>3
<1>11. ASSUME NEW i \in Matching(file, rule)
       PROVE  i + 1 \in Matching(up, rule)
  <2>1. i \in 1 .. n /\ Counts(file, i) /\ i + 1 \in 1 .. n + 1
    BY <1>1, <1>7
  <2> QED
    BY <1>1, <1>7, <1>8, <2>1
<1> HIDE DEF Counts
<1>12. Matching(up, rule) = {i + 1 : i \in Matching(file, rule)}
  BY <1>10, <1>11
<1> QED
  BY <1>12 DEF up

\* One line lower, the same number of matches come before.
LEMMA OrdinalShift ==
  ASSUME NEW matching \in SUBSET Nat, NEW i \in matching
  PROVE  Cardinality({k \in {m + 1 : m \in matching} : k < i + 1}) =
           Cardinality({k \in matching : k < i})
<1> DEFINE S == {k \in matching : k < i}
           T == {k \in {m + 1 : m \in matching} : k < i + 1}
           down == [k \in S |-> k + 1]
<1>1. IsFiniteSet(S)
  <2>1. i \in Nat
    OBVIOUS
  <2>2. S \in SUBSET Nat
    OBVIOUS
  <2>3. ASSUME NEW k \in S
        PROVE  k <= i
    BY <2>1, <2>2
  <2> HIDE DEF S
  <2> QED
    BY <2>1, <2>2, <2>3, FS_BoundedSetOfNaturals
<1>2. ASSUME NEW k \in S
      PROVE  k + 1 \in T
  OBVIOUS
<1>3. ASSUME NEW t \in T
      PROVE  \E k \in S : t = k + 1
  <2>1. PICK m \in matching : t = m + 1
    OBVIOUS
  <2>2. m < i
    BY <2>1
  <2> QED
    BY <2>1, <2>2
<1>4. S \in SUBSET Nat
  OBVIOUS
<1> HIDE DEF S, T
<1>5. down \in [S -> T]
  BY <1>2
<1>6. \A a, b \in S : down[a] = down[b] => a = b
  BY <1>4
<1>7. \A t \in T : \E k \in S : down[k] = t
  BY <1>3
<1>8. ExistsBijection(S, T)
  BY <1>5, <1>6, <1>7 DEF ExistsBijection, Bijection, Injection, Surjection, IsInjective
<1>9. Cardinality(T) = Cardinality(S)
  BY <1>1, <1>8, FS_Bijection
<1> QED
  BY <1>9 DEF S, T

\* How many matches of a rule come before.
Above(file, rule, i) == Cardinality({k \in Matching(file, rule) : k < i})

LEMMA IdsAre ==
  ASSUME NEW file, NEW x
  PROVE  x \in IdsOf(file) <=>
           \E rule \in RuleIds : \E i \in Matching(file, rule) :
             /\ Above(file, rule, i) < RuleTable[rule].limit
             /\ x = <<rule, file[i].text, Above(file, rule, i)>>
<1>1. x \in IdsOf(file) <=> \E rule \in RuleIds : \E f \in Found(file, rule) : x = f.id
  BY DetectionsAre DEF IdsOf
<1>2. ASSUME NEW rule, NEW i
      PROVE  MakeFinding(rule, i, file[i].text, Ordinal(Matching(file, rule), i)).id =
               <<rule, file[i].text, Above(file, rule, i)>>
  BY DEF MakeFinding, FindingId, Ordinal, Above
<1> QED
  BY <1>1, <1>2 DEF Found, Above

LEMMA IdsShift ==
  ASSUME NEW kind \in LineKinds, Quiet(kind), NEW file \in Seq(LineKinds)
  PROVE  IdsOf(Under(kind, file)) = IdsOf(file)
<1> DEFINE up == Under(kind, file)
<1>1. ASSUME NEW rule \in RuleIds, NEW i \in Matching(file, rule)
      PROVE  /\ i + 1 \in Matching(up, rule)
             /\ Above(up, rule, i + 1) = Above(file, rule, i)
             /\ up[i + 1].text = file[i].text
  <2>1. Matching(up, rule) = {m + 1 : m \in Matching(file, rule)}
    BY MatchingShift
  <2>2. Matching(file, rule) \in SUBSET Nat /\ i \in 1 .. Len(file)
    BY MatchingInFile
  <2> HIDE DEF up
  <2>3. Above(up, rule, i + 1) = Above(file, rule, i)
    BY <2>1, <2>2, OrdinalShift DEF Above
  <2>4. up[i + 1] = file[i]
    BY <2>2, UnderIs DEF up
  <2> QED
    BY <2>1, <2>3, <2>4
<1>2. ASSUME NEW rule \in RuleIds, NEW j \in Matching(up, rule)
      PROVE  \E i \in Matching(file, rule) : j = i + 1
  BY MatchingShift
<1>3. ASSUME NEW x
      PROVE  x \in IdsOf(up) <=> x \in IdsOf(file)
  <2>1. x \in IdsOf(up) <=> \E rule \in RuleIds : \E i \in Matching(up, rule) :
          Above(up, rule, i) < RuleTable[rule].limit
          /\ x = <<rule, up[i].text, Above(up, rule, i)>>
    BY IdsAre
  <2>2. x \in IdsOf(file) <=> \E rule \in RuleIds : \E i \in Matching(file, rule) :
          Above(file, rule, i) < RuleTable[rule].limit
          /\ x = <<rule, file[i].text, Above(file, rule, i)>>
    BY IdsAre
  <2> HIDE DEF up
  <2>3. ASSUME NEW rule \in RuleIds, NEW i \in Matching(file, rule),
               Above(file, rule, i) < RuleTable[rule].limit,
               x = <<rule, file[i].text, Above(file, rule, i)>>
        PROVE  x \in IdsOf(up)
    BY <1>1, <2>1, <2>3
  <2>4. ASSUME NEW rule \in RuleIds, NEW j \in Matching(up, rule),
               Above(up, rule, j) < RuleTable[rule].limit,
               x = <<rule, up[j].text, Above(up, rule, j)>>
        PROVE  x \in IdsOf(file)
    BY <1>1, <1>2, <2>2, <2>4
  <2> QED
    BY <2>1, <2>2, <2>3, <2>4
<1> HIDE DEF up
<1>4. IdsOf(up) = IdsOf(file)
  <2>1. \A x \in IdsOf(up) : x \in IdsOf(file)
    BY <1>3
  <2>2. \A x \in IdsOf(file) : x \in IdsOf(up)
    BY <1>3
  <2>3. IdsOf(up) = {f.id : f \in Detections(up)} /\ IdsOf(file) = {f.id : f \in Detections(file)}
    BY DEF IdsOf
  <2> QED
    BY <2>1, <2>2, <2>3
<1> QED
  BY <1>4 DEF up

\* However long the file and whatever the rules, a quiet line put on top of it
\* changes no identity below (ids.py, Scanner.make_finding).
THEOREM IdentitySurvives == GateSpec => MotionKeepsIdentity
<1>1. GateInit => GateFile
  BY FileInit
<1>2. GateFile /\ [GateNext]_gateVars => GateFile'
  BY FileNext
<1>3. GateFile /\ [GateNext]_gateVars =>
        [\A kind \in LineKinds :
           lines' = <<kind>> \o lines /\ Quiet(kind) => IdsOf(lines') = IdsOf(lines)]_lines
  <2> SUFFICES ASSUME GateFile, NEW kind \in LineKinds, lines' = <<kind>> \o lines, Quiet(kind)
               PROVE  IdsOf(lines') = IdsOf(lines)
    OBVIOUS
  <2>1. lines \in Seq(LineKinds)
    BY DEF GateFile, Files
  <2> QED
    BY <2>1, IdsShift DEF Under
<1> QED
  BY <1>1, <1>2, <1>3, PTL DEF GateSpec, MotionKeepsIdentity

-----------------------------------------------------------------------------
(***************************************************************************)
(* The prefilter.  In whatever way a text matches a pattern, for each atom *)
(* that is matched one of the literals the extractor has of it is there;   *)
(* from the atoms this goes on to what is made of them, since in the table *)
(* a group comes after what is inside of it.                               *)
(***************************************************************************)

\* On 1 .. n, each value is made of those before it.
IsDescent(g, n, step) == \A i \in 1 .. n : g[i] = step[<<i, g>>]

\* Two functions are one up to m; a function has its values in W up to m.
Agree(f, g, m) == \A j \in 1 .. m : f[j] = g[j]
Inside(f, m, W) == \A j \in 1 .. m : f[j] \in W

LEMMA DescentExists ==
  ASSUME NEW n \in Nat, NEW V, NEW any \in V,
         NEW step \in [(1 .. n) \X [1 .. n -> V] -> V],
         \A i \in 1 .. n : \A f, g \in [1 .. n -> V] :
           Agree(f, g, i - 1) => step[<<i, f>>] = step[<<i, g>>]
  PROVE  \E g \in [1 .. n -> V] : IsDescent(g, n, step)
<1> DEFINE Upto(m) == \E g \in [1 .. n -> V] : \A i \in 1 .. m : g[i] = step[<<i, g>>]
           S == {m \in 0 .. n : Upto(m)}
<1>1. 0 \in S
  <2>1. [i \in 1 .. n |-> any] \in [1 .. n -> V] /\ \A i \in 1 .. 0 : FALSE
    OBVIOUS
  <2>2. Upto(0)
    BY <2>1
  <2> QED
    BY <2>2
<1>2. ASSUME NEW m \in 1 .. n, m - 1 \in S
      PROVE  m \in S
  <2>1. PICK g \in [1 .. n -> V] : \A i \in 1 .. m - 1 : g[i] = step[<<i, g>>]
    BY <1>2
  <2> DEFINE h == [g EXCEPT ![m] = step[<<m, g>>]]
  <2>2. h \in [1 .. n -> V] /\ h[m] = step[<<m, g>>]
    OBVIOUS
  <2>3. \A j \in 1 .. n : j # m => h[j] = g[j]
    OBVIOUS
  <2> HIDE DEF h
  <2>4. ASSUME NEW i \in 1 .. m
        PROVE  h[i] = step[<<i, h>>]
    <3>1. i \in 1 .. n
      OBVIOUS
    <3>2. \A j \in 1 .. i - 1 : h[j] = g[j]
      <4>1. \A j \in 1 .. i - 1 : j \in 1 .. n /\ j # m
        OBVIOUS
      <4> QED
        BY <2>3, <4>1
    <3>3. step[<<i, h>>] = step[<<i, g>>]
      <4>1. Agree(h, g, i - 1)
        BY <3>2 DEF Agree
      <4> QED
        BY <2>2, <3>1, <4>1
    <3>4. CASE i = m
      BY <2>2, <3>3, <3>4
    <3>5. CASE i # m
      <4>1. i \in 1 .. m - 1
        BY <3>5
      <4> QED
        BY <2>1, <2>3, <3>1, <3>3, <3>5, <4>1
    <3> QED
      BY <3>4, <3>5
  <2>5. Upto(m)
    BY <2>2, <2>4
  <2>6. m \in 0 .. n
    OBVIOUS
  <2> HIDE DEF Upto
  <2> QED
    BY <2>5, <2>6
<1> HIDE DEF S
<1>3. \A i \in 0 .. n : i \in S
  BY <1>1, <1>2, Induction
<1>4. n \in 0 .. n
  OBVIOUS
<1>5. n \in S
  BY <1>3, <1>4
<1> QED
  BY <1>5 DEF S, IsDescent

\* The most selective of some sets is one of them, or there is none.
LEMMA MostSelectiveIs ==
  ASSUME NEW n \in Nat, NEW W, NEW sets \in [1 .. n -> SUBSET W]
  PROVE  MostSelective(sets) \in {{}} \cup {sets[k] : k \in 1 .. n}
<1> DEFINE V == SUBSET W
           none == {}
           step == [p \in (1 .. n) \X V |-> Better(p[2], sets[p[1]])]
           Folded(g) == [s \in SUBSET DOMAIN sets |->
                           IF s = {} THEN {}
                           ELSE Better(g[s \ {Max(s)}], sets[Max(s)])]
           iter == CHOOSE g : g = Folded(g)
<1>1. DOMAIN sets = 1 .. n /\ none \in V /\ \A i \in 1 .. n : sets[i] \in V
  OBVIOUS
<1>2. step \in [(1 .. n) \X V -> V]
  <2>1. \A b, c \in V : Better(b, c) \in V
    BY DEF Better
  <2> HIDE DEF V
  <2> QED
    BY <1>1, <2>1
<1>3. PICK g \in [SUBSET (1 .. n) -> V] : IsFold(g, n, none, step)
  <2> HIDE DEF step, V, none
  <2> QED
    BY <1>1, <1>2, FoldExists
<1>4. ASSUME NEW s \in SUBSET (1 .. n), s # {}
      PROVE  step[<<Max(s), g[s \ {Max(s)}]>>] = Better(g[s \ {Max(s)}], sets[Max(s)])
  <2>1. Max(s) \in 1 .. n
    <3>1. s \in SUBSET (0 .. n)
      OBVIOUS
    <3> QED
      BY <1>4, <3>1, MaxInside
  <2>2. g[s \ {Max(s)}] \in V
    BY <1>3
  <2> HIDE DEF V
  <2> QED
    BY <2>1, <2>2
<1>5. g = Folded(g)
  <2>1. \A s \in SUBSET (1 .. n) :
          g[s] = IF s = {} THEN {} ELSE Better(g[s \ {Max(s)}], sets[Max(s)])
    <3> HIDE DEF step
    <3> QED
      BY <1>3, <1>4 DEF IsFold
  <2> QED
    BY <1>1, <2>1
<1>6. iter = Folded(iter)
  BY <1>5
<1>7. MostSelective(sets) = iter[DOMAIN sets]
  BY DEF MostSelective, FoldLeft, MapThenFoldSet
<1> HIDE DEF iter, step
<1> DEFINE OneOf == {{}} \cup {sets[k] : k \in 1 .. n}
           S == {i \in 0 .. n : iter[1 .. i] \in OneOf}
<1>8. iter[{}] = {} /\ 1 .. 0 = {}
  BY <1>6
<1>9. 0 \in S
  BY <1>8
<1>10. ASSUME NEW i \in 1 .. n, i - 1 \in S
       PROVE  i \in S
  <2>1. 1 .. i \in SUBSET (1 .. n) /\ 1 .. i # {} /\ (1 .. i) \ {i} = 1 .. i - 1
    OBVIOUS
  <2>2. Max(1 .. i) = i
    <3>1. 1 .. i \in SUBSET Int /\ i \in 1 .. i /\ \A x \in 1 .. i : i >= x
      OBVIOUS
    <3> QED
      BY <3>1, MaxIs
  <2>3. iter[1 .. i] = Better(iter[1 .. i - 1], sets[i])
    BY <1>1, <1>6, <2>1, <2>2
  <2>4. iter[1 .. i] \in {iter[1 .. i - 1], sets[i]}
    BY <2>3 DEF Better
  <2>5. iter[1 .. i - 1] \in OneOf
    BY <1>10
  <2>6. iter[1 .. i] \in OneOf
    BY <2>4, <2>5
  <2>7. i \in 0 .. n
    OBVIOUS
  <2> QED
    BY <2>6, <2>7
<1> HIDE DEF S
<1>11. \A i \in 0 .. n : i \in S
  BY <1>9, <1>10, Induction
<1>12. n \in S
  <2>1. n \in 0 .. n
    OBVIOUS
  <2> QED
    BY <1>11, <2>1
<1> QED
  BY <1>1, <1>7, <1>12 DEF S

-----------------------------------------------------------------------------
LEMMA RunsAreWords ==
  ASSUME NEW a, a.kind = "word" => a.word \in Words
  PROVE  LiteralRuns(a) \in SUBSET Words
BY WordsAssumption DEF LiteralRuns

\* What a table of atoms is, taken apart.
LEMMA PatternShape ==
  ASSUME NEW pattern, IsPattern(pattern)
  PROVE  LET n == Len(pattern.atoms) IN
         /\ n \in Nat /\ DOMAIN pattern.atoms = 1 .. n
         /\ \A b \in pattern.branches : b \in Seq(1 .. n)
         /\ \A i \in 1 .. n :
              LET a == pattern.atoms[i] IN
              /\ a.kind \in {"word", "other", "group"}
              /\ a.kind = "word" => a.word \in Words
              /\ a.kind = "group" => a.quantifier \in Quantifiers
              /\ a.kind = "group" => \A b \in a.branches : b \in Seq(1 .. i - 1)
BY DEF IsPattern

LEMMA BranchIs ==
  ASSUME NEW m \in Nat, NEW b \in Seq(1 .. m)
  PROVE  /\ Len(b) \in Nat /\ DOMAIN b = 1 .. Len(b)
         /\ \A k \in DOMAIN b : b[k] \in 1 .. m
OBVIOUS

\* The sets that are compared for a branch, and what is taken of them.
LEMMA SelectedIs ==
  ASSUME NEW m \in Nat, NEW b \in Seq(1 .. m), NEW sets \in [DOMAIN b -> SUBSET Words]
  PROVE  MostSelective(sets) \in {{}} \cup {sets[k] : k \in DOMAIN b}
<1>1. Len(b) \in Nat /\ DOMAIN b = 1 .. Len(b)
  OBVIOUS
<1> DEFINE n == Len(b)
<1>2. sets \in [1 .. n -> SUBSET Words]
  BY <1>1
<1> HIDE DEF n
<1>3. n \in Nat /\ DOMAIN b = 1 .. n
  BY <1>1 DEF n
<1>4. MostSelective(sets) \in {{}} \cup {sets[k] : k \in 1 .. n}
  BY <1>2, <1>3, MostSelectiveIs
<1> QED
  BY <1>3, <1>4

LEMMA LongestRunType ==
  ASSUME NEW m \in Nat, NEW b \in Seq(1 .. m), NEW atoms,
         \A i \in 1 .. m : atoms[i].kind = "word" => atoms[i].word \in Words
  PROVE  /\ LongestRun(b, atoms) \in SUBSET Words
         /\ LongestRun(b, atoms) \in {{}} \cup {LiteralRuns(atoms[b[k]]) : k \in DOMAIN b}
<1> DEFINE sets == [k \in DOMAIN b |-> LiteralRuns(atoms[b[k]])]
<1>1. \A k \in DOMAIN b : LiteralRuns(atoms[b[k]]) \in SUBSET Words
  BY BranchIs, RunsAreWords
<1>2. sets \in [DOMAIN b -> SUBSET Words]
  BY <1>1
<1>3. \A k \in DOMAIN b : sets[k] = LiteralRuns(atoms[b[k]])
  OBVIOUS
<1>4. MostSelective(sets) = LongestRun(b, atoms)
  BY DEF LongestRun
<1> HIDE DEF sets
<1>5. LongestRun(b, atoms) \in {{}} \cup {sets[k] : k \in DOMAIN b}
  BY <1>2, <1>4, SelectedIs
<1> QED
  BY <1>1, <1>3, <1>5

LEMMA BranchAlternativesType ==
  ASSUME NEW m \in Nat, NEW b \in Seq(1 .. m), NEW f,
         \A i \in 1 .. m : f[i] \in SUBSET Words
  PROVE  /\ BranchAlternatives(b, f) \in SUBSET Words
         /\ BranchAlternatives(b, f) \in {{}} \cup {f[b[k]] : k \in DOMAIN b}
<1> DEFINE sets == [k \in DOMAIN b |-> f[b[k]]]
<1>1. \A k \in DOMAIN b : f[b[k]] \in SUBSET Words
  BY BranchIs
<1>2. sets \in [DOMAIN b -> SUBSET Words]
  BY <1>1
<1>3. \A k \in DOMAIN b : sets[k] = f[b[k]]
  OBVIOUS
<1>4. MostSelective(sets) = BranchAlternatives(b, f)
  BY DEF BranchAlternatives
<1> HIDE DEF sets
<1>5. BranchAlternatives(b, f) \in {{}} \cup {sets[k] : k \in DOMAIN b}
  BY <1>2, <1>4, SelectedIs
<1> QED
  BY <1>1, <1>3, <1>5

\* What a branch of a group has to offer.
Offered(b, atoms, f) ==
  IF LongestRun(b, atoms) # {} THEN LongestRun(b, atoms) ELSE BranchAlternatives(b, f)

LEMMA OfferedType ==
  ASSUME NEW m \in Nat, NEW b \in Seq(1 .. m), NEW atoms, NEW f,
         \A i \in 1 .. m : atoms[i].kind = "word" => atoms[i].word \in Words,
         \A i \in 1 .. m : f[i] \in SUBSET Words
  PROVE  Offered(b, atoms, f) \in SUBSET Words
<1>1. LongestRun(b, atoms) \in SUBSET Words
  BY LongestRunType
<1>2. BranchAlternatives(b, f) \in SUBSET Words
  BY BranchAlternativesType
<1> QED
  BY <1>1, <1>2 DEF Offered

\* A branch looks at its own atoms only.
LEMMA OfferedSame ==
  ASSUME NEW m \in Nat, NEW b \in Seq(1 .. m), NEW atoms, NEW f, NEW g,
         Agree(f, g, m)
  PROVE  Offered(b, atoms, f) = Offered(b, atoms, g)
<1>1. \A k \in DOMAIN b : f[b[k]] = g[b[k]]
  BY BranchIs DEF Agree
<1>2. [k \in DOMAIN b |-> f[b[k]]] = [k \in DOMAIN b |-> g[b[k]]]
  BY <1>1
<1>3. BranchAlternatives(b, f) = BranchAlternatives(b, g)
  BY <1>2 DEF BranchAlternatives
<1> QED
  BY <1>3 DEF Offered

-----------------------------------------------------------------------------
\* One step of LiteralsOf.
Guaranteed(a, atoms, f) ==
  IF a.kind # "group" THEN LiteralRuns(a)
  ELSE IF OptionalGroup(a) THEN {}
  ELSE GroupAlternatives(a, atoms, f)

LEMMA GroupAlternativesIs ==
  ASSUME NEW a, NEW atoms, NEW f
  PROVE  GroupAlternatives(a, atoms, f) =
           Alternatives({Offered(b, atoms, f) : b \in a.branches})
BY DEF GroupAlternatives, Offered

LEMMA GuaranteedType ==
  ASSUME NEW m \in Nat, NEW atoms, NEW a, NEW f,
         a.kind = "word" => a.word \in Words,
         a.kind = "group" => \A b \in a.branches : b \in Seq(1 .. m),
         \A i \in 1 .. m : atoms[i].kind = "word" => atoms[i].word \in Words,
         \A i \in 1 .. m : f[i] \in SUBSET Words
  PROVE  Guaranteed(a, atoms, f) \in SUBSET Words
<1>1. CASE a.kind # "group"
  <2>1. LiteralRuns(a) \in SUBSET Words
    BY RunsAreWords
  <2> QED
    BY <1>1, <2>1 DEF Guaranteed
<1>2. CASE a.kind = "group"
  <2> DEFINE S == {Offered(b, atoms, f) : b \in a.branches}
  <2>1. \A b \in a.branches : Offered(b, atoms, f) \in SUBSET Words
    BY <1>2, OfferedType
  <2>2. \A s \in S : s \in SUBSET Words
    BY <2>1
  <2>3. GroupAlternatives(a, atoms, f) = Alternatives(S)
    BY GroupAlternativesIs
  <2> HIDE DEF S
  <2>4. Alternatives(S) \in SUBSET Words
    BY <2>2 DEF Alternatives
  <2> QED
    BY <1>2, <2>3, <2>4 DEF Guaranteed
<1> QED
  BY <1>1, <1>2

LEMMA GuaranteedSame ==
  ASSUME NEW m \in Nat, NEW atoms, NEW a, NEW f, NEW g,
         a.kind = "group" => \A b \in a.branches : b \in Seq(1 .. m),
         Agree(f, g, m)
  PROVE  Guaranteed(a, atoms, f) = Guaranteed(a, atoms, g)
<1>1. CASE a.kind # "group"
  BY <1>1 DEF Guaranteed
<1>2. CASE a.kind = "group"
  <2>1. \A b \in a.branches : Offered(b, atoms, f) = Offered(b, atoms, g)
    BY <1>2, OfferedSame
  <2>2. {Offered(b, atoms, f) : b \in a.branches} = {Offered(b, atoms, g) : b \in a.branches}
    BY <2>1
  <2>3. GroupAlternatives(a, atoms, f) = GroupAlternatives(a, atoms, g)
    BY <2>2, GroupAlternativesIs
  <2> QED
    BY <2>3 DEF Guaranteed
<1> QED
  BY <1>1, <1>2

\* The equation of LiteralsOf has a solution, so its equation is one.
LEMMA LiteralsOfIs ==
  ASSUME NEW pattern, IsPattern(pattern)
  PROVE  LET atoms == pattern.atoms IN
         \A i \in 1 .. Len(atoms) :
           LiteralsOf(atoms)[i] = Guaranteed(atoms[i], atoms, LiteralsOf(atoms))
<1> DEFINE atoms == pattern.atoms
           n == Len(pattern.atoms)
           V == SUBSET Words
           none == {}
           Sum(f) == [i \in DOMAIN atoms |-> Guaranteed(atoms[i], atoms, f)]
           step == [p \in (1 .. n) \X [1 .. n -> V] |-> Guaranteed(atoms[p[1]], atoms, p[2])]
           solved == CHOOSE f : f = Sum(f)
<1>1. /\ n \in Nat /\ DOMAIN atoms = 1 .. n
      /\ \A i \in 1 .. n : atoms[i].kind = "word" => atoms[i].word \in Words
      /\ \A i \in 1 .. n : atoms[i].kind = "group" =>
           \A b \in atoms[i].branches : b \in Seq(1 .. i - 1)
  BY PatternShape
<1> HIDE DEF n, atoms
<1>2. ASSUME NEW i \in 1 .. n, NEW f \in [1 .. n -> V]
      PROVE  Guaranteed(atoms[i], atoms, f) \in V
  <2>1. i - 1 \in Nat /\ \A j \in 1 .. i - 1 : j \in 1 .. n
    BY <1>1
  <2>2. /\ \A j \in 1 .. i - 1 : atoms[j].kind = "word" => atoms[j].word \in Words
        /\ \A j \in 1 .. i - 1 : f[j] \in SUBSET Words
    BY <1>1, <2>1
  <2>3. /\ atoms[i].kind = "word" => atoms[i].word \in Words
        /\ atoms[i].kind = "group" => \A b \in atoms[i].branches : b \in Seq(1 .. i - 1)
    BY <1>1
  <2> DEFINE m == i - 1
             a == atoms[i]
  <2> HIDE DEF m, a, V
  <2>4. /\ m \in Nat
        /\ \A j \in 1 .. m : atoms[j].kind = "word" => atoms[j].word \in Words
        /\ \A j \in 1 .. m : f[j] \in SUBSET Words
        /\ a.kind = "word" => a.word \in Words
        /\ a.kind = "group" => \A b \in a.branches : b \in Seq(1 .. m)
    BY <2>1, <2>2, <2>3 DEF m, a
  <2>5. Guaranteed(a, atoms, f) \in SUBSET Words
    BY <2>4, GuaranteedType
  <2> QED
    BY <2>5 DEF a, V
<1>3. step \in [(1 .. n) \X [1 .. n -> V] -> V]
  <2> HIDE DEF V
  <2> QED
    BY <1>2
<1>4. ASSUME NEW i \in 1 .. n, NEW f \in [1 .. n -> V], NEW g \in [1 .. n -> V],
             Agree(f, g, i - 1)
      PROVE  step[<<i, f>>] = step[<<i, g>>]
  <2> HIDE DEF V
  <2>1. i - 1 \in Nat
    OBVIOUS
  <2>2. atoms[i].kind = "group" => \A b \in atoms[i].branches : b \in Seq(1 .. i - 1)
    BY <1>1
  <2>3. Guaranteed(atoms[i], atoms, f) = Guaranteed(atoms[i], atoms, g)
    <3> DEFINE m == i - 1
               a == atoms[i]
    <3> HIDE DEF m, a
    <3>1. /\ m \in Nat /\ Agree(f, g, m)
          /\ a.kind = "group" => \A b \in a.branches : b \in Seq(1 .. m)
      BY <1>4, <2>1, <2>2 DEF m, a
    <3>2. Guaranteed(a, atoms, f) = Guaranteed(a, atoms, g)
      BY <3>1, GuaranteedSame
    <3> QED
      BY <3>2 DEF a
  <2> QED
    BY <2>3
<1>5. PICK g \in [1 .. n -> V] : IsDescent(g, n, step)
  <2>1. none \in V
    OBVIOUS
  <2> HIDE DEF step, V, none
  <2> QED
    BY <1>1, <1>3, <1>4, <2>1, DescentExists
<1>6. g = Sum(g)
  <2>1. \A i \in 1 .. n : g[i] = Guaranteed(atoms[i], atoms, g)
    <3> HIDE DEF V
    <3>1. \A i \in 1 .. n : step[<<i, g>>] = Guaranteed(atoms[i], atoms, g)
      OBVIOUS
    <3> HIDE DEF step
    <3> QED
      BY <1>5, <3>1 DEF IsDescent
  <2> QED
    BY <1>1, <2>1
<1>7. solved = Sum(solved)
  BY <1>6
<1>8. LiteralsOf(atoms) = solved
  BY DEF LiteralsOf, Guaranteed
<1> HIDE DEF solved
<1>9. \A i \in 1 .. n : LiteralsOf(atoms)[i] = Guaranteed(atoms[i], atoms, LiteralsOf(atoms))
  BY <1>1, <1>7, <1>8
<1> QED
  BY <1>9 DEF n, atoms

\* What each atom guarantees are words.
LEMMA LiteralsAreWords ==
  ASSUME NEW pattern, IsPattern(pattern)
  PROVE  \A i \in 1 .. Len(pattern.atoms) : LiteralsOf(pattern.atoms)[i] \in SUBSET Words
<1> DEFINE atoms == pattern.atoms
           n == Len(pattern.atoms)
           f == LiteralsOf(pattern.atoms)
           S == {i \in 1 .. n : f[i] \in SUBSET Words}
<1>1. /\ n \in Nat
      /\ \A i \in 1 .. n : atoms[i].kind = "word" => atoms[i].word \in Words
      /\ \A i \in 1 .. n : atoms[i].kind = "group" =>
           \A b \in atoms[i].branches : b \in Seq(1 .. i - 1)
  BY PatternShape
<1>2. \A i \in 1 .. n : f[i] = Guaranteed(atoms[i], atoms, f)
  BY LiteralsOfIs
<1> HIDE DEF n, atoms, f
<1>3. ASSUME NEW i \in 1 .. n, \A j \in 1 .. i - 1 : j \in S
      PROVE  i \in S
  <2> DEFINE m == i - 1
             a == atoms[i]
  <2>1. m \in Nat /\ \A j \in 1 .. m : j \in 1 .. n
    BY <1>1
  <2>2. /\ \A j \in 1 .. m : atoms[j].kind = "word" => atoms[j].word \in Words
        /\ a.kind = "word" => a.word \in Words
        /\ a.kind = "group" => \A b \in a.branches : b \in Seq(1 .. m)
    BY <1>1, <2>1
  <2>3. \A j \in 1 .. m : f[j] \in SUBSET Words
    BY <1>3
  <2> HIDE DEF m, a
  <2>4. Guaranteed(a, atoms, f) \in SUBSET Words
    BY <2>1, <2>2, <2>3, GuaranteedType
  <2> QED
    BY <1>2, <2>4 DEF a
<1> HIDE DEF S
<1>4. \A i \in 1 .. n : i \in S
  BY <1>1, <1>3, StrongInduction
<1> QED
  BY <1>4 DEF S, n, f

-----------------------------------------------------------------------------
\* One step of MatchesOf.
Matched(a, f) == IF a.kind # "group" THEN PlainMatched(a) ELSE GroupMatched(a, f)

WordSets == SUBSET SUBSET Words
Whole(way, b) == UNION {way[k] : k \in DOMAIN b}

LEMMA MatchedByIs ==
  ASSUME NEW branches, NEW ofAtom, NEW words
  PROVE  words \in MatchedBy(branches, ofAtom) <=>
           \E b \in branches : \E way \in Ways(b, ofAtom) : words = Whole(way, b)
BY DEF MatchedBy, Whole

LEMMA WaysSame ==
  ASSUME NEW m \in Nat, NEW b \in Seq(1 .. m), NEW f, NEW g, Agree(f, g, m)
  PROVE  Ways(b, f) = Ways(b, g)
<1>1. \A k \in DOMAIN b : f[b[k]] = g[b[k]]
  BY BranchIs DEF Agree
<1>2. UNION {f[b[k]] : k \in DOMAIN b} = UNION {g[b[k]] : k \in DOMAIN b}
  BY <1>1
<1> QED
  BY <1>1, <1>2 DEF Ways

LEMMA MatchedBySame ==
  ASSUME NEW branches, NEW f, NEW g, \A b \in branches : Ways(b, f) = Ways(b, g)
  PROVE  MatchedBy(branches, f) = MatchedBy(branches, g)
<1> DEFINE Met(b, h) == {UNION {way[k] : k \in DOMAIN b} : way \in Ways(b, h)}
<1>1. \A b \in branches : Met(b, f) = Met(b, g)
  OBVIOUS
<1>2. /\ MatchedBy(branches, f) = UNION {Met(b, f) : b \in branches}
      /\ MatchedBy(branches, g) = UNION {Met(b, g) : b \in branches}
  BY DEF MatchedBy
<1> HIDE DEF Met
<1>3. {Met(b, f) : b \in branches} = {Met(b, g) : b \in branches}
  BY <1>1
<1> QED
  BY <1>2, <1>3

LEMMA MatchedSame ==
  ASSUME NEW m \in Nat, NEW a, NEW f, NEW g,
         a.kind = "group" => \A b \in a.branches : b \in Seq(1 .. m),
         Agree(f, g, m)
  PROVE  Matched(a, f) = Matched(a, g)
<1>1. CASE a.kind = "group"
  <2>1. \A b \in a.branches : Ways(b, f) = Ways(b, g)
    BY <1>1, WaysSame
  <2>2. MatchedBy(a.branches, f) = MatchedBy(a.branches, g)
    BY <2>1, MatchedBySame
  <2>3. GroupMatched(a, f) = GroupMatched(a, g)
    BY <2>2 DEF GroupMatched
  <2> QED
    BY <1>1, <2>3 DEF Matched
<1>2. CASE a.kind # "group"
  BY <1>2 DEF Matched
<1> QED
  BY <1>1, <1>2

LEMMA MatchedType ==
  ASSUME NEW m \in Nat, NEW a, NEW f,
         a.kind \in {"word", "other", "group"},
         a.kind = "word" => a.word \in Words,
         a.kind = "group" => \A b \in a.branches : b \in Seq(1 .. m),
         Inside(f, m, WordSets)
  PROVE  Matched(a, f) \in WordSets
<1>1. CASE a.kind = "other"
  <2>1. Matched(a, f) = {{}}
    BY <1>1 DEF Matched, PlainMatched
  <2> QED
    BY <2>1 DEF WordSets
<1>2. CASE a.kind = "word"
  <2>1. Matched(a, f) = PlainMatched(a)
    BY <1>2 DEF Matched
  <2>2. a.word \in Words /\ Cut(a.word) \in Words
    BY <1>2, WordsAssumption
  <2>3. PlainMatched(a) \in SUBSET SUBSET Words
    BY <1>2, <2>2 DEF PlainMatched
  <2> QED
    BY <2>1, <2>3 DEF WordSets
<1>3. CASE a.kind = "group"
  <2>1. ASSUME NEW b \in a.branches, NEW way \in Ways(b, f)
        PROVE  Whole(way, b) \in SUBSET Words
    <3>1. \A k \in DOMAIN b : b[k] \in 1 .. m
      BY <1>3, BranchIs
    <3>2. \A k \in DOMAIN b : way[k] \in f[b[k]]
      BY DEF Ways
    <3>3. \A k \in DOMAIN b : way[k] \in SUBSET Words
      BY <3>1, <3>2 DEF Inside, WordSets
    <3> QED
      BY <3>3 DEF Whole
  <2>2. MatchedBy(a.branches, f) \in SUBSET SUBSET Words
    BY <2>1, MatchedByIs
  <2>3. GroupMatched(a, f) \in SUBSET SUBSET Words
    BY <2>2 DEF GroupMatched
  <2>4. Matched(a, f) = GroupMatched(a, f)
    BY <1>3 DEF Matched
  <2> QED
    BY <2>3, <2>4 DEF WordSets
<1> QED
  BY <1>1, <1>2, <1>3

\* And so has that of MatchesOf.
LEMMA MatchesOfIs ==
  ASSUME NEW pattern, IsPattern(pattern)
  PROVE  LET atoms == pattern.atoms IN
         \A i \in 1 .. Len(atoms) :
           MatchesOf(atoms)[i] = Matched(atoms[i], MatchesOf(atoms))
<1> DEFINE atoms == pattern.atoms
           n == Len(pattern.atoms)
           V == WordSets
           none == {}
           Sum(f) == [i \in DOMAIN atoms |-> Matched(atoms[i], f)]
           step == [p \in (1 .. n) \X [1 .. n -> V] |-> Matched(atoms[p[1]], p[2])]
           solved == CHOOSE f : f = Sum(f)
<1>1. /\ n \in Nat /\ DOMAIN atoms = 1 .. n
      /\ \A i \in 1 .. n : atoms[i].kind \in {"word", "other", "group"}
      /\ \A i \in 1 .. n : atoms[i].kind = "word" => atoms[i].word \in Words
      /\ \A i \in 1 .. n : atoms[i].kind = "group" =>
           \A b \in atoms[i].branches : b \in Seq(1 .. i - 1)
  BY PatternShape
<1> HIDE DEF n, atoms
<1>2. ASSUME NEW i \in 1 .. n, NEW f \in [1 .. n -> V]
      PROVE  Matched(atoms[i], f) \in V
  <2> DEFINE m == i - 1
             a == atoms[i]
  <2>1. m \in Nat /\ \A j \in 1 .. m : j \in 1 .. n
    BY <1>1
  <2>2. /\ a.kind \in {"word", "other", "group"}
        /\ a.kind = "word" => a.word \in Words
        /\ a.kind = "group" => \A b \in a.branches : b \in Seq(1 .. m)
    BY <1>1
  <2>3. Inside(f, m, V)
    BY <2>1 DEF Inside
  <2> HIDE DEF m, a
  <2>4. Matched(a, f) \in V
    BY <2>1, <2>2, <2>3, MatchedType
  <2> QED
    BY <2>4 DEF a
<1>3. step \in [(1 .. n) \X [1 .. n -> V] -> V]
  <2> HIDE DEF V
  <2> QED
    BY <1>2
<1>4. ASSUME NEW i \in 1 .. n, NEW f \in [1 .. n -> V], NEW g \in [1 .. n -> V],
             Agree(f, g, i - 1)
      PROVE  step[<<i, f>>] = step[<<i, g>>]
  <2> HIDE DEF V
  <2> DEFINE m == i - 1
             a == atoms[i]
  <2>1. m \in Nat /\ a.kind = "group" => \A b \in a.branches : b \in Seq(1 .. m)
    BY <1>1
  <2>2. m \in Nat /\ Agree(f, g, m)
    BY <1>4
  <2> HIDE DEF m, a
  <2>3. Matched(a, f) = Matched(a, g)
    BY <2>1, <2>2, MatchedSame
  <2> QED
    BY <2>3 DEF a
<1>5. PICK g \in [1 .. n -> V] : IsDescent(g, n, step)
  <2>1. none \in V
    BY DEF WordSets
  <2> HIDE DEF step, V, none
  <2> QED
    BY <1>1, <1>3, <1>4, <2>1, DescentExists
<1>6. g = Sum(g)
  <2>1. \A i \in 1 .. n : g[i] = Matched(atoms[i], g)
    <3> HIDE DEF V
    <3>1. \A i \in 1 .. n : step[<<i, g>>] = Matched(atoms[i], g)
      OBVIOUS
    <3> HIDE DEF step
    <3> QED
      BY <1>5, <3>1 DEF IsDescent
  <2> QED
    BY <1>1, <2>1
<1>7. solved = Sum(solved)
  BY <1>6
<1>8. MatchesOf(atoms) = solved
  BY DEF MatchesOf, Matched
<1> HIDE DEF solved
<1>9. \A i \in 1 .. n : MatchesOf(atoms)[i] = Matched(atoms[i], MatchesOf(atoms))
  BY <1>1, <1>7, <1>8
<1> QED
  BY <1>9 DEF n, atoms

-----------------------------------------------------------------------------
\* Some literals are met by the words of a match, if there are any.
Meets(literals, words) == literals = {} \/ literals \cap words # {}

LEMMA AlternativesMeet ==
  ASSUME NEW S, NEW one \in S, NEW words, Meets(one, words)
  PROVE  Meets(Alternatives(S), words)
BY DEF Meets, Alternatives

\* Whatever way a word matches, its run is there.
LEMMA RunsMeet ==
  ASSUME NEW a, NEW words \in PlainMatched(a)
  PROVE  Meets(LiteralRuns(a), words)
<1>1. CASE a.kind # "word"
  BY <1>1 DEF LiteralRuns, Meets
<1>2. CASE a.kind = "word"
  <2>1. Cut(a.word) \in words /\ (~MayVanish(a.quantifier) => a.word \in words)
    BY <1>2 DEF PlainMatched
  <2>2. LiteralRuns(a) \in {{}, {IF MayVanish(a.quantifier) THEN Cut(a.word) ELSE a.word}}
    BY <1>2 DEF LiteralRuns
  <2> QED
    BY <2>1, <2>2 DEF Meets
<1> QED
  BY <1>1, <1>2

\* A branch, and what is in a group, of atoms that meet what they match.
LEMMA OfferMeets ==
  ASSUME NEW m \in Nat, NEW b \in Seq(1 .. m), NEW atoms, NEW f, NEW g,
         \A i \in 1 .. m : atoms[i].kind = "word" => atoms[i].word \in Words,
         \A i \in 1 .. m : f[i] \in SUBSET Words,
         \A i \in 1 .. m : LiteralRuns(atoms[i]) \in {{}, f[i]},
         \A i \in 1 .. m : \A words \in g[i] : Meets(f[i], words),
         NEW way \in Ways(b, g)
  PROVE  /\ Meets(BranchAlternatives(b, f), Whole(way, b))
         /\ Meets(Offered(b, atoms, f), Whole(way, b))
<1> DEFINE words == Whole(way, b)
           D == DOMAIN b
           of == [k \in DOMAIN b |-> f[b[k]]]
<1>1. \A k \in DOMAIN b : b[k] \in 1 .. m /\ way[k] \in g[b[k]]
  BY BranchIs DEF Ways
<1>2. \A k \in DOMAIN b : Meets(f[b[k]], way[k])
  BY <1>1
<1>3. \A k \in DOMAIN b : of[k] = f[b[k]]
  OBVIOUS
<1> HIDE DEF of
<1>4. \A k \in D : Meets(of[k], words)
  <2>1. \A k \in D : way[k] \subseteq words
    BY DEF Whole
  <2> HIDE DEF words
  <2> QED
    BY <1>2, <1>3, <2>1 DEF Meets
<1>5. BranchAlternatives(b, f) = {} \/ \E k \in D : BranchAlternatives(b, f) = of[k]
  <2>1. BranchAlternatives(b, f) \in {{}} \cup {f[b[k]] : k \in DOMAIN b}
    BY BranchAlternativesType
  <2> QED
    BY <1>3, <2>1
<1>6. LongestRun(b, atoms) = {} \/ \E k \in D : LongestRun(b, atoms) = of[k]
  <2>1. LongestRun(b, atoms) \in {{}} \cup {LiteralRuns(atoms[b[k]]) : k \in DOMAIN b}
    BY LongestRunType
  <2>2. \A k \in DOMAIN b : LiteralRuns(atoms[b[k]]) \in {{}, of[k]}
    BY <1>1, <1>3
  <2> QED
    BY <2>1, <2>2
<1> DEFINE taken == BranchAlternatives(b, f)
           run == LongestRun(b, atoms)
<1> HIDE DEF D, words, taken, run
<1>7. Meets(taken, words)
  BY <1>4, <1>5 DEF taken, Meets
<1>8. Meets(run, words)
  BY <1>4, <1>6 DEF run, Meets
<1> QED
  BY <1>7, <1>8 DEF Offered, words, taken, run

TakenOf(branches, f) == {BranchAlternatives(b, f) : b \in branches}
OfferedBy(branches, atoms, f) == {Offered(b, atoms, f) : b \in branches}

LEMMA BranchesMeet ==
  ASSUME NEW m \in Nat, NEW branches, NEW atoms, NEW f, NEW g,
         \A b \in branches : b \in Seq(1 .. m),
         \A i \in 1 .. m : atoms[i].kind = "word" => atoms[i].word \in Words,
         \A i \in 1 .. m : f[i] \in SUBSET Words,
         \A i \in 1 .. m : LiteralRuns(atoms[i]) \in {{}, f[i]},
         \A i \in 1 .. m : \A words \in g[i] : Meets(f[i], words),
         NEW seen \in MatchedBy(branches, g)
  PROVE  /\ Meets(Alternatives(TakenOf(branches, f)), seen)
         /\ Meets(Alternatives(OfferedBy(branches, atoms, f)), seen)
<1>1. PICK b \in branches : \E way \in Ways(b, g) : seen = Whole(way, b)
  BY MatchedByIs
<1>2. PICK way \in Ways(b, g) : seen = Whole(way, b)
  BY <1>1
<1>3. b \in Seq(1 .. m)
  OBVIOUS
<1>4. /\ Meets(BranchAlternatives(b, f), seen)
      /\ Meets(Offered(b, atoms, f), seen)
  BY <1>2, <1>3, OfferMeets
<1>5. /\ BranchAlternatives(b, f) \in TakenOf(branches, f)
      /\ Offered(b, atoms, f) \in OfferedBy(branches, atoms, f)
  BY DEF TakenOf, OfferedBy
<1> QED
  BY <1>4, <1>5, AlternativesMeet

\* A negative lookahead that is understood offers nothing.
LEMMA LookaheadOffersNone ==
  ASSUME NEW m \in Nat, NEW a, NEW atoms, NEW f,
         \A b \in a.branches : b \in Seq(1 .. m),
         \A i \in 1 .. m : atoms[i].kind = "word" => atoms[i].word \in Words,
         \A i \in 1 .. m : f[i] \in SUBSET Words,
         \A b \in a.branches : \A k \in DOMAIN b :
           LiteralRuns(atoms[b[k]]) = {} /\ f[b[k]] = {}
  PROVE  GroupAlternatives(a, atoms, f) = {}
<1>1. ASSUME NEW b \in a.branches
      PROVE  Offered(b, atoms, f) = {}
  <2>1. LongestRun(b, atoms) = {}
    <3>1. LongestRun(b, atoms) \in {{}} \cup {LiteralRuns(atoms[b[k]]) : k \in DOMAIN b}
      BY LongestRunType
    <3> QED
      BY <3>1
  <2>2. BranchAlternatives(b, f) = {}
    <3>1. BranchAlternatives(b, f) \in {{}} \cup {f[b[k]] : k \in DOMAIN b}
      BY BranchAlternativesType
    <3> QED
      BY <3>1
  <2> QED
    BY <2>1, <2>2 DEF Offered
<1> DEFINE S == {Offered(b, atoms, f) : b \in a.branches}
<1>2. \A s \in S : s = {}
  BY <1>1
<1>3. GroupAlternatives(a, atoms, f) = Alternatives(S)
  BY GroupAlternativesIs
<1> HIDE DEF S
<1> QED
  BY <1>2, <1>3 DEF Alternatives

\* The step: of an atom, from those before it.
LEMMA AtomMeets ==
  ASSUME NEW m \in Nat, NEW a, NEW atoms, NEW f, NEW g,
         a.kind = "group" => \A b \in a.branches : b \in Seq(1 .. m),
         a.kind = "group" => a.quantifier \in Quantifiers /\ a.quantifier # "{0,2}",
         a.kind = "group" /\ a.look = "(?!" => GroupAlternatives(a, atoms, f) = {},
         \A i \in 1 .. m : atoms[i].kind = "word" => atoms[i].word \in Words,
         \A i \in 1 .. m : f[i] \in SUBSET Words,
         \A i \in 1 .. m : LiteralRuns(atoms[i]) \in {{}, f[i]},
         \A i \in 1 .. m : \A words \in g[i] : Meets(f[i], words),
         NEW seen \in Matched(a, g)
  PROVE  Meets(Guaranteed(a, atoms, f), seen)
<1>1. CASE a.kind # "group"
  <2>1. seen \in PlainMatched(a) /\ Guaranteed(a, atoms, f) = LiteralRuns(a)
    BY <1>1 DEF Matched, Guaranteed
  <2> QED
    BY <2>1, RunsMeet
<1>2. CASE a.kind = "group" /\ (OptionalGroup(a) \/ a.look = "(?!")
  <2>1. Guaranteed(a, atoms, f) = {}
    BY <1>2 DEF Guaranteed
  <2> QED
    BY <2>1 DEF Meets
<1>3. CASE a.kind = "group" /\ ~OptionalGroup(a) /\ a.look # "(?!"
  <2>1. ~MayVanish(a.quantifier)
    BY <1>3 DEF MayVanish, OptionalGroup
  <2>2. seen \in MatchedBy(a.branches, g)
    BY <1>3, <2>1 DEF Matched, GroupMatched
  <2>3. \A b \in a.branches : b \in Seq(1 .. m)
    BY <1>3
  <2> DEFINE branches == a.branches
  <2>4. GroupAlternatives(a, atoms, f) =
          Alternatives(OfferedBy(branches, atoms, f))
    BY GroupAlternativesIs DEF OfferedBy
  <2>5. seen \in MatchedBy(branches, g) /\ \A b \in branches : b \in Seq(1 .. m)
    BY <2>2, <2>3
  <2> HIDE DEF branches
  <2>6. Meets(Alternatives(OfferedBy(branches, atoms, f)), seen)
    BY <2>5, BranchesMeet
  <2>7. Meets(GroupAlternatives(a, atoms, f), seen)
    BY <2>4, <2>6
  <2> QED
    BY <1>3, <2>7 DEF Guaranteed
<1> QED
  BY <1>1, <1>2, <1>3

-----------------------------------------------------------------------------
\* In whatever way an atom matches, one of the literals it guarantees is there.
LEMMA AtomsMeet ==
  ASSUME NEW pattern, IsPattern(pattern), Understood(pattern)
  PROVE  \A i \in 1 .. Len(pattern.atoms) : \A seen \in MatchesOf(pattern.atoms)[i] :
           Meets(LiteralsOf(pattern.atoms)[i], seen)
<1> DEFINE atoms == pattern.atoms
           n == Len(pattern.atoms)
           f == LiteralsOf(pattern.atoms)
           g == MatchesOf(pattern.atoms)
           S == {i \in 1 .. n : \A seen \in g[i] : Meets(f[i], seen)}
<1>1. /\ n \in Nat
      /\ \A i \in 1 .. n : atoms[i].kind = "word" => atoms[i].word \in Words
      /\ \A i \in 1 .. n : atoms[i].kind = "group" => atoms[i].quantifier \in Quantifiers
      /\ \A i \in 1 .. n : atoms[i].kind = "group" =>
           \A b \in atoms[i].branches : b \in Seq(1 .. i - 1)
  BY PatternShape
<1>2. \A i \in 1 .. n : f[i] = Guaranteed(atoms[i], atoms, f) /\ f[i] \in SUBSET Words
  BY LiteralsOfIs, LiteralsAreWords
<1>3. \A i \in 1 .. n : g[i] = Matched(atoms[i], g)
  BY MatchesOfIs
<1>4. \A i \in 1 .. n : atoms[i].kind = "group" =>
        /\ atoms[i].quantifier # "{0,2}"
        /\ atoms[i].look = "(?!" =>
             \A b \in atoms[i].branches : \A k \in DOMAIN b :
               atoms[b[k]].kind # "group" /\ LiteralRuns(atoms[b[k]]) = {}
  BY DEF Understood
<1> HIDE DEF n, atoms, f, g
<1>5. \A i \in 1 .. n : LiteralRuns(atoms[i]) \in {{}, f[i]}
  BY <1>2 DEF Guaranteed, LiteralRuns
<1>6. ASSUME NEW i \in 1 .. n, \A j \in 1 .. i - 1 : j \in S
      PROVE  i \in S
  <2> DEFINE m == i - 1
             a == atoms[i]
  <2>1. m \in Nat /\ \A j \in 1 .. m : j \in 1 .. n
    BY <1>1
  <2>2. a.kind = "group" => \A b \in a.branches : b \in Seq(1 .. m)
    BY <1>1
  <2>3. a.kind = "group" => a.quantifier \in Quantifiers /\ a.quantifier # "{0,2}"
    BY <1>1, <1>4
  <2>4. \A j \in 1 .. m : \A words \in g[j] : Meets(f[j], words)
    BY <1>6
  <2> HIDE DEF m
  <2>5. /\ \A j \in 1 .. m : atoms[j].kind = "word" => atoms[j].word \in Words
        /\ \A j \in 1 .. m : f[j] \in SUBSET Words
        /\ \A j \in 1 .. m : LiteralRuns(atoms[j]) \in {{}, f[j]}
    BY <1>1, <1>2, <1>5, <2>1
  <2>6. ASSUME a.kind = "group", a.look = "(?!"
        PROVE  GroupAlternatives(a, atoms, f) = {}
    <3>1. ASSUME NEW b \in a.branches, NEW k \in DOMAIN b
          PROVE  LiteralRuns(atoms[b[k]]) = {} /\ f[b[k]] = {}
      <4>1. atoms[b[k]].kind # "group" /\ LiteralRuns(atoms[b[k]]) = {}
        BY <1>4, <2>6
      <4>2. b[k] \in 1 .. n
        BY <2>1, <2>2, <2>6, BranchIs
      <4> QED
        BY <1>2, <4>1, <4>2 DEF Guaranteed
    <3> HIDE DEF a
    <3> QED
      BY <2>1, <2>2, <2>5, <2>6, <3>1, LookaheadOffersNone
  <2> HIDE DEF a
  <2>7. ASSUME NEW seen \in Matched(a, g)
        PROVE  Meets(Guaranteed(a, atoms, f), seen)
    BY <2>1, <2>2, <2>3, <2>4, <2>5, <2>6, AtomMeets
  <2> QED
    BY <1>2, <1>3, <2>7 DEF a
<1> HIDE DEF S
<1>7. \A i \in 1 .. n : i \in S
  BY <1>1, <1>6, StrongInduction
<1> QED
  BY <1>7 DEF S, n, f, g

\* The prefilter drops no match: whatever way a pattern matches, whatever its
\* words and however deep its groups, the file passes ("must never change what a
\* scan finds").
THEOREM MatchesPass ==
  ASSUME NEW pattern, IsPattern(pattern), Understood(pattern)
  PROVE  Neutral(pattern)
<1> DEFINE atoms == pattern.atoms
           n == Len(pattern.atoms)
           f == LiteralsOf(pattern.atoms)
           g == MatchesOf(pattern.atoms)
           branches == pattern.branches
<1>1. /\ n \in Nat
      /\ \A b \in branches : b \in Seq(1 .. n)
      /\ \A i \in 1 .. n : atoms[i].kind = "word" => atoms[i].word \in Words
  BY PatternShape
<1>2. \A i \in 1 .. n : f[i] = Guaranteed(atoms[i], atoms, f) /\ f[i] \in SUBSET Words
  BY LiteralsOfIs, LiteralsAreWords
<1>3. \A i \in 1 .. n : \A seen \in g[i] : Meets(f[i], seen)
  BY AtomsMeet
<1>4. RequiredLiterals(pattern) = Alternatives(TakenOf(branches, f))
  BY DEF RequiredLiterals, TakenOf
<1>5. Neutral(pattern) <=> \A seen \in MatchedBy(branches, g) : PrefilterMatches(pattern, seen)
  BY DEF Neutral
<1> HIDE DEF n, atoms, f, g, branches
<1>6. \A i \in 1 .. n : LiteralRuns(atoms[i]) \in {{}, f[i]}
  BY <1>2 DEF Guaranteed, LiteralRuns
<1>7. ASSUME NEW seen \in MatchedBy(branches, g)
      PROVE  PrefilterMatches(pattern, seen)
  <2>1. Meets(Alternatives(TakenOf(branches, f)), seen)
    BY <1>1, <1>2, <1>3, <1>6, BranchesMeet
  <2>2. Meets(RequiredLiterals(pattern), seen)
    BY <1>4, <2>1
  <2> QED
    BY <2>2 DEF PrefilterMatches, Meets
<1> QED
  BY <1>5, <1>7

\* The scanner never leaves a candidate out of a file in which it matches.
THEOREM PrefilterStaysNeutral == PrefilterSpec => []PrefilterIsNeutral
<1> DEFINE Inv == candidate \in 0 .. Len(Candidates)
<1>1. PrefilterInit => Inv
  BY CandidatesAssumption DEF PrefilterInit
<1>2. Inv /\ [NextCandidate]_candidate => Inv'
  BY CandidatesAssumption DEF NextCandidate
<1>3. Inv => PrefilterIsNeutral
  <2> SUFFICES ASSUME Inv, candidate > 0
               PROVE  Neutral(Candidates[candidate])
    BY DEF PrefilterIsNeutral
  <2>1. candidate \in 1 .. Len(Candidates)
    BY CandidatesAssumption
  <2>2. IsPattern(Candidates[candidate]) /\ Understood(Candidates[candidate])
    BY <2>1, CandidatesAssumption
  <2> QED
    BY <2>2, MatchesPass
<1> QED
  BY <1>1, <1>2, <1>3, PTL DEF PrefilterSpec

-----------------------------------------------------------------------------
(***************************************************************************)
(* The taint trackers, for files of any length.  In a file whose copied    *)
(* names are written once the first pass already finds out what is         *)
(* dangerous about those names; the passes after it change nothing of      *)
(* that, and the last write to a name carries it to the sink.              *)
(***************************************************************************)

Assignments == [var : Names, op : {"="} \cup Lang.appends \cup Lang.misread,
                value : Values]
KnownStates == [tainted : SUBSET Names, cleaned : [Names -> SUBSET Escapes]]
NameStates == [tainted : BOOLEAN, cleaned : SUBSET Escapes]

\* A value is a constant, a source or one name, with escapers around it.
LEMMA ValueShape ==
  ASSUME NEW value \in Values
  PROVE  /\ value.source \in BOOLEAN /\ value.number \in BOOLEAN
         /\ value.escapes \subseteq Escapes /\ value.refs \subseteq Names
         /\ value.source => value.refs = {}
         /\ value.refs = {} \/ \E v \in Names : value.refs = {v}
<1>1. \/ value = Plain \/ value = Fragment(TRUE, {}, {}, TRUE)
      \/ \E e \in SUBSET Escapes : value = Fragment(TRUE, {}, e, FALSE)
      \/ \E v \in Names : \E e \in SUBSET Escapes : value = Fragment(FALSE, {v}, e, FALSE)
  BY DEF Values
<1>2. ASSUME value = Plain
      PROVE  ~value.source /\ ~value.number /\ value.escapes = {} /\ value.refs = {}
  BY <1>2 DEF Plain, Fragment
<1>3. ASSUME value = Fragment(TRUE, {}, {}, TRUE)
      PROVE  value.source /\ value.number /\ value.escapes = {} /\ value.refs = {}
  BY <1>3 DEF Fragment
<1>4. ASSUME NEW e \in SUBSET Escapes, value = Fragment(TRUE, {}, e, FALSE)
      PROVE  value.source /\ ~value.number /\ value.escapes = e /\ value.refs = {}
  BY <1>4 DEF Fragment
<1>5. ASSUME NEW v \in Names, NEW e \in SUBSET Escapes, value = Fragment(FALSE, {v}, e, FALSE)
      PROVE  ~value.source /\ ~value.number /\ value.escapes = e /\ value.refs = {v}
  BY <1>5 DEF Fragment
<1>6. /\ value.source = TRUE \/ value.source = FALSE
      /\ value.number = TRUE \/ value.number = FALSE
  BY <1>1 DEF Plain, Fragment
<1>7. value.escapes \subseteq Escapes
  BY <1>1, <1>2, <1>3, <1>4, <1>5
<1>8. \/ value.refs = {}
      \/ ~value.source /\ \E v \in Names : value.refs = {v}
  BY <1>1, <1>2, <1>3, <1>4, <1>5
<1> QED
  BY <1>6, <1>7, <1>8

-----------------------------------------------------------------------------
(* One pass of build is a chain of Learn.                                  *)

LEMMA LearnType ==
  ASSUME NEW known \in KnownStates, NEW assign \in Assignments
  PROVE  Learn(Lang, known, assign) \in KnownStates
<1>1. Escaped(Lang, assign.value) \subseteq Escapes
  BY ValueShape DEF Escaped, Assignments
<1>2. UNION {known.cleaned[v] : v \in assign.value.refs} \subseteq Escapes
  BY ValueShape DEF KnownStates, Assignments
<1>3. Cleaned(Lang, assign.value, known) \in SUBSET Escapes
  BY <1>1, <1>2 DEF Cleaned
<1> QED
  BY <1>3 DEF Learn, KnownStates, Assignments

LEMMA PassSteps ==
  ASSUME NEW known \in KnownStates, NEW file \in Seq(Assignments)
  PROVE  \E k \in [0 .. Len(file) -> KnownStates] :
           /\ k[0] = known
           /\ \A i \in DOMAIN file : k[i] = Learn(Lang, k[i - 1], file[i])
           /\ Pass(Lang, known, file) = k[Len(file)]
<1> DEFINE n == Len(file)
           V == KnownStates
           step == [p \in (1 .. n) \X V |-> Learn(Lang, p[2], file[p[1]])]
           Folded(g) == [s \in SUBSET DOMAIN file |->
                           IF s = {} THEN known
                           ELSE Learn(Lang, g[s \ {Max(s)}], file[Max(s)])]
           iter == CHOOSE g : g = Folded(g)
<1>1. /\ n \in Nat /\ DOMAIN file = 1 .. n /\ known \in V
      /\ \A i \in 1 .. n : file[i] \in Assignments
  OBVIOUS
<1>2. step \in [(1 .. n) \X V -> V]
  BY <1>1, LearnType
<1>3. PICK g \in [SUBSET (1 .. n) -> V] : IsFold(g, n, known, step)
  <2> HIDE DEF step, n, V
  <2> QED
    BY <1>1, <1>2, FoldExists
<1>4. \A s \in SUBSET (1 .. n) : s # {} =>
        /\ Max(s) \in 1 .. n /\ g[s \ {Max(s)}] \in V
        /\ step[<<Max(s), g[s \ {Max(s)}]>>] = Learn(Lang, g[s \ {Max(s)}], file[Max(s)])
  <2> SUFFICES ASSUME NEW s \in SUBSET (1 .. n), s # {}
               PROVE  /\ Max(s) \in 1 .. n /\ g[s \ {Max(s)}] \in V
                      /\ step[<<Max(s), g[s \ {Max(s)}]>>] =
                           Learn(Lang, g[s \ {Max(s)}], file[Max(s)])
    OBVIOUS
  <2>1. Max(s) \in 1 .. n
    <3>1. s \in SUBSET (0 .. n)
      BY <1>1
    <3> QED
      BY <1>1, <3>1, MaxInside
  <2>2. g[s \ {Max(s)}] \in V
    BY <1>3
  <2> QED
    BY <2>1, <2>2
<1>5. g = Folded(g)
  <2>1. \A s \in SUBSET (1 .. n) :
          g[s] = IF s = {} THEN known ELSE Learn(Lang, g[s \ {Max(s)}], file[Max(s)])
    BY <1>3, <1>4 DEF IsFold
  <2> QED
    BY <1>1, <2>1
<1>6. iter = Folded(iter)
  BY <1>5
<1>7. Pass(Lang, known, file) = iter[DOMAIN file]
  BY DEF Pass, FoldLeft, MapThenFoldSet
<1> HIDE DEF iter, step
<1> DEFINE k == [i \in 0 .. n |-> iter[1 .. i]]
<1>8. k[0] = known
  <2>1. 1 .. 0 = {} /\ 1 .. 0 \in SUBSET DOMAIN file
    BY <1>1
  <2>2. iter[{}] = known
    BY <1>6, <2>1
  <2> QED
    BY <1>1, <2>1, <2>2
<1>9. ASSUME NEW i \in DOMAIN file
      PROVE  k[i] = Learn(Lang, k[i - 1], file[i])
  <2>1. Max(1 .. i) = i
    <3>1. 1 .. i \in SUBSET Int /\ i \in 1 .. i /\ \A x \in 1 .. i : i >= x
      BY <1>1
    <3> QED
      BY <3>1, MaxIs
  <2>2. 1 .. i # {} /\ 1 .. i \in SUBSET DOMAIN file /\ (1 .. i) \ {i} = 1 .. i - 1
        /\ i - 1 \in 0 .. n /\ i \in 0 .. n
    BY <1>1
  <2>3. iter[1 .. i] = Learn(Lang, iter[(1 .. i) \ {Max(1 .. i)}], file[Max(1 .. i)])
    BY <1>6, <2>2
  <2> QED
    BY <2>1, <2>2, <2>3
<1>10. \A i \in 0 .. n : k[i] \in V
  <2> DEFINE Bad == {i \in 0 .. n : k[i] \notin V}
  <2> HIDE DEF k, V
  <2>1. SUFFICES ASSUME Bad # {}
                 PROVE  FALSE
    OBVIOUS
  <2>2. PICK m \in Bad : \A i \in Bad : m <= i
    <3>1. Bad \in SUBSET Nat
      BY <1>1
    <3> QED
      BY <2>1, <3>1, LeastNumber
  <2>3. m # 0
    BY <1>8, <2>2 DEF V
  <2>4. m - 1 \in 0 .. n /\ m \in DOMAIN file /\ k[m - 1] \in V
    BY <1>1, <2>2, <2>3
  <2>5. k[m] \in V
    BY <1>1, <1>9, <2>4, LearnType DEF V
  <2> QED
    BY <2>2, <2>5
<1> QED
  <2>1. k \in [0 .. n -> V]
    BY <1>10
  <2>2. Pass(Lang, known, file) = k[n]
    BY <1>1, <1>7
  <2> HIDE DEF k
  <2> QED
    BY <1>8, <1>9, <2>1, <2>2

-----------------------------------------------------------------------------
(* The last write, and what the states of the history and of the danger    *)
(* are made of.                                                            *)

LEMMA LastWriteIs ==
  ASSUME NEW file \in Seq(Assignments), NEW v, NEW i \in 1 .. Len(file) + 1
  PROVE  /\ LastWrite(file, v, i) \in 0 .. i - 1
         /\ LastWrite(file, v, i) # 0 => file[LastWrite(file, v, i)].var = v
         /\ \A j \in LastWrite(file, v, i) + 1 .. i - 1 : file[j].var # v
<1> DEFINE writes == {j \in 1 .. i - 1 : file[j].var = v} \cup {0}
           last == Max(writes)
<1>1. i - 1 \in Nat /\ writes \in SUBSET (0 .. i - 1) /\ writes # {}
  OBVIOUS
<1>2. LastWrite(file, v, i) = last
  BY DEF LastWrite
<1>3. last \in writes /\ \A j \in writes : j <= last
  <2> HIDE DEF writes
  <2> QED
    BY <1>1, MaxInside
<1> HIDE DEF last
<1>4. ASSUME NEW j \in last + 1 .. i - 1, file[j].var = v
      PROVE  FALSE
  <2>1. last \in Nat
    BY <1>1, <1>3
  <2>2. j \in 1 .. i - 1
    BY <2>1
  <2>3. j <= last
    BY <1>3, <1>4, <2>2
  <2> QED
    BY <2>1, <2>2, <2>3
<1> QED
  BY <1>1, <1>2, <1>3, <1>4

Drawn(before, names) == UNION {before[v] : v \in names}

\* What an assignment adds to what its name is dangerous for.
Added(before, value) ==
  IF value.number THEN {}
  ELSE (IF value.source THEN Categories ELSE Drawn(before, value.refs))
         \ Escaped(Lang, value)

DangerStates == [Names -> SUBSET Categories]

\* The danger of each name after each line.
DangerRun(a, file) ==
  /\ a \in [0 .. Len(file) -> DangerStates]
  /\ a[0] = [v \in Names |-> {}]
  /\ \A i \in DOMAIN file :
       /\ \A v \in Names : v # file[i].var => a[i][v] = a[i - 1][v]
       /\ file[i].op = Comparison => a[i][file[i].var] = a[i - 1][file[i].var]
       /\ file[i].op # Comparison =>
            a[i][file[i].var] =
              Added(a[i - 1], file[i].value)
                \cup (IF file[i].op \in Lang.appends THEN a[i - 1][file[i].var] ELSE {})

LEMMA AddedType ==
  ASSUME NEW before \in DangerStates, NEW value \in Values
  PROVE  Added(before, value) \in SUBSET Categories
<1>1. Drawn(before, value.refs) \subseteq Categories
  BY ValueShape DEF DangerStates, Drawn
<1> QED
  BY <1>1 DEF Added

LEMMA DangerSteps ==
  ASSUME NEW file \in Seq(Assignments)
  PROVE  \E a : DangerRun(a, file) /\ Danger(file) = a[Len(file)]
<1> DEFINE n == Len(file)
           V == DangerStates
           none == [v \in Names |-> {}]
           next(was, assign) ==
             [was EXCEPT ![assign.var] =
                IF assign.op = Comparison THEN was[assign.var]
                ELSE IF assign.op \in Lang.appends
                THEN was[assign.var] \cup Added(was, assign.value)
                ELSE Added(was, assign.value)]
           step == [p \in (1 .. n) \X V |-> next(p[2], file[p[1]])]
           Body(g) == [i \in 0 .. n |-> IF i = 0 THEN none ELSE next(g[i - 1], file[i])]
           after == CHOOSE g : g = Body(g)
<1>1. /\ n \in Nat /\ DOMAIN file = 1 .. n /\ none \in V
      /\ \A i \in 1 .. n : file[i] \in Assignments
  BY DEF DangerStates
<1>2. \A was \in V, assign \in Assignments : next(was, assign) \in V
  <2> SUFFICES ASSUME NEW was \in V, NEW assign \in Assignments
               PROVE  next(was, assign) \in V
    OBVIOUS
  <2>1. Added(was, assign.value) \in SUBSET Categories /\ assign.var \in Names
    BY AddedType DEF Assignments
  <2> QED
    BY <2>1 DEF DangerStates
<1>3. step \in [(1 .. n) \X V -> V]
  BY <1>1, <1>2
<1>4. PICK g \in [0 .. n -> V] : IsChain(g, n, none, step)
  <2> HIDE DEF step, n, V, none
  <2> QED
    BY <1>1, <1>3, Chain
<1>5. ASSUME NEW i \in 0 .. n
      PROVE  g[i] = IF i = 0 THEN none ELSE next(g[i - 1], file[i])
  <2>1. CASE i = 0
    BY <1>4, <2>1 DEF IsChain
  <2>2. CASE i # 0
    <3>1. i \in 1 .. n /\ i - 1 \in 0 .. n
      BY <1>1, <2>2
    <3>2. g[i - 1] \in V
      BY <1>4, <3>1
    <3>3. step[<<i, g[i - 1]>>] = next(g[i - 1], file[i])
      BY <3>1, <3>2
    <3> HIDE DEF next, step
    <3> QED
      BY <1>4, <2>2, <3>3 DEF IsChain
  <2> QED
    BY <2>1, <2>2
<1>6. g = Body(g)
  <2> HIDE DEF next
  <2> QED
    BY <1>4, <1>5
<1>7. after = Body(after)
  <2> HIDE DEF Body
  <2> QED
    BY <1>6
<1>8. Danger(file) = after[n]
  BY DEF Danger, Added, Drawn
<1> HIDE DEF after
<1>9. after[0] = none /\ \A i \in 1 .. n : after[i] = next(after[i - 1], file[i])
  <2> HIDE DEF next, none
  <2> QED
    BY <1>1, <1>7
<1>10. \A i \in 0 .. n : after[i] \in V
  <2> DEFINE Typed == {i \in 0 .. n : after[i] \in V}
  <2>1. 0 \in Typed
    BY <1>1, <1>9
  <2>2. ASSUME NEW i \in 1 .. n, i - 1 \in Typed
        PROVE  i \in Typed
    <3> HIDE DEF next, V
    <3> QED
      BY <1>1, <1>2, <1>9, <2>2
  <2> HIDE DEF Typed
  <2>3. \A i \in 0 .. n : i \in Typed
    BY <1>1, <2>1, <2>2, Induction
  <2> QED
    BY <2>3 DEF Typed
<1>11. ASSUME NEW i \in DOMAIN file
       PROVE  /\ \A v \in Names : v # file[i].var => after[i][v] = after[i - 1][v]
              /\ file[i].op = Comparison =>
                   after[i][file[i].var] = after[i - 1][file[i].var]
              /\ file[i].op # Comparison =>
                   after[i][file[i].var] =
                     Added(after[i - 1], file[i].value)
                       \cup (IF file[i].op \in Lang.appends
                             THEN after[i - 1][file[i].var] ELSE {})
  <2>1. after[i] = next(after[i - 1], file[i]) /\ after[i - 1] \in V
        /\ file[i] \in Assignments
    <3> HIDE DEF next, V
    <3> QED
      BY <1>1, <1>9, <1>10
  <2>2. file[i].var \in Names
    BY <2>1 DEF Assignments
  <2> QED
    BY <2>1, <2>2 DEF DangerStates
<1>12. after \in [0 .. n -> V]
  <2>1. after = [i \in 0 .. n |-> after[i]]
    <3> HIDE DEF next
    <3> QED
      BY <1>7
  <2> QED
    BY <1>10, <2>1
<1>13. DangerRun(after, file)
  BY <1>9, <1>11, <1>12 DEF DangerRun
<1> QED
  BY <1>8, <1>13

-----------------------------------------------------------------------------
(* The history: what each write leaves its name in.                        *)

NewState(known, value) ==
  [tainted |-> ~value.number /\ Taints(value, known), cleaned |-> Cleaned(Lang, value, known)]

Grown(new, old) ==
  [tainted |-> new.tainted \/ old.tainted,
   cleaned |-> IF new.tainted \/ old.tainted THEN new.cleaned \cap old.cleaned
               ELSE new.cleaned]

\* The write an append adds to, or 0.
GrowsFrom(file, i) ==
  IF file[i].op \in Lang.appends THEN LastWrite(file, file[i].var, i) ELSE 0

LEMMA NewStateType ==
  ASSUME NEW known \in KnownStates, NEW value \in Values
  PROVE  NewState(known, value) \in NameStates
<1>1. Escaped(Lang, value) \subseteq Escapes
  BY ValueShape DEF Escaped
<1>2. UNION {known.cleaned[v] : v \in value.refs} \subseteq Escapes
  BY ValueShape DEF KnownStates
<1>3. Cleaned(Lang, value, known) \in SUBSET Escapes
  BY <1>1, <1>2 DEF Cleaned
<1> QED
  BY <1>3 DEF NewState, NameStates

LEMMA HistorySteps ==
  ASSUME NEW known \in KnownStates, NEW file \in Seq(Assignments)
  PROVE  \A i \in DOMAIN file :
           History(Lang, known, file)[i] =
             IF GrowsFrom(file, i) = 0 THEN NewState(known, file[i].value)
             ELSE Grown(NewState(known, file[i].value),
                        History(Lang, known, file)[GrowsFrom(file, i)])
<1> DEFINE n == Len(file)
           V == NameStates
           new == [i \in 1 .. n |-> NewState(known, file[i].value)]
           prev == [i \in 1 .. n |-> GrowsFrom(file, i)]
           step == [p \in (1 .. n) \X V |-> Grown(new[p[1]], p[2])]
           Body(g) ==
             [i \in DOMAIN file |->
                LET value == file[i].value
                    before == LastWrite(file, file[i].var, i)
                    dirty == ~value.number /\ Taints(value, known)
                    clean == Cleaned(Lang, value, known)
                IN  IF file[i].op \in Lang.appends /\ before # 0
                    THEN LET both == dirty \/ g[before].tainted
                         IN  [tainted |-> both,
                              cleaned |-> IF both THEN clean \cap g[before].cleaned
                                                  ELSE clean]
                    ELSE [tainted |-> dirty, cleaned |-> clean]]
           state == CHOOSE g : g = Body(g)
<1>1. /\ n \in Nat /\ DOMAIN file = 1 .. n
      /\ \A i \in 1 .. n : file[i] \in Assignments
  OBVIOUS
<1>2. new \in [1 .. n -> V]
  BY <1>1, NewStateType DEF Assignments
<1>3. \A i \in 1 .. n : GrowsFrom(file, i) \in Nat /\ GrowsFrom(file, i) < i
  BY <1>1, LastWriteIs DEF GrowsFrom
<1>4. step \in [(1 .. n) \X V -> V]
  BY <1>2 DEF Grown, NameStates
<1>5. PICK g \in [1 .. n -> V] : IsRecursion(g, n, new, step, prev)
  <2>1. prev \in [1 .. n -> Nat] /\ \A i \in 1 .. n : prev[i] < i
    BY <1>3
  <2> HIDE DEF step, n, V, new, prev
  <2> QED
    BY <1>1, <1>2, <1>4, <2>1, Recursion
<1>6. ASSUME NEW f, NEW i \in DOMAIN file
      PROVE  Body(f)[i] = IF GrowsFrom(file, i) = 0 THEN NewState(known, file[i].value)
                          ELSE Grown(NewState(known, file[i].value), f[GrowsFrom(file, i)])
  BY DEF GrowsFrom, NewState, Grown
<1>7. ASSUME NEW i \in DOMAIN file
      PROVE  g[i] = Body(g)[i]
  <2>1. GrowsFrom(file, i) # 0 => g[GrowsFrom(file, i)] \in V
    BY <1>1, <1>3
  <2>2. GrowsFrom(file, i) # 0 =>
          step[<<i, g[GrowsFrom(file, i)]>>] =
            Grown(NewState(known, file[i].value), g[GrowsFrom(file, i)])
    BY <1>1, <2>1
  <2> HIDE DEF Body, step
  <2> QED
    BY <1>1, <1>5, <1>6, <2>2 DEF IsRecursion
<1>8. g = Body(g)
  <2>1. Body(g) = [i \in DOMAIN file |-> Body(g)[i]]
    OBVIOUS
  <2> HIDE DEF Body
  <2> QED
    BY <1>1, <1>7, <2>1
<1>9. state = Body(state)
  <2> HIDE DEF Body
  <2> QED
    BY <1>8
<1>10. History(Lang, known, file) = state
  BY DEF History
<1> HIDE DEF state, Body
<1> QED
  BY <1>6, <1>9, <1>10

-----------------------------------------------------------------------------
(* What build knows of the names that are copied.                          *)

Read(file) == {v \in Names : \E i \in DOMAIN file : v \in file[i].value.refs}
Written(file, i) == {file[j].var : j \in 1 .. i}

\* Of one name, what the tracker knows is what running the file does.
Agrees(known, danger, v) ==
  danger[v] = IF v \in known.tainted THEN Categories \ known.cleaned[v] ELSE {}

\* A name nobody writes keeps its danger.
LEMMA Unwritten ==
  ASSUME NEW file \in Seq(Assignments), NEW a, DangerRun(a, file), NEW v \in Names,
         NEW j \in 0 .. Len(file), NEW i \in j .. Len(file),
         \A k \in j + 1 .. i : file[k].var # v
  PROVE  a[i][v] = a[j][v]
<1> DEFINE Same == {m \in 0 .. i - j : a[j + m][v] = a[j][v]}
<1>1. i - j \in Nat /\ 0 \in Same /\ DOMAIN file = 1 .. Len(file)
  OBVIOUS
<1>2. ASSUME NEW m \in 1 .. i - j, m - 1 \in Same
      PROVE  m \in Same
  <2>1. j + m \in DOMAIN file /\ j + m \in j + 1 .. i /\ j + (m - 1) = (j + m) - 1
    BY <1>1
  <2>2. a[j + m][v] = a[(j + m) - 1][v]
    BY <2>1 DEF DangerRun
  <2> QED
    BY <1>2, <2>1, <2>2
<1> HIDE DEF Same
<1>3. i - j \in Same
  <2>1. \A m \in 0 .. i - j : m \in Same
    BY <1>1, <1>2, Induction
  <2> QED
    BY <1>1, <2>1
<1>4. j + (i - j) = i
  OBVIOUS
<1> QED
  BY <1>3, <1>4 DEF Same

\* A name that is copied has one write, before every copy; it gets all its
\* danger there.
LEMMA WrittenOnce ==
  ASSUME NEW file \in Seq(Assignments), CopiesAreSettled(file), NEW a, DangerRun(a, file),
         NEW v \in Read(file)
  PROVE  \E j \in DOMAIN file :
           /\ \A k \in DOMAIN file : file[k].var = v <=> k = j
           /\ \A i \in DOMAIN file : v \in file[i].value.refs => j < i
           /\ \A i \in 0 .. Len(file) :
                a[i][v] = IF i < j THEN {} ELSE Added(a[j - 1], file[j].value)
<1>1. v \in Names /\ DOMAIN file = 1 .. Len(file) /\ Len(file) \in Nat
  BY DEF Read
<1>2. PICK r \in DOMAIN file : v \in file[r].value.refs
  BY DEF Read
<1>3. PICK j \in 1 .. r - 1 : file[j].var = v
  BY <1>2 DEF CopiesAreSettled
<1>4. j \in DOMAIN file /\ j - 1 \in 0 .. Len(file) /\ j \in 0 .. Len(file)
  BY <1>1
<1>5. \A k \in DOMAIN file : file[k].var = v <=> k = j
  BY <1>2, <1>3, <1>4 DEF CopiesAreSettled
<1>6. ASSUME NEW i \in DOMAIN file, v \in file[i].value.refs
      PROVE  j < i
  <2>1. PICK k \in 1 .. i - 1 : file[k].var = v
    BY <1>6 DEF CopiesAreSettled
  <2>2. k \in DOMAIN file /\ k = j
    BY <1>1, <1>5, <2>1
  <2> QED
    BY <1>1, <2>1, <2>2
<1>7. ASSUME NEW i \in 0 .. Len(file), i < j
      PROVE  a[i][v] = {}
  <2>1. 0 \in 0 .. Len(file) /\ i \in 0 .. Len(file)
        /\ \A k \in 0 + 1 .. i : file[k].var # v
    BY <1>1, <1>4, <1>5, <1>7
  <2>2. a[i][v] = a[0][v]
    BY <1>1, <2>1, Unwritten
  <2> QED
    BY <1>1, <2>2 DEF DangerRun
<1>8. a[j][v] = Added(a[j - 1], file[j].value)
  <2>1. a[j - 1][v] = {}
    BY <1>1, <1>4, <1>7
  <2>2. file[j].op # Comparison
    <3>1. v \notin Compared(file)
      BY <1>2 DEF CopiesAreSettled
    <3> QED
      BY <1>3, <1>4, <3>1 DEF Compared
  <2>3. a[j][file[j].var] =
          Added(a[j - 1], file[j].value)
            \cup (IF file[j].op \in Lang.appends THEN a[j - 1][file[j].var] ELSE {})
    BY <1>4, <2>2 DEF DangerRun
  <2> QED
    BY <1>3, <2>1, <2>3
<1>9. ASSUME NEW i \in 0 .. Len(file), ~(i < j)
      PROVE  a[i][v] = a[j][v]
  <2>1. i \in j .. Len(file) /\ \A k \in j + 1 .. i : file[k].var # v
    BY <1>1, <1>4, <1>5, <1>9
  <2> QED
    BY <1>1, <1>4, <2>1, Unwritten
<1> QED
  BY <1>4, <1>5, <1>6, <1>7, <1>8, <1>9

\* Learn leaves the other names alone, and knows of its own what it knew of
\* the names that are copied.
LEMMA LearnAgrees ==
  ASSUME NEW known \in KnownStates, NEW assign \in Assignments,
         NEW before \in DangerStates,
         \A u \in assign.value.refs : Agrees(known, before, u)
  PROVE  LET after == Learn(Lang, known, assign)
             v == assign.var
         IN  /\ \A w \in Names : w # v =>
                  /\ w \in after.tainted <=> w \in known.tainted
                  /\ after.cleaned[w] = known.cleaned[w]
             /\ v \in known.tainted => after = known
             /\ v \notin known.tainted =>
                  Added(before, assign.value) =
                    IF v \in after.tainted THEN Categories \ after.cleaned[v] ELSE {}
<1> DEFINE value == assign.value
           v == assign.var
           after == Learn(Lang, known, assign)
           clean == Cleaned(Lang, value, known)
<1>1. v \in Names /\ value \in Values
  BY DEF Assignments
<1>2. CASE v \in known.tainted \/ ~Taints(value, known) \/ value.number
  <2>1. after = known
    BY <1>2 DEF Learn
  <2>2. ASSUME v \notin known.tainted
        PROVE  Added(before, value) = {}
    <3>1. CASE value.number
      BY <3>1 DEF Added
    <3>2. CASE ~Taints(value, known)
      <4>1. ~value.source /\ \A u \in value.refs : u \notin known.tainted
        BY <3>2 DEF Taints
      <4>2. \A u \in value.refs : before[u] = {}
        BY <4>1 DEF Agrees
      <4> QED
        BY <4>1, <4>2 DEF Added, Drawn
    <3> QED
      BY <1>2, <2>2, <3>1, <3>2
  <2> QED
    BY <2>1, <2>2
<1>3. CASE v \notin known.tainted /\ Taints(value, known) /\ ~value.number
  <2>1. after = [tainted |-> known.tainted \cup {v},
                 cleaned |-> [known.cleaned EXCEPT ![v] = clean]]
    BY <1>3 DEF Learn
  <2>2. /\ v \in after.tainted /\ after.cleaned[v] = clean
        /\ \A w \in Names : w # v =>
             /\ w \in after.tainted <=> w \in known.tainted
             /\ after.cleaned[w] = known.cleaned[w]
    BY <1>1, <2>1 DEF KnownStates
  <2>3. Added(before, value) = Categories \ clean
    <3>1. CASE value.source
      <4>1. value.refs = {}
        BY <1>1, <3>1, ValueShape
      <4>2. clean = Escaped(Lang, value)
        BY <4>1 DEF Cleaned
      <4> QED
        BY <1>3, <3>1, <4>2 DEF Added
    <3>2. CASE ~value.source
      <4>1. PICK u \in Names : value.refs = {u} /\ u \in known.tainted
        BY <1>1, <1>3, <3>2, ValueShape DEF Taints
      <4>2. clean = Escaped(Lang, value) \cup known.cleaned[u]
        BY <4>1 DEF Cleaned
      <4>3. before[u] = Categories \ known.cleaned[u]
        BY <4>1 DEF Agrees
      <4>4. Added(before, value) = before[u] \ Escaped(Lang, value)
        <5>1. Drawn(before, value.refs) = before[u]
          BY <4>1 DEF Drawn
        <5> QED
          BY <1>3, <3>2, <5>1 DEF Added
      <4> QED
        BY <4>2, <4>3, <4>4
    <3> QED
      BY <3>1, <3>2
  <2> HIDE DEF after, clean
  <2> QED
    BY <1>3, <2>2, <2>3 DEF after
<1> QED
  BY <1>2, <1>3

\* Where the first pass ends, all copied names agree, and only what is written
\* is tainted.
LEMMA FirstPass ==
  ASSUME NEW file \in Seq(Assignments), CopiesAreSettled(file), NEW a, DangerRun(a, file)
  PROVE  LET known == Pass(Lang, Unknown, file)
         IN  /\ known \in KnownStates
             /\ known.tainted \subseteq Written(file, Len(file))
             /\ \A v \in Read(file) : Agrees(known, a[Len(file)], v)
<1> DEFINE n == Len(file)
<1>1. n \in Nat /\ DOMAIN file = 1 .. n /\ \A i \in 1 .. n : file[i] \in Assignments
  OBVIOUS
<1>2. Unknown \in KnownStates
  BY DEF Unknown, KnownStates
<1>3. PICK k \in [0 .. n -> KnownStates] :
        /\ k[0] = Unknown
        /\ \A i \in DOMAIN file : k[i] = Learn(Lang, k[i - 1], file[i])
        /\ Pass(Lang, Unknown, file) = k[n]
  BY <1>2, PassSteps
<1> DEFINE Holds == {i \in 0 .. n : /\ k[i].tainted \subseteq Written(file, i)
                                    /\ \A v \in Read(file) : Agrees(k[i], a[i], v)}
<1>4. 0 \in Holds
  <2>1. k[0].tainted = {}
    BY <1>3 DEF Unknown
  <2>2. \A v \in Read(file) : a[0][v] = {}
    BY DEF DangerRun, Read
  <2> QED
    BY <1>1, <2>1, <2>2 DEF Agrees
<1>5. ASSUME NEW i \in 1 .. n, i - 1 \in Holds
      PROVE  i \in Holds
  <2> DEFINE var == file[i].var
  <2>1. /\ i - 1 \in 0 .. n /\ i \in 0 .. n /\ file[i] \in Assignments /\ i \in DOMAIN file
        /\ k[i - 1] \in KnownStates /\ k[i] = Learn(Lang, k[i - 1], file[i])
        /\ a[i - 1] \in DangerStates
    <3>1. i - 1 \in 0 .. n /\ i \in 0 .. n /\ file[i] \in Assignments /\ i \in DOMAIN file
      BY <1>1
    <3>2. a[i - 1] \in DangerStates
      BY <3>1 DEF DangerRun
    <3> HIDE DEF n
    <3> QED
      BY <1>3, <3>1, <3>2
  <2>2. file[i].value.refs \subseteq Read(file)
    BY <2>1, ValueShape DEF Read, Assignments
  <2>3. \A u \in file[i].value.refs : Agrees(k[i - 1], a[i - 1], u)
    BY <1>5, <2>2
  <2>4. /\ \A w \in Names : w # var =>
             /\ w \in k[i].tainted <=> w \in k[i - 1].tainted
             /\ k[i].cleaned[w] = k[i - 1].cleaned[w]
        /\ var \notin k[i - 1].tainted =>
             Added(a[i - 1], file[i].value) =
               IF var \in k[i].tainted THEN Categories \ k[i].cleaned[var] ELSE {}
    BY <2>1, <2>3, LearnAgrees
  <2>5. k[i].tainted \subseteq Written(file, i)
    <3>1. k[i] \in KnownStates /\ k[i - 1].tainted \subseteq Written(file, i - 1)
      BY <1>3, <1>5, <2>1
    <3>2. Written(file, i) = Written(file, i - 1) \cup {var}
      BY <2>1 DEF Written
    <3> QED
      BY <2>4, <3>1, <3>2 DEF KnownStates
  <2>6. ASSUME NEW v \in Read(file)
        PROVE  Agrees(k[i], a[i], v)
    <3>1. v \in Names /\ Agrees(k[i - 1], a[i - 1], v)
      BY <1>5 DEF Read
    <3>2. CASE v # var
      <4>1. a[i][v] = a[i - 1][v]
        BY <2>1, <3>1, <3>2 DEF DangerRun
      <4> QED
        BY <2>4, <3>1, <3>2, <4>1 DEF Agrees
    <3>3. CASE v = var
      <4>1. PICK j \in DOMAIN file :
              /\ \A m \in DOMAIN file : file[m].var = v <=> m = j
              /\ \A m \in DOMAIN file : v \in file[m].value.refs => j < m
              /\ \A m \in 0 .. Len(file) :
                   a[m][v] = IF m < j THEN {} ELSE Added(a[j - 1], file[j].value)
        BY WrittenOnce
      <4>2. j = i /\ a[i][v] = Added(a[i - 1], file[i].value)
        BY <2>1, <3>3, <4>1
      <4>3. v \notin k[i - 1].tainted
        <5>1. \A m \in 1 .. i - 1 : file[m].var # v
          BY <1>1, <2>1, <4>1, <4>2
        <5> QED
          BY <1>5, <5>1 DEF Written
      <4> QED
        BY <2>4, <3>3, <4>2, <4>3 DEF Agrees
    <3> QED
      BY <3>2, <3>3
  <2> QED
    BY <2>1, <2>5, <2>6
<1>6. n \in Holds
  <2> HIDE DEF Holds
  <2>1. \A i \in 0 .. n : i \in Holds
    BY <1>1, <1>4, <1>5, Induction
  <2> QED
    BY <1>1, <2>1
<1> QED
  BY <1>1, <1>3, <1>6

\* A further pass over the file keeps the agreement.
LEMMA LaterPass ==
  ASSUME NEW file \in Seq(Assignments), CopiesAreSettled(file), NEW a, DangerRun(a, file),
         NEW start \in KnownStates,
         start.tainted \subseteq Written(file, Len(file)),
         \A v \in Read(file) : Agrees(start, a[Len(file)], v)
  PROVE  LET known == Pass(Lang, start, file)
         IN  /\ known \in KnownStates
             /\ known.tainted \subseteq Written(file, Len(file))
             /\ \A v \in Read(file) : Agrees(known, a[Len(file)], v)
<1> DEFINE n == Len(file)
<1>1. /\ n \in Nat /\ DOMAIN file = 1 .. n /\ a[n] \in DangerStates
      /\ \A i \in 1 .. n : file[i] \in Assignments
  BY DEF DangerRun
<1>2. PICK k \in [0 .. n -> KnownStates] :
        /\ k[0] = start
        /\ \A i \in DOMAIN file : k[i] = Learn(Lang, k[i - 1], file[i])
        /\ Pass(Lang, start, file) = k[n]
  BY PassSteps
<1> DEFINE Holds == {i \in 0 .. n : /\ k[i].tainted \subseteq Written(file, n)
                                    /\ \A v \in Read(file) : Agrees(k[i], a[n], v)}
<1>3. 0 \in Holds
  BY <1>1, <1>2
<1>4. ASSUME NEW i \in 1 .. n, i - 1 \in Holds
      PROVE  i \in Holds
  <2> DEFINE var == file[i].var
  <2>1. /\ i - 1 \in 0 .. n /\ i \in 0 .. n /\ file[i] \in Assignments /\ i \in DOMAIN file
        /\ k[i - 1] \in KnownStates /\ k[i] = Learn(Lang, k[i - 1], file[i])
    BY <1>1, <1>2
  <2>2. file[i].value.refs \subseteq Read(file)
    BY <2>1, ValueShape DEF Read, Assignments
  <2>3. \A u \in file[i].value.refs : Agrees(k[i - 1], a[n], u)
    BY <1>4, <2>2
  <2>4. /\ \A w \in Names : w # var =>
             /\ w \in k[i].tainted <=> w \in k[i - 1].tainted
             /\ k[i].cleaned[w] = k[i - 1].cleaned[w]
        /\ var \in k[i - 1].tainted => k[i] = k[i - 1]
        /\ var \notin k[i - 1].tainted =>
             Added(a[n], file[i].value) =
               IF var \in k[i].tainted THEN Categories \ k[i].cleaned[var] ELSE {}
    BY <1>1, <2>1, <2>3, LearnAgrees
  <2>5. k[i].tainted \subseteq Written(file, n)
    <3>1. k[i] \in KnownStates /\ k[i - 1].tainted \subseteq Written(file, n)
      BY <1>2, <1>4, <2>1
    <3>2. var \in Written(file, n)
      BY <2>1 DEF Written
    <3> QED
      BY <2>4, <3>1, <3>2 DEF KnownStates
  <2>6. ASSUME NEW v \in Read(file)
        PROVE  Agrees(k[i], a[n], v)
    <3>1. v \in Names /\ Agrees(k[i - 1], a[n], v)
      BY <1>4 DEF Read
    <3>2. CASE v # var \/ var \in k[i - 1].tainted
      BY <2>4, <3>1, <3>2 DEF Agrees
    <3>3. CASE v = var /\ var \notin k[i - 1].tainted
      <4>1. PICK j \in DOMAIN file :
              /\ \A m \in DOMAIN file : file[m].var = v <=> m = j
              /\ \A m \in 0 .. n :
                   a[m][v] = IF m < j THEN {} ELSE Added(a[j - 1], file[j].value)
        BY WrittenOnce
      <4>2. j = i /\ a[n][v] = Added(a[i - 1], file[i].value)
        BY <1>1, <2>1, <3>3, <4>1
      <4>3. ASSUME NEW u \in file[i].value.refs
            PROVE  a[n][u] = a[i - 1][u]
        <5>1. PICK l \in DOMAIN file :
                /\ \A m \in DOMAIN file : u \in file[m].value.refs => l < m
                /\ \A m \in 0 .. n :
                     a[m][u] = IF m < l THEN {} ELSE Added(a[l - 1], file[l].value)
          BY <2>2, WrittenOnce
        <5>2. l < i /\ ~(i - 1 < l) /\ ~(n < l)
          BY <1>1, <2>1, <5>1
        <5> QED
          BY <1>1, <2>1, <5>1, <5>2
      <4>4. Added(a[n], file[i].value) = Added(a[i - 1], file[i].value)
        <5>1. Drawn(a[n], file[i].value.refs) = Drawn(a[i - 1], file[i].value.refs)
          BY <4>3 DEF Drawn
        <5> QED
          BY <5>1 DEF Added
      <4> QED
        BY <2>4, <3>3, <4>2, <4>4 DEF Agrees
    <3> QED
      BY <3>2, <3>3
  <2> QED
    BY <2>1, <2>5, <2>6
<1>5. n \in Holds
  <2> HIDE DEF Holds
  <2>1. \A i \in 0 .. n : i \in Holds
    BY <1>1, <1>3, <1>4, Induction
  <2> QED
    BY <1>1, <2>1
<1> QED
  BY <1>1, <1>2, <1>5

LEMMA KnownAgrees ==
  ASSUME NEW file \in Seq(Assignments), CopiesAreSettled(file), NEW a, DangerRun(a, file)
  PROVE  /\ Known(Lang, file) \in KnownStates
         /\ Known(Lang, file).tainted \subseteq Written(file, Len(file))
         /\ \A v \in Read(file) : Agrees(Known(Lang, file), a[Len(file)], v)
  BY FirstPass, LaterPass DEF Known

-----------------------------------------------------------------------------
(* From the last write to the sink.                                        *)

LEMMA NewStateIsDanger ==
  ASSUME NEW known \in KnownStates, NEW value \in Values, NEW before \in DangerStates,
         \A u \in value.refs : Agrees(known, before, u), NEW c \in Categories
  PROVE  c \in Added(before, value) <=>
           LET new == NewState(known, value) IN new.tainted /\ c \notin new.cleaned
<1>1. NewState(known, value).tainted <=> ~value.number /\ Taints(value, known)
  BY DEF NewState
<1>2. NewState(known, value).cleaned = Cleaned(Lang, value, known)
  BY DEF NewState
<1>3. CASE value.number
  BY <1>1, <1>3 DEF Added
<1>4. CASE ~value.number /\ value.source
  <2>1. value.refs = {}
    BY <1>4, ValueShape
  <2>2. Cleaned(Lang, value, known) = Escaped(Lang, value)
    BY <2>1 DEF Cleaned
  <2>3. Added(before, value) = Categories \ Escaped(Lang, value)
    BY <1>4 DEF Added
  <2> QED
    BY <1>1, <1>2, <1>4, <2>2, <2>3 DEF Taints
<1>5. CASE ~value.number /\ ~value.source
  <2>1. Added(before, value) = Drawn(before, value.refs) \ Escaped(Lang, value)
    BY <1>5 DEF Added
  <2>2. CASE value.refs = {}
    BY <1>1, <1>5, <2>1, <2>2 DEF Taints, Drawn
  <2>3. ASSUME NEW u \in Names, value.refs = {u}
        PROVE  c \in Added(before, value) <=>
                 /\ NewState(known, value).tainted
                 /\ c \notin NewState(known, value).cleaned
    <3>1. Added(before, value) = before[u] \ Escaped(Lang, value)
      <4>1. Drawn(before, value.refs) = before[u]
        BY <2>3 DEF Drawn
      <4> QED
        BY <2>1, <4>1
    <3>2. Cleaned(Lang, value, known) = Escaped(Lang, value) \cup known.cleaned[u]
      BY <2>3 DEF Cleaned
    <3>3. Taints(value, known) <=> u \in known.tainted
      BY <1>5, <2>3 DEF Taints
    <3>4. before[u] = IF u \in known.tainted THEN Categories \ known.cleaned[u] ELSE {}
      BY <2>3 DEF Agrees
    <3> QED
      BY <1>1, <1>2, <1>5, <3>1, <3>2, <3>3, <3>4
  <2> QED
    BY <2>2, <2>3, ValueShape
<1> QED
  BY <1>3, <1>4, <1>5

\* At each place, what the value there adds is what the tracker makes of it.
LEMMA PlaceAgrees ==
  ASSUME NEW file \in Seq(Assignments), CopiesAreSettled(file), NEW a, DangerRun(a, file),
         NEW i \in DOMAIN file, NEW c \in Categories
  PROVE  c \in Added(a[i - 1], file[i].value) <=>
           LET new == NewState(Known(Lang, file), file[i].value)
           IN  new.tainted /\ c \notin new.cleaned
<1> DEFINE n == Len(file)
           known == Known(Lang, file)
<1>1. /\ n \in Nat /\ i \in 1 .. n /\ i - 1 \in 0 .. n /\ n \in 0 .. n
      /\ a[i - 1] \in DangerStates /\ file[i].value \in Values
  <2>1. /\ n \in Nat /\ i \in 1 .. n /\ i - 1 \in 0 .. n /\ n \in 0 .. n
        /\ file[i] \in Assignments
    OBVIOUS
  <2>2. a \in [0 .. n -> DangerStates]
    BY DEF DangerRun
  <2> QED
    BY <2>1, <2>2 DEF Assignments
<1>2. known \in KnownStates /\ \A v \in Read(file) : Agrees(known, a[n], v)
  BY KnownAgrees
<1>3. ASSUME NEW u \in file[i].value.refs
      PROVE  Agrees(known, a[i - 1], u)
  <2>1. u \in Read(file)
    BY <1>1, ValueShape DEF Read
  <2>2. PICK l \in DOMAIN file :
          /\ \A m \in DOMAIN file : file[m].var = u <=> m = l
          /\ \A m \in DOMAIN file : u \in file[m].value.refs => l < m
          /\ \A m \in 0 .. Len(file) :
               a[m][u] = IF m < l THEN {} ELSE Added(a[l - 1], file[l].value)
    BY <2>1, WrittenOnce
  <2>3. l < i /\ ~(i - 1 < l) /\ ~(n < l)
    BY <1>1, <2>2
  <2>4. a[i - 1][u] = a[n][u]
    BY <1>1, <2>2, <2>3
  <2> QED
    BY <1>2, <2>1, <2>4 DEF Agrees
<1> HIDE DEF known
<1> QED
  BY <1>1, <1>2, <1>3, NewStateIsDanger DEF known

LEMMA GrownIs ==
  ASSUME NEW new, NEW old
  PROVE  /\ Grown(new, old).tainted <=> new.tainted \/ old.tainted
         /\ new.tainted \/ old.tainted => Grown(new, old).cleaned = new.cleaned \cap old.cleaned
  BY DEF Grown

\* The history knows of all danger a write leaves a name in that is compared
\* with nothing.
LEMMA HistoryKnows ==
  ASSUME NEW file \in Seq(Assignments), CopiesAreSettled(file), NEW a, DangerRun(a, file)
  PROVE  \A i \in DOMAIN file :
           LET state == History(Lang, Known(Lang, file), file)[i]
           IN  file[i].var \notin Compared(file) =>
                 \A c \in a[i][file[i].var] : state.tainted /\ c \notin state.cleaned
<1> DEFINE n == Len(file)
           known == Known(Lang, file)
           h == History(Lang, known, file)
           Knows == {i \in 1 .. n :
                       file[i].var \notin Compared(file) =>
                       \A c \in a[i][file[i].var] : h[i].tainted /\ c \notin h[i].cleaned}
<1>1. n \in Nat /\ DOMAIN file = 1 .. n
  OBVIOUS
<1>2. ASSUME NEW i \in 1 .. n, \A j \in 1 .. i - 1 : j \in Knows
      PROVE  i \in Knows
  <2> DEFINE v == file[i].var
             new == NewState(known, file[i].value)
             from == GrowsFrom(file, i)
             last == LastWrite(file, v, i)
  <2>1. /\ i \in DOMAIN file /\ v \in Names /\ i - 1 \in 0 .. n
        /\ a[i] \in DangerStates /\ a[i - 1] \in DangerStates
        /\ file[i].value \in Values
    <3>1. i \in DOMAIN file /\ i \in 0 .. n /\ i - 1 \in 0 .. n /\ file[i] \in Assignments
      BY <1>1
    <3>2. a \in [0 .. n -> DangerStates]
      BY DEF DangerRun
    <3> QED
      BY <3>1, <3>2 DEF Assignments
  <2>2. h[i] = IF from = 0 THEN new ELSE Grown(new, h[from])
    BY <2>1, KnownAgrees, HistorySteps
  <2>3. \A c \in Added(a[i - 1], file[i].value) : new.tainted /\ c \notin new.cleaned
    <3>1. Added(a[i - 1], file[i].value) \in SUBSET Categories
      BY <2>1, AddedType
    <3> QED
      BY <2>1, <3>1, PlaceAgrees
  <2>4. v \notin Compared(file) =>
          a[i][v] = Added(a[i - 1], file[i].value)
                      \cup (IF file[i].op \in Lang.appends THEN a[i - 1][v] ELSE {})
    BY <2>1 DEF DangerRun, Compared
  <2>5. /\ last \in 0 .. i - 1
        /\ last # 0 => file[last].var = v
        /\ \A j \in last + 1 .. i - 1 : file[j].var # v
    BY <1>1, LastWriteIs
  <2>6. a[i - 1][v] = a[last][v]
    <3>1. last \in 0 .. Len(file) /\ i - 1 \in last .. Len(file)
      BY <1>1, <2>1, <2>5
    <3> HIDE DEF last, v
    <3>2. \A k \in last + 1 .. i - 1 : file[k].var # v
      BY <2>5
    <3> QED
      BY <2>1, <3>1, <3>2, Unwritten
  <2>7. a[0][v] = {}
    BY <2>1 DEF DangerRun
  <2> SUFFICES ASSUME v \notin Compared(file), NEW c \in a[i][v]
               PROVE  h[i].tainted /\ c \notin h[i].cleaned
    BY <1>1
  <2>8. CASE from = 0
    <3>1. c \in Added(a[i - 1], file[i].value)
      BY <2>4, <2>6, <2>7, <2>8 DEF GrowsFrom
    <3> QED
      BY <2>2, <2>3, <2>8, <3>1
  <2>9. CASE from # 0
    <3>1. from = last /\ last \in 1 .. i - 1 /\ file[last].var = v
      BY <1>1, <2>5, <2>9 DEF GrowsFrom
    <3>2. c \in Added(a[i - 1], file[i].value) \/ c \in a[last][v]
      BY <2>4, <2>6
    <3>3. /\ h[i].tainted <=> new.tainted \/ h[from].tainted
          /\ new.tainted \/ h[from].tainted => h[i].cleaned = new.cleaned \cap h[from].cleaned
      <4> HIDE DEF new, h, from
      <4>1. h[i] = Grown(new, h[from])
        BY <2>2, <2>9
      <4> QED
        BY <4>1, GrownIs
    <3>4. c \in a[last][v] => h[from].tainted /\ c \notin h[from].cleaned
      BY <1>2, <3>1
    <3> HIDE DEF new, h, from
    <3> QED
      BY <2>3, <3>2, <3>3, <3>4
  <2> QED
    BY <2>8, <2>9
<1> HIDE DEF Knows
<1>3. \A i \in 1 .. n : i \in Knows
  BY <1>1, <1>2, StrongInduction
<1> QED
  BY <1>1, <1>3 DEF Knows

\* scan_file asks reaches, and of a plain use reaches asks for the state.
LEMMA FlaggedIs ==
  ASSUME language \in Languages, NEW sink, NEW one, NEW others
  PROVE  Flagged(sink, one, others, TRUE) <=>
           ReachesSink(Lang, Built(Lang, program), program, Argument(sink, one, others),
                       sink.category)
<1>1. CASE language = "php"
  BY <1>1 DEF Flagged, PhpFlags, PhpReaches, PhpTaint, Lang
<1>2. CASE language = "ruby"
  BY <1>2 DEF Flagged, RubyFlags, RubyReaches, RubyTaint, Lang
<1>3. CASE language = "go"
  BY <1>3 DEF Flagged, GoFlags, GoReaches, GoTaint, Lang
<1> QED
  BY <1>1, <1>2, <1>3, TaintAssumption

LEMMA UseIs ==
  ASSUME NEW v, NEW sink
  PROVE  LET fragment == Argument(sink, Use(v), Plain)
         IN  /\ ~fragment.source /\ ~fragment.number /\ fragment.escapes = {}
             /\ fragment.refs \ fragment.keys = {v}
  BY DEF Argument, Beside, Use, Plain, Fragment

LEMMA LookupIs ==
  ASSUME NEW v, NEW sink
  PROVE  LET fragment == Argument(sink, Lookup(v), Plain)
         IN  ~fragment.source /\ fragment.refs \ fragment.keys = {}
  BY DEF Argument, Beside, Lookup, Use, Plain, Fragment

LEMMA UseFlagged ==
  ASSUME language \in Languages, NEW v \in Names, NEW sink
  PROVE  Flagged(sink, Use(v), Plain, TRUE) <=>
           LET state == StateAt(Built(Lang, program), program, v)
           IN  state.tainted /\ sink.category \notin state.cleaned
<1> DEFINE fragment == Argument(sink, Use(v), Plain)
<1>1. /\ ~fragment.source /\ ~fragment.number /\ fragment.escapes = {}
      /\ fragment.refs \ fragment.keys = {v}
  BY UseIs
<1> HIDE DEF fragment
<1>2. Escaped(Lang, fragment) = {}
  BY <1>1 DEF Escaped
<1>3. ReachesSink(Lang, Built(Lang, program), program, fragment, sink.category) <=>
        LET state == StateAt(Built(Lang, program), program, v)
        IN  state.tainted /\ sink.category \notin state.cleaned
  BY <1>1, <1>2 DEF ReachesSink
<1> QED
  BY <1>3, FlaggedIs DEF fragment

TaintTypes == language \in Languages /\ program \in Seq(Assignments)

LEMMA TaintTypesHold == TaintSpec => []TaintTypes
<1>1. TaintInit => TaintTypes
  BY DEF TaintInit, TaintTypes
<1>2. TaintTypes /\ [AddAssignment]_taintVars => TaintTypes'
  <2> SUFFICES ASSUME TaintTypes, [AddAssignment]_taintVars
               PROVE  TaintTypes'
    OBVIOUS
  <2>1. CASE UNCHANGED taintVars
    BY <2>1 DEF taintVars, TaintTypes, Assignments, Lang
  <2>2. CASE AddAssignment
    <3>1. PICK v \in Names, op \in {"="} \cup Lang.appends \cup Lang.misread, value \in Values :
            program' = Append(program, [var |-> v, op |-> op, value |-> value])
      BY <2>2 DEF AddAssignment
    <3>2. [var |-> v, op |-> op, value |-> value] \in Assignments
      BY DEF Assignments
    <3>3. program' \in Seq(Assignments) /\ language' = language
      BY <2>2, <3>1, <3>2 DEF TaintTypes, AddAssignment
    <3> QED
      BY <3>3 DEF TaintTypes, Assignments, Lang
  <2> QED
    BY <2>1, <2>2
<1> QED
  BY <1>1, <1>2, PTL DEF TaintSpec

\* The state at the end of the file is that of the last write, if there is one.
LEMMA EndState ==
  ASSUME TaintTypes, CopiesAreSettled(program), NEW a, DangerRun(a, program),
         NEW v \in Names
  PROVE  LET last == LastWrite(program, v, Len(program) + 1)
             state == StateAt(Built(Lang, program), program, v)
         IN  \/ /\ last \in DOMAIN program /\ program[last].var = v
                /\ a[Len(program)][v] = a[last][v]
                /\ state = History(Lang, Known(Lang, program), program)[last]
             \/ a[Len(program)][v] = {} /\ ~state.tainted
<1> DEFINE n == Len(program)
           last == LastWrite(program, v, n + 1)
<1>1. program \in Seq(Assignments) /\ n \in Nat /\ DOMAIN program = 1 .. n
  BY DEF TaintTypes
<1>2. /\ last \in 0 .. n
      /\ last # 0 => program[last].var = v
      /\ \A j \in last + 1 .. n : program[j].var # v
  <2>1. n + 1 \in 1 .. n + 1 /\ (n + 1) - 1 = n
    BY <1>1
  <2> QED
    BY <1>1, <2>1, LastWriteIs
<1> HIDE DEF last
<1>3. a[n][v] = a[last][v]
  BY <1>1, <1>2, Unwritten
<1>4. CASE last # 0
  <2>1. last \in DOMAIN program
    BY <1>1, <1>2, <1>4
  <2>2. StateAt(Built(Lang, program), program, v)
          = History(Lang, Known(Lang, program), program)[last]
    BY <1>4 DEF StateAt, Built, last
  <2> QED
    BY <1>2, <1>3, <1>4, <2>1, <2>2 DEF last
<1>5. CASE last = 0
  <2>1. a[n][v] = {}
    BY <1>3, <1>5 DEF DangerRun
  <2>2. v \notin Known(Lang, program).tainted
    <3>1. v \notin Written(program, n)
      BY <1>1, <1>2, <1>5 DEF Written
    <3> QED
      BY <1>1, <3>1, KnownAgrees
  <2>3. StateAt(Built(Lang, program), program, v).tainted <=>
          v \in Known(Lang, program).tainted
    BY <1>5 DEF StateAt, Built, last
  <2> QED
    BY <2>1, <2>2, <2>3
<1> QED
  BY <1>4, <1>5

\* In a file of any length whose copied names are written once, what is
\* dangerous at a sink is flagged.
THEOREM DangerFlagged == TaintSpec => []DangerIsFlagged
<1>1. TaintTypes => DangerIsFlagged
  <2> SUFFICES ASSUME TaintTypes, CopiesAreSettled(program),
                      NEW v \in Names \ Compared(program),
                      NEW sink \in Sinks, sink.category \in Danger(program)[v]
               PROVE  Flagged(sink, Use(v), Plain, TRUE)
    BY DEF DangerIsFlagged
  <2>1. program \in Seq(Assignments) /\ language \in Languages
    BY DEF TaintTypes
  <2>2. PICK a : DangerRun(a, program) /\ Danger(program) = a[Len(program)]
    BY <2>1, DangerSteps
  <2> DEFINE last == LastWrite(program, v, Len(program) + 1)
             state == StateAt(Built(Lang, program), program, v)
  <2>3. /\ last \in DOMAIN program /\ program[last].var = v
        /\ sink.category \in a[last][v]
        /\ state = History(Lang, Known(Lang, program), program)[last]
    BY <2>2, EndState
  <2>4. state.tainted /\ sink.category \notin state.cleaned
    <3> HIDE DEF last, state
    <3> QED
      BY <2>1, <2>2, <2>3, HistoryKnows
  <2> QED
    BY <2>1, <2>4, UseFlagged
<1> QED
  BY <1>1, TaintTypesHold, PTL

\* And in one without appends nothing else is.
THEOREM FlaggedDangerous == TaintSpec => []FlaggedIsDanger
<1>1. TaintTypes => FlaggedIsDanger
  <2> SUFFICES ASSUME TaintTypes, CopiesAreSettled(program), OnlyOverwrites(program),
                      NEW v \in Names \ Compared(program), NEW sink \in Sinks
               PROVE  /\ Flagged(sink, Use(v), Plain, TRUE) =>
                           sink.category \in Danger(program)[v]
                      /\ ~Flagged(sink, Lookup(v), Plain, TRUE)
                      /\ sink.reads # "all" => ~Flagged(sink, Plain, Use(v), TRUE)
    BY DEF FlaggedIsDanger
  <2>1. program \in Seq(Assignments) /\ language \in Languages
    BY DEF TaintTypes
  <2>2. ASSUME Flagged(sink, Use(v), Plain, TRUE)
        PROVE  sink.category \in Danger(program)[v]
    <3>1. PICK a : DangerRun(a, program) /\ Danger(program) = a[Len(program)]
      BY <2>1, DangerSteps
    <3> DEFINE last == LastWrite(program, v, Len(program) + 1)
               known == Known(Lang, program)
               state == StateAt(Built(Lang, program), program, v)
               c == sink.category
    <3>2. state.tainted /\ c \notin state.cleaned
      BY <2>1, <2>2, UseFlagged
    <3>3. /\ last \in DOMAIN program /\ program[last].var = v
          /\ Danger(program)[v] = a[last][v]
          /\ state = History(Lang, known, program)[last]
      BY <3>1, <3>2, EndState
    <3> HIDE DEF last, state
    <3>4. program[last].op = "=" /\ "=" \notin Lang.appends
      <4>1. "=" \notin Lang.appends
        BY <2>1, TaintAssumption DEF Lang, Php, Ruby, Go
      <4> QED
        BY <3>3, <4>1 DEF OnlyOverwrites, Compared
    <3>5. state = NewState(known, program[last].value)
      <4>1. GrowsFrom(program, last) = 0
        BY <3>4 DEF GrowsFrom
      <4>2. known \in KnownStates
        BY <2>1, <3>1, KnownAgrees
      <4> HIDE DEF known
      <4> QED
        BY <2>1, <3>3, <4>1, <4>2, HistorySteps
    <3>6. c \in Categories
      BY DEF Categories
    <3>7. c \in Added(a[last - 1], program[last].value)
      BY <2>1, <3>1, <3>2, <3>3, <3>5, <3>6, PlaceAgrees
    <3>8. Added(a[last - 1], program[last].value) \subseteq a[last][v]
      <4>1. program[last].op # Comparison
        BY <3>4 DEF Comparison
      <4> QED
        BY <3>1, <3>3, <4>1 DEF DangerRun
    <3> QED
      BY <3>3, <3>7, <3>8
  <2>3. ~Flagged(sink, Lookup(v), Plain, TRUE)
    <3> DEFINE fragment == Argument(sink, Lookup(v), Plain)
    <3>1. ~fragment.source /\ fragment.refs \ fragment.keys = {}
      BY LookupIs
    <3> HIDE DEF fragment
    <3>2. ~ReachesSink(Lang, Built(Lang, program), program, fragment, sink.category)
      BY <3>1 DEF ReachesSink
    <3> QED
      BY <2>1, <3>2, FlaggedIs DEF fragment
  <2>4. ASSUME sink.reads # "all"
        PROVE  ~Flagged(sink, Plain, Use(v), TRUE)
    <3>1. Argument(sink, Plain, Use(v)) = Plain /\ ~Plain.source /\ Plain.refs = {}
      BY <2>4 DEF Argument, Plain, Fragment
    <3>2. ~ReachesSink(Lang, Built(Lang, program), program, Plain, sink.category)
      BY <3>1 DEF ReachesSink
    <3> QED
      BY <2>1, <3>1, <3>2, FlaggedIs
  <2> QED
    BY <2>2, <2>3, <2>4
<1> QED
  BY <1>1, TaintTypesHold, PTL

-----------------------------------------------------------------------------
(***************************************************************************)
(* Versions.  compare sorts by the numbers, as if each version went on in  *)
(* zeros for ever, and by the rank of the stage after that; so it is an    *)
(* order, and what an advisory matches only grows with its fixed version.  *)
(***************************************************************************)

VersionTexts == Seq(VersionTokens)
ParseStates == [parts : Seq(Nat), rank : Int]

NothingParsed == [parts |-> <<>>, rank |-> 0]
ParseToken(was, t) ==
  [parts |-> IF t.number = NoNumber THEN was.parts ELSE Append(was.parts, t.number),
   rank |-> IF t.stage \in DOMAIN Stages THEN Stages[t.stage] ELSE was.rank]

LEMMA ParseTokenType ==
  ASSUME NEW was \in ParseStates, NEW t \in VersionTokens
  PROVE  ParseToken(was, t) \in ParseStates
<1>1. t.stage \in DOMAIN Stages => Stages[t.stage] \in Int
  BY DEF Stages
<1>2. t.number # NoNumber => Append(was.parts, t.number) \in Seq(Nat)
  BY DEF VersionTokens, ParseStates
<1> QED
  BY <1>1, <1>2 DEF ParseToken, ParseStates

LEMMA ParseSteps ==
  ASSUME NEW version \in VersionTexts
  PROVE  \E k \in [0 .. Len(version) -> ParseStates] :
           /\ k[0] = NothingParsed
           /\ \A i \in DOMAIN version : k[i] = ParseToken(k[i - 1], version[i])
           /\ Parsed(version) = k[Len(version)]
<1> DEFINE n == Len(version)
           V == ParseStates
           step == [p \in (1 .. n) \X V |-> ParseToken(p[2], version[p[1]])]
           Folded(g) == [s \in SUBSET DOMAIN version |->
                           IF s = {} THEN NothingParsed
                           ELSE ParseToken(g[s \ {Max(s)}], version[Max(s)])]
           iter == CHOOSE g : g = Folded(g)
<1>1. /\ n \in Nat /\ DOMAIN version = 1 .. n /\ NothingParsed \in V
      /\ \A i \in 1 .. n : version[i] \in VersionTokens
  BY DEF NothingParsed, ParseStates, VersionTexts
<1>2. step \in [(1 .. n) \X V -> V]
  BY <1>1, ParseTokenType
<1>3. PICK g \in [SUBSET (1 .. n) -> V] : IsFold(g, n, NothingParsed, step)
  <2> HIDE DEF step, n, V
  <2> QED
    BY <1>1, <1>2, FoldExists
<1>4. ASSUME NEW s \in SUBSET (1 .. n), s # {}
      PROVE  step[<<Max(s), g[s \ {Max(s)}]>>] =
               ParseToken(g[s \ {Max(s)}], version[Max(s)])
  <2>1. Max(s) \in 1 .. n
    <3>1. s \in SUBSET (0 .. n)
      BY <1>1
    <3> QED
      BY <1>1, <1>4, <3>1, MaxInside
  <2>2. g[s \ {Max(s)}] \in V
    BY <1>3
  <2> QED
    BY <2>1, <2>2
<1>5. g = Folded(g)
  <2>1. \A s \in SUBSET (1 .. n) :
          g[s] = IF s = {} THEN NothingParsed
                 ELSE ParseToken(g[s \ {Max(s)}], version[Max(s)])
    BY <1>3, <1>4 DEF IsFold
  <2> QED
    BY <1>1, <2>1
<1>6. iter = Folded(iter)
  BY <1>5
<1>7. Parsed(version) = iter[DOMAIN version]
  BY DEF Parsed, FoldLeft, MapThenFoldSet, ParseToken, NothingParsed
<1> HIDE DEF iter, step
<1> DEFINE k == [i \in 0 .. n |-> iter[1 .. i]]
<1>8. k[0] = NothingParsed
  <2>1. 1 .. 0 = {} /\ 1 .. 0 \in SUBSET DOMAIN version
    BY <1>1
  <2>2. iter[{}] = NothingParsed
    BY <1>6, <2>1
  <2> QED
    BY <1>1, <2>1, <2>2
<1>9. ASSUME NEW i \in DOMAIN version
      PROVE  k[i] = ParseToken(k[i - 1], version[i])
  <2>1. Max(1 .. i) = i
    <3>1. 1 .. i \in SUBSET Int /\ i \in 1 .. i /\ \A x \in 1 .. i : i >= x
      BY <1>1
    <3> QED
      BY <3>1, MaxIs
  <2>2. 1 .. i # {} /\ 1 .. i \in SUBSET DOMAIN version /\ (1 .. i) \ {i} = 1 .. i - 1
        /\ i - 1 \in 0 .. n /\ i \in 0 .. n
    BY <1>1
  <2>3. iter[1 .. i] = ParseToken(iter[(1 .. i) \ {Max(1 .. i)}], version[Max(1 .. i)])
    BY <1>6, <2>2
  <2> QED
    BY <2>1, <2>2, <2>3
<1>10. \A i \in 0 .. n : k[i] \in V
  <2> DEFINE Typed == {i \in 0 .. n : k[i] \in V}
  <2> HIDE DEF k, V
  <2>1. 0 \in Typed
    BY <1>1, <1>8
  <2>2. ASSUME NEW i \in 1 .. n, i - 1 \in Typed
        PROVE  i \in Typed
    BY <1>1, <1>9, <2>2, ParseTokenType DEF V
  <2> HIDE DEF Typed
  <2>3. \A i \in 0 .. n : i \in Typed
    BY <1>1, <2>1, <2>2, Induction
  <2> QED
    BY <2>3 DEF Typed
<1>11. k \in [0 .. n -> V]
  BY <1>10
<1>12. Parsed(version) = k[n]
  BY <1>1, <1>7
<1> HIDE DEF k
<1> QED
  BY <1>8, <1>9, <1>11, <1>12

LEMMA ParsedType ==
  ASSUME NEW version \in VersionTexts
  PROVE  Parsed(version) \in ParseStates
<1>1. PICK k \in [0 .. Len(version) -> ParseStates] : Parsed(version) = k[Len(version)]
  BY ParseSteps
<1>2. Len(version) \in 0 .. Len(version)
  BY DEF VersionTexts
<1> QED
  BY <1>1, <1>2

\* What is parsed of a version with one token more.
LEMMA ParsedMore ==
  ASSUME NEW version \in VersionTexts, NEW t \in VersionTokens
  PROVE  Parsed(Append(version, t)) = ParseToken(Parsed(version), t)
<1> DEFINE n == Len(version)
           longer == Append(version, t)
<1>1. n \in Nat /\ DOMAIN version = 1 .. n
  BY DEF VersionTexts
<1>2. /\ longer \in VersionTexts /\ Len(longer) = n + 1 /\ DOMAIN longer = 1 .. n + 1
      /\ longer[n + 1] = t /\ \A i \in 1 .. n : longer[i] = version[i]
  BY DEF VersionTexts
<1> HIDE DEF longer
<1>3. PICK k \in [0 .. n -> ParseStates] :
        /\ k[0] = NothingParsed
        /\ \A i \in DOMAIN version : k[i] = ParseToken(k[i - 1], version[i])
        /\ Parsed(version) = k[n]
  BY ParseSteps
<1>4. PICK m \in [0 .. n + 1 -> ParseStates] :
        /\ m[0] = NothingParsed
        /\ \A i \in DOMAIN longer : m[i] = ParseToken(m[i - 1], longer[i])
        /\ Parsed(longer) = m[n + 1]
  <2>1. PICK m \in [0 .. Len(longer) -> ParseStates] :
          /\ m[0] = NothingParsed
          /\ \A i \in DOMAIN longer : m[i] = ParseToken(m[i - 1], longer[i])
          /\ Parsed(longer) = m[Len(longer)]
    BY <1>2, ParseSteps
  <2> QED
    BY <1>2, <2>1
<1> DEFINE Same == {i \in 0 .. n : m[i] = k[i]}
<1>5. 0 \in Same
  BY <1>1, <1>3, <1>4
<1>6. ASSUME NEW i \in 1 .. n, i - 1 \in Same
      PROVE  i \in Same
  <2>1. m[i] = ParseToken(m[i - 1], longer[i]) /\ k[i] = ParseToken(k[i - 1], version[i])
    BY <1>1, <1>2, <1>3, <1>4
  <2> QED
    BY <1>1, <1>2, <1>6, <2>1
<1> HIDE DEF Same
<1>7. n \in Same
  <2>1. \A i \in 0 .. n : i \in Same
    BY <1>1, <1>5, <1>6, Induction
  <2> QED
    BY <1>1, <2>1
<1>8. m[n + 1] = ParseToken(m[(n + 1) - 1], longer[n + 1]) /\ (n + 1) - 1 = n
  BY <1>1, <1>2, <1>4
<1> QED
  BY <1>2, <1>3, <1>4, <1>7, <1>8 DEF Same, longer

LEMMA PartType ==
  ASSUME NEW version \in VersionTexts
  PROVE  /\ Parts(version) \in Seq(Nat)
         /\ \A i \in Nat \ {0} : Part(version, i) \in Nat
         /\ PreRank(version) \in Int
<1>1. Parts(version) \in Seq(Nat) /\ PreRank(version) \in Int
  BY ParsedType DEF Parts, PreRank, ParseStates
<1> HIDE DEF Parts
<1> QED
  BY <1>1 DEF Part

\* Trailing zeros are nothing to compare.
LEMMA TrailingZero ==
  ASSUME NEW version \in VersionTexts
  PROVE  LET longer == version \o <<Number(0)>>
         IN  /\ longer \in VersionTexts
             /\ \A i \in Nat \ {0} : Part(longer, i) = Part(version, i)
             /\ PreRank(longer) = PreRank(version)
<1> DEFINE longer == version \o <<Number(0)>>
<1>1. Number(0) \in VersionTokens /\ Number(0).number = 0 /\ Number(0).stage = NoStage
  BY DEF VersionTokens, Number, NoStage
<1>2. longer = Append(version, Number(0)) /\ longer \in VersionTexts
  BY <1>1 DEF VersionTexts
<1> HIDE DEF longer
<1>3. Parsed(longer) = ParseToken(Parsed(version), Number(0))
  BY <1>1, <1>2, ParsedMore
<1>4. /\ Parsed(longer).rank = Parsed(version).rank
      /\ Parsed(longer).parts = Append(Parsed(version).parts, 0)
  <2>1. NoStage \notin DOMAIN Stages
    BY DEF Stages, NoStage
  <2> QED
    BY <1>1, <1>3, <2>1 DEF ParseToken, NoNumber
<1>5. Parsed(version).parts \in Seq(Nat)
  BY ParsedType DEF ParseStates
<1>6. ASSUME NEW i \in Nat \ {0}
      PROVE  Part(longer, i) = Part(version, i)
  <2> DEFINE parts == Parsed(version).parts
  <2>1. Parts(longer) = Append(parts, 0)
    BY <1>4, <1>5 DEF Parts
  <2>2. CASE parts = <<>>
    <3>1. Parts(version) = <<0>> /\ Parts(longer) = <<0>>
      BY <2>1, <2>2 DEF Parts
    <3> QED
      BY <3>1 DEF Part
  <2>3. CASE parts # <<>>
    <3>1. Parts(version) = parts
      BY <2>3 DEF Parts
    <3> HIDE DEF parts
    <3>2. parts \in Seq(Nat)
      BY <1>5 DEF parts
    <3> QED
      BY <2>1, <3>1, <3>2 DEF Part
  <2> QED
    BY <2>2, <2>3
<1> QED
  BY <1>2, <1>4, <1>6 DEF PreRank, longer

-----------------------------------------------------------------------------
(* The order.                                                              *)

SameNumbers(a, b) == \A i \in Nat \ {0} : Part(a, i) = Part(b, i)

\* At place i the numbers of a fall below those of b for the first time.
FallsAt(a, b, i) ==
  Part(a, i) < Part(b, i) /\ \A j \in 1 .. i - 1 : Part(a, j) = Part(b, j)

Below(a, b) ==
  \/ \E i \in Nat \ {0} : FallsAt(a, b, i)
  \/ SameNumbers(a, b) /\ PreRank(a) < PreRank(b)

Equal(a, b) == SameNumbers(a, b) /\ PreRank(a) = PreRank(b)

LEMMA CompareIs ==
  ASSUME NEW a \in VersionTexts, NEW b \in VersionTexts
  PROVE  \/ Compare(a, b) = -1 /\ Below(a, b)
         \/ Compare(a, b) = 0 /\ Equal(a, b)
         \/ Compare(a, b) = 1 /\ Below(b, a)
<1> DEFINE differ == {i \in DOMAIN Parts(a) \cup DOMAIN Parts(b) : Part(a, i) # Part(b, i)}
           first == CHOOSE i \in differ : \A j \in differ : i <= j
           Sign(x, y) == IF x < y THEN -1 ELSE IF x > y THEN 1 ELSE 0
<1>1. /\ Parts(a) \in Seq(Nat) /\ Parts(b) \in Seq(Nat)
      /\ \A i \in Nat \ {0} : Part(a, i) \in Nat /\ Part(b, i) \in Nat
      /\ PreRank(a) \in Int /\ PreRank(b) \in Int
  BY PartType
<1>2. Compare(a, b) = IF differ # {} THEN Sign(Part(a, first), Part(b, first))
                      ELSE Sign(PreRank(a), PreRank(b))
  BY DEF Compare
<1>3. differ \in SUBSET Nat /\ \A i \in differ : i # 0
  BY <1>1
<1>4. \A i \in Nat \ {0} : i \notin differ => Part(a, i) = Part(b, i)
  BY DEF Part
<1>5. CASE differ # {}
  <2>1. first \in differ /\ \A j \in differ : first <= j
    <3> HIDE DEF differ
    <3>1. \E i \in differ : \A j \in differ : i <= j
      BY <1>3, <1>5, LeastNumber
    <3> QED
      BY <3>1
  <2>2. Part(a, first) # Part(b, first)
    BY <2>1
  <2> HIDE DEF differ, first
  <2>3. first \in Nat \ {0} /\ Part(a, first) \in Nat /\ Part(b, first) \in Nat
    BY <1>1, <1>3, <2>1
  <2>4. \A j \in 1 .. first - 1 : Part(a, j) = Part(b, j)
    <3> SUFFICES ASSUME NEW j \in 1 .. first - 1
                 PROVE  j \notin differ /\ j \in Nat \ {0}
      BY <1>4
    <3> QED
      BY <1>3, <2>1, <2>3
  <2>5. Compare(a, b) = Sign(Part(a, first), Part(b, first))
    BY <1>2, <1>5
  <2>6. CASE Part(a, first) < Part(b, first)
    <3>1. FallsAt(a, b, first)
      BY <2>4, <2>6 DEF FallsAt
    <3> QED
      BY <2>3, <2>5, <2>6, <3>1 DEF Below
  <2>7. CASE Part(b, first) < Part(a, first)
    <3>1. FallsAt(b, a, first)
      BY <2>4, <2>7 DEF FallsAt
    <3>2. Compare(a, b) = 1
      BY <2>3, <2>5, <2>7
    <3> QED
      BY <2>3, <3>1, <3>2 DEF Below
  <2> QED
    BY <2>2, <2>3, <2>6, <2>7
<1>6. CASE differ = {}
  <2>1. SameNumbers(a, b) /\ SameNumbers(b, a)
    BY <1>4, <1>6 DEF SameNumbers
  <2>2. Compare(a, b) = Sign(PreRank(a), PreRank(b))
    BY <1>2, <1>6
  <2> HIDE DEF differ, first
  <2> QED
    BY <1>1, <2>1, <2>2 DEF Below, Equal
<1> QED
  BY <1>5, <1>6

LEMMA BelowIsStrict ==
  ASSUME NEW a \in VersionTexts, NEW b \in VersionTexts, Below(a, b)
  PROVE  ~Below(b, a) /\ ~Equal(a, b) /\ ~Equal(b, a)
<1>1. /\ \A i \in Nat \ {0} : Part(a, i) \in Nat /\ Part(b, i) \in Nat
      /\ PreRank(a) \in Int /\ PreRank(b) \in Int
  BY PartType
<1>2. ASSUME NEW i \in Nat \ {0}, FallsAt(a, b, i)
      PROVE  ~SameNumbers(a, b) /\ ~SameNumbers(b, a) /\ ~Below(b, a)
  <2>1. Part(a, i) < Part(b, i) /\ Part(a, i) \in Nat /\ Part(b, i) \in Nat
    BY <1>1, <1>2 DEF FallsAt
  <2>2. ~SameNumbers(a, b) /\ ~SameNumbers(b, a)
    BY <2>1 DEF SameNumbers
  <2>3. ASSUME NEW k \in Nat \ {0}, FallsAt(b, a, k)
        PROVE  FALSE
    <3>1. Part(b, k) < Part(a, k) /\ Part(a, k) \in Nat /\ Part(b, k) \in Nat
      BY <1>1, <2>3 DEF FallsAt
    <3>2. i < k => Part(a, i) = Part(b, i)
      BY <2>3 DEF FallsAt
    <3>3. k < i => Part(a, k) = Part(b, k)
      BY <1>2 DEF FallsAt
    <3> QED
      BY <2>1, <3>1, <3>2, <3>3
  <2> QED
    BY <2>2, <2>3 DEF Below
<1>3. CASE SameNumbers(a, b) /\ PreRank(a) < PreRank(b)
  <2>1. ASSUME NEW k \in Nat \ {0}, FallsAt(b, a, k)
        PROVE  FALSE
    BY <1>1, <1>3, <2>1 DEF FallsAt, SameNumbers
  <2> QED
    BY <1>1, <1>3, <2>1 DEF Below, Equal
<1> QED
  BY <1>2, <1>3 DEF Below, Equal

LEMMA BelowIsTransitive ==
  ASSUME NEW a \in VersionTexts, NEW b \in VersionTexts, NEW c \in VersionTexts,
         Below(a, b), Below(b, c)
  PROVE  Below(a, c)
<1>1. /\ \A i \in Nat \ {0} : Part(a, i) \in Nat /\ Part(b, i) \in Nat /\ Part(c, i) \in Nat
      /\ PreRank(a) \in Int /\ PreRank(b) \in Int /\ PreRank(c) \in Int
  BY PartType
<1>2. ASSUME NEW i \in Nat \ {0}, FallsAt(a, b, i), NEW k \in Nat \ {0}, FallsAt(b, c, k)
      PROVE  Below(a, c)
  <2>1. /\ Part(a, i) < Part(b, i) /\ Part(a, i) \in Nat /\ Part(b, i) \in Nat
        /\ Part(b, k) < Part(c, k) /\ Part(b, k) \in Nat /\ Part(c, k) \in Nat
        /\ Part(a, k) \in Nat /\ Part(c, i) \in Nat
        /\ \A j \in 1 .. i - 1 : Part(a, j) = Part(b, j)
        /\ \A j \in 1 .. k - 1 : Part(b, j) = Part(c, j)
    BY <1>1, <1>2 DEF FallsAt
  <2>2. CASE i < k
    <3>1. Part(b, i) = Part(c, i) /\ \A j \in 1 .. i - 1 : Part(a, j) = Part(c, j)
      BY <2>1, <2>2
    <3>2. FallsAt(a, c, i)
      BY <2>1, <3>1 DEF FallsAt
    <3> QED
      BY <3>2 DEF Below
  <2>3. CASE ~(i < k)
    <3>1. \A j \in 1 .. k - 1 : Part(a, j) = Part(c, j)
      BY <2>1, <2>3
    <3>2. Part(a, k) < Part(c, k)
      <4>1. k < i => Part(a, k) = Part(b, k)
        BY <2>1
      <4> QED
        BY <2>1, <2>3, <4>1
    <3>3. FallsAt(a, c, k)
      BY <3>1, <3>2 DEF FallsAt
    <3> QED
      BY <3>3 DEF Below
  <2> QED
    BY <2>2, <2>3
<1>3. ASSUME NEW i \in Nat \ {0}, FallsAt(a, b, i), SameNumbers(b, c)
      PROVE  Below(a, c)
  <2>1. FallsAt(a, c, i)
    BY <1>3 DEF FallsAt, SameNumbers
  <2> QED
    BY <2>1 DEF Below
<1>4. ASSUME SameNumbers(a, b), NEW k \in Nat \ {0}, FallsAt(b, c, k)
      PROVE  Below(a, c)
  <2>1. FallsAt(a, c, k)
    BY <1>4 DEF FallsAt, SameNumbers
  <2> QED
    BY <2>1 DEF Below
<1>5. CASE /\ SameNumbers(a, b) /\ PreRank(a) < PreRank(b)
           /\ SameNumbers(b, c) /\ PreRank(b) < PreRank(c)
  BY <1>1, <1>5 DEF Below, SameNumbers
<1> QED
  BY <1>2, <1>3, <1>4, <1>5 DEF Below

LEMMA EqualIsNeutral ==
  ASSUME NEW a, NEW b, NEW c, Equal(a, b)
  PROVE  /\ Below(a, c) <=> Below(b, c)
         /\ Below(c, a) <=> Below(c, b)
         /\ Equal(a, c) <=> Equal(b, c)
         /\ Equal(b, a)
<1>1. SameNumbers(a, b) /\ SameNumbers(b, a) /\ PreRank(a) = PreRank(b)
  BY DEF Equal, SameNumbers
<1>2. SameNumbers(a, c) <=> SameNumbers(b, c)
  BY <1>1 DEF SameNumbers
<1>3. SameNumbers(c, a) <=> SameNumbers(c, b)
  BY <1>1 DEF SameNumbers
<1>4. \A i \in Nat \ {0} : /\ FallsAt(a, c, i) <=> FallsAt(b, c, i)
                           /\ FallsAt(c, a, i) <=> FallsAt(c, b, i)
  BY <1>1 DEF SameNumbers, FallsAt
<1> QED
  BY <1>1, <1>2, <1>3, <1>4 DEF Below, Equal

\* compare says which of the three holds, and only one does.
LEMMA CompareDecides ==
  ASSUME NEW a \in VersionTexts, NEW b \in VersionTexts
  PROVE  /\ Compare(a, b) \in {-1, 0, 1}
         /\ Compare(a, b) = -1 <=> Below(a, b)
         /\ Compare(a, b) = 0 <=> Equal(a, b)
         /\ Compare(a, b) = 1 <=> Below(b, a)
<1>1. Equal(a, b) => ~Below(a, b) /\ ~Below(b, a)
  BY BelowIsStrict
<1>2. ~(Below(a, b) /\ Below(b, a))
  BY BelowIsStrict
<1> QED
  BY <1>1, <1>2, CompareIs

\* Min is the least number of a set.
LEMMA LeastIsMin ==
  ASSUME NEW S \in SUBSET Nat, S # {}
  PROVE  Min(S) \in S /\ \A i \in S : Min(S) <= i
BY LeastNumber DEF Min

\* What a scanner makes of a declared version is a version.
LEMMA ConcreteType ==
  ASSUME NEW version \in VersionTexts
  PROVE  Concrete(version) \in VersionTexts
<1> DEFINE first == Min(Numbered(version))
           ends == {i \in first + 1 .. Len(version) + 1 : ~GoesOn(version, i)}
           stop == Min(ends)
<1>1. /\ Len(version) \in Nat /\ DOMAIN version = 1 .. Len(version)
      /\ \A i \in DOMAIN version : version[i] \in VersionTokens
  BY DEF VersionTexts
<1>2. CASE Numbered(version) = {}
  BY <1>2 DEF Concrete, VersionTexts
<1>3. CASE Numbered(version) # {}
  <2>1. first \in Numbered(version)
    <3>1. Numbered(version) \in SUBSET Nat
      BY <1>1 DEF Numbered
    <3> QED
      BY <1>3, <3>1, LeastIsMin
  <2>2. first \in 1 .. Len(version)
    BY <1>1, <2>1 DEF Numbered
  <2> HIDE DEF first
  <2>3. stop \in ends /\ \A i \in ends : stop <= i
    <3>1. ends \in SUBSET Nat
      BY <1>1, <2>2
    <3>2. Len(version) + 1 \in ends
      BY <1>1, <2>2 DEF GoesOn, Numbered
    <3> HIDE DEF ends
    <3> QED
      BY <3>1, <3>2, LeastIsMin
  <2>4. stop \in first + 1 .. Len(version) + 1
    BY <2>3
  <2>5. ASSUME NEW i \in first .. stop - 1
        PROVE  i \in Numbered(version)
    <3>1. CASE i = first
      BY <2>1, <3>1
    <3>2. CASE i # first
      <4>1. i \in first + 1 .. Len(version) + 1 /\ ~(stop <= i)
        BY <1>1, <2>2, <2>4, <3>2
      <4>2. GoesOn(version, i)
        BY <2>3, <4>1
      <4> QED
        BY <4>2 DEF GoesOn
    <3> QED
      BY <3>1, <3>2
  <2>6. Concrete(version) = [k \in 1 .. stop - first |-> Number(version[first + k - 1].number)]
    BY <1>3 DEF Concrete, first
  <2> HIDE DEF stop
  <2>7. stop - first \in Nat
    BY <1>1, <2>2, <2>4
  <2>8. ASSUME NEW k \in 1 .. stop - first
        PROVE  Number(version[first + k - 1].number) \in VersionTokens
    <3>1. first + k - 1 \in first .. stop - 1
      BY <1>1, <2>2, <2>4
    <3>2. first + k - 1 \in Numbered(version)
      BY <2>5, <3>1
    <3> DEFINE number == version[first + k - 1].number
    <3>3. number \in Nat
      BY <1>1, <3>2 DEF Numbered, VersionTokens
    <3> QED
      BY <3>3 DEF VersionTokens, Number
  <2> QED
    BY <2>6, <2>7, <2>8 DEF VersionTexts
<1> QED
  BY <1>2, <1>3

\* Versions are in an order that trailing zeros do not touch, and a dependency
\* is reported against every fix that is no earlier than one it is reported
\* against: for versions of any length, with stages anywhere in them.
THEOREM VersionsInOrder ==
  \A a, b, c \in VersionTexts : AdvisoriesFollowTheOrder(a, b, c)
<1> SUFFICES ASSUME NEW a \in VersionTexts, NEW b \in VersionTexts, NEW c \in VersionTexts
             PROVE  AdvisoriesFollowTheOrder(a, b, c)
  OBVIOUS
<1>1. Compare(a, b) = -Compare(b, a)
  <2>1. /\ Compare(b, a) = -1 <=> Below(b, a)
        /\ Compare(b, a) = 1 <=> Below(a, b)
        /\ Compare(b, a) \in {-1, 0, 1}
    BY CompareDecides
  <2>2. /\ Compare(a, b) = -1 <=> Below(a, b)
        /\ Compare(a, b) = 1 <=> Below(b, a)
        /\ Compare(a, b) \in {-1, 0, 1}
    BY CompareDecides
  <2> QED
    BY <2>1, <2>2
<1>2. ASSUME NEW x \in VersionTexts, NEW y \in VersionTexts, NEW z \in VersionTexts,
             Compare(x, y) <= 0, Compare(y, z) <= 0
      PROVE  Compare(x, z) <= 0 /\ (Compare(x, y) < 0 => Compare(x, z) < 0)
  <2>1. Below(x, y) \/ Equal(x, y)
    BY <1>2, CompareDecides
  <2>2. Below(y, z) \/ Equal(y, z)
    BY <1>2, CompareDecides
  <2>3. Compare(x, y) < 0 => Below(x, y)
    BY <1>2, CompareDecides
  <2>4. CASE Below(x, y)
    <3>1. Below(x, z)
      BY <2>2, <2>4, BelowIsTransitive, EqualIsNeutral
    <3>2. Compare(x, z) = -1
      BY <3>1, CompareDecides
    <3> QED
      BY <3>2
  <2>5. CASE Equal(x, y) /\ ~Below(x, y)
    <3>1. Below(x, z) \/ Equal(x, z)
      BY <2>2, <2>5, EqualIsNeutral
    <3>2. Compare(x, z) = -1 \/ Compare(x, z) = 0
      BY <3>1, CompareDecides
    <3> QED
      BY <2>3, <2>5, <3>2
  <2> QED
    BY <2>1, <2>4, <2>5
<1>3. Compare(a, b) = 0 => Compare(a, c) = Compare(b, c)
  <2> SUFFICES ASSUME Compare(a, b) = 0
               PROVE  Compare(a, c) = Compare(b, c)
    OBVIOUS
  <2>1. Equal(a, b)
    BY CompareDecides
  <2>2. /\ Below(a, c) <=> Below(b, c)
        /\ Below(c, a) <=> Below(c, b)
        /\ Equal(a, c) <=> Equal(b, c)
    BY <2>1, EqualIsNeutral
  <2>3. /\ Compare(a, c) = -1 <=> Below(a, c)
        /\ Compare(a, c) = 1 <=> Below(c, a)
        /\ Compare(a, c) \in {-1, 0, 1}
    BY CompareDecides
  <2>4. /\ Compare(b, c) = -1 <=> Below(b, c)
        /\ Compare(b, c) = 1 <=> Below(c, b)
        /\ Compare(b, c) \in {-1, 0, 1}
    BY CompareDecides
  <2> QED
    BY <2>2, <2>3, <2>4
<1>4. Compare(a \o <<Number(0)>>, b) = Compare(a, b)
  <2> DEFINE longer == a \o <<Number(0)>>
  <2>1. longer \in VersionTexts /\ Equal(longer, a)
    BY TrailingZero DEF Equal, SameNumbers
  <2> HIDE DEF longer
  <2>2. /\ Below(longer, b) <=> Below(a, b)
        /\ Below(b, longer) <=> Below(b, a)
    BY <2>1, EqualIsNeutral
  <2>3. /\ Compare(longer, b) = -1 <=> Below(longer, b)
        /\ Compare(longer, b) = 1 <=> Below(b, longer)
        /\ Compare(longer, b) \in {-1, 0, 1}
    BY <2>1, CompareDecides
  <2>4. /\ Compare(a, b) = -1 <=> Below(a, b)
        /\ Compare(a, b) = 1 <=> Below(b, a)
        /\ Compare(a, b) \in {-1, 0, 1}
    BY CompareDecides
  <2>5. Compare(longer, b) = Compare(a, b)
    BY <2>2, <2>3, <2>4
  <2> QED
    BY <2>5 DEF longer
<1>5. ASSUME Compare(b, c) <= 0, NEW form \in SpecForms
      PROVE  LET spec == [form |-> form, version |-> a]
             IN  DependencyFindings(spec, Fixed(b)) \subseteq DependencyFindings(spec, Fixed(c))
  <2> DEFINE spec == [form |-> form, version |-> a]
             at == Concrete(a)
  <2>1. at \in VersionTexts
    BY ConcreteType
  <2> HIDE DEF at
  <2>2. ASSUME NEW bound
        PROVE  SatisfiesVulnerable(at, {[op |-> "<", bound |-> bound]}) <=>
                 Compare(at, bound) < 0
    BY DEF SatisfiesVulnerable, Within
  <2>3. Compare(at, b) < 0 => Compare(at, c) < 0
    <3>1. Compare(at, b) \in {-1, 0, 1}
      BY <2>1, CompareDecides
    <3> QED
      BY <1>2, <1>5, <2>1, <3>1
  <2>4. SatisfiesVulnerable(at, {[op |-> "<", bound |-> b]}) =>
          SatisfiesVulnerable(at, {[op |-> "<", bound |-> c]})
    BY <2>2, <2>3
  <2> DEFINE advisory(bound) ==
               [id |-> "advisory", vulnerable |-> {[op |-> "<", bound |-> bound]}]
             matched(bound) ==
               {[rule |-> x.id, confidence |-> IF Exact(spec) THEN "high" ELSE "medium"] :
                  x \in {y \in Fixed(bound) : SatisfiesVulnerable(at, y.vulnerable)}}
  <2>5. matched(b) \subseteq matched(c)
    <3>1. ASSUME NEW bound
          PROVE  Fixed(bound) = {advisory(bound)} /\ advisory(bound).id = "advisory"
                 /\ advisory(bound).vulnerable = {[op |-> "<", bound |-> bound]}
      BY DEF Fixed
    <3> DEFINE confidence == IF Exact(spec) THEN "high" ELSE "medium"
               found == [rule |-> "advisory", confidence |-> confidence]
    <3> HIDE DEF advisory, confidence
    <3>2. ASSUME NEW bound, NEW x
          PROVE  x \in matched(bound) <=>
                   /\ SatisfiesVulnerable(at, {[op |-> "<", bound |-> bound]})
                   /\ x = found
      <4>1. x \in matched(bound) <=>
              \E y \in {y \in Fixed(bound) : SatisfiesVulnerable(at, y.vulnerable)} :
                 x = [rule |-> y.id, confidence |-> confidence]
        BY DEF confidence
      <4>2. (\E y \in {y \in Fixed(bound) : SatisfiesVulnerable(at, y.vulnerable)} :
               x = [rule |-> y.id, confidence |-> confidence])
              <=> /\ SatisfiesVulnerable(at, advisory(bound).vulnerable)
                  /\ x = [rule |-> advisory(bound).id, confidence |-> confidence]
        <5>1. Fixed(bound) = {advisory(bound)}
          BY <3>1
        <5>2. {y \in Fixed(bound) : SatisfiesVulnerable(at, y.vulnerable)} =
                IF SatisfiesVulnerable(at, advisory(bound).vulnerable)
                THEN {advisory(bound)} ELSE {}
          BY <5>1
        <5> QED
          BY <5>2
      <4>3. /\ advisory(bound).vulnerable = {[op |-> "<", bound |-> bound]}
            /\ [rule |-> advisory(bound).id, confidence |-> confidence] = found
        BY <3>1
      <4> HIDE DEF matched, found
      <4> QED
        BY <4>1, <4>2, <4>3
    <3>3. ASSUME NEW x \in matched(b)
          PROVE  x \in matched(c)
      BY <2>4, <3>2, <3>3
    <3> QED
      BY <3>3
  <2>6. spec.version = a /\ spec.form = form
    OBVIOUS
  <2>7. ASSUME NEW bound
        PROVE  DependencyFindings(spec, Fixed(bound)) =
                 (IF spec.form # "floating" /\ at # <<>> THEN matched(bound) ELSE {})
                 \cup (IF spec.form = "floating"
                       THEN {[rule |-> "dep.floating-version", confidence |-> "high"]} ELSE {})
    BY <2>6 DEF DependencyFindings, at
  <2> HIDE DEF matched
  <2> QED
    BY <2>5, <2>7
<1> QED
  BY <1>1, <1>2, <1>3, <1>4, <1>5 DEF AdvisoriesFollowTheOrder

-----------------------------------------------------------------------------
\* Whatever is declared and however the advisory is revised, it is matched by an
\* order, and a revision to a later version takes no finding away.
THEOREM RevisionsKeepFindings == VersionsSpec => []AdvisoriesAreMonotone
<1> DEFINE Inv == /\ declared \in SUBSET VersionTexts
                  /\ fixedBefore \in VersionTexts /\ fixedIn \in VersionTexts
<1>1. VersionsInit => Inv
  BY ReleasesAssumption DEF VersionsInit, VersionTexts
<1>2. Inv /\ [VersionsNext]_versionVars => Inv'
  <2> SUFFICES ASSUME Inv, [VersionsNext]_versionVars
               PROVE  Inv'
    OBVIOUS
  <2>1. CASE Declare
    BY <2>1, ReleasesAssumption DEF Declare, VersionTexts
  <2>2. CASE Revise
    BY <2>2, ReleasesAssumption DEF Revise, VersionTexts
  <2>3. CASE UNCHANGED versionVars
    BY <2>3 DEF versionVars
  <2> QED
    BY <2>1, <2>2, <2>3 DEF VersionsNext
<1>3. Inv => AdvisoriesAreMonotone
  BY VersionsInOrder DEF AdvisoriesAreMonotone
<1> QED
  BY <1>1, <1>2, <1>3, PTL DEF VersionsSpec

-----------------------------------------------------------------------------
(***************************************************************************)
(* The surface.  A file is its handlers one after the other; the block in  *)
(* front of a registration ends in its own handler downwards, and upwards  *)
(* it meets only lines of others that say nothing.                         *)
(***************************************************************************)

\* Where each handler ends in the file they make.
AddsUp(handlers, end) ==
  end = [i \in 0 .. Len(handlers) |-> IF i = 0 THEN 0 ELSE end[i - 1] + Len(handlers[i])]

LaidOut(handlers, file, end) ==
  /\ end[0] = 0
  /\ \A i \in 1 .. Len(handlers) : end[i] = end[i - 1] + Len(handlers[i])
  /\ \A i \in 0 .. Len(handlers) : \A k \in 0 .. i : end[k] \in Nat /\ end[k] <= end[i]
  /\ DOMAIN file = 1 .. end[Len(handlers)]
  /\ \A i \in 1 .. Len(handlers) : \A m \in 1 .. Len(handlers[i]) :
       file[end[i - 1] + m] = handlers[i][m]

LEMMA EndsAre ==
  ASSUME NEW S, NEW handlers \in Seq(Seq(S)), NEW end, AddsUp(handlers, end)
  PROVE  /\ end[0] = 0
         /\ \A i \in 1 .. Len(handlers) : end[i] = end[i - 1] + Len(handlers[i])
         /\ \A i \in 0 .. Len(handlers) : \A k \in 0 .. i : end[k] \in Nat /\ end[k] <= end[i]
<1> DEFINE n == Len(handlers)
           Grows == {i \in 0 .. n : \A k \in 0 .. i : end[k] \in Nat /\ end[k] <= end[i]}
<1>1. n \in Nat /\ \A i \in 1 .. n : Len(handlers[i]) \in Nat
  <2>1. ASSUME NEW i \in 1 .. n
        PROVE  handlers[i] \in Seq(S)
    OBVIOUS
  <2> QED
    BY <2>1
<1>2. end[0] = 0
  BY <1>1 DEF AddsUp
<1>3. ASSUME NEW i \in 1 .. n
      PROVE  end[i] = end[i - 1] + Len(handlers[i])
  <2>1. i \in 0 .. n /\ i # 0
    BY <1>1
  <2> QED
    BY <2>1 DEF AddsUp
<1>4. 0 \in Grows
  BY <1>1, <1>2
<1>5. ASSUME NEW i \in 1 .. n, i - 1 \in Grows
      PROVE  i \in Grows
  <2>1. \A k \in 0 .. i - 1 : end[k] \in Nat /\ end[k] <= end[i - 1]
    BY <1>5
  <2>2. i - 1 \in 0 .. i - 1 /\ \A k \in 0 .. i : k # i => k \in 0 .. i - 1
    BY <1>1
  <2>3. end[i - 1] \in Nat /\ end[i] \in Nat /\ end[i - 1] <= end[i]
    <3>1. end[i - 1] \in Nat
      BY <2>1, <2>2
    <3>2. end[i] = end[i - 1] + Len(handlers[i]) /\ Len(handlers[i]) \in Nat
      BY <1>1, <1>3
    <3> QED
      BY <3>1, <3>2
  <2>4. ASSUME NEW k \in 0 .. i
        PROVE  end[k] \in Nat /\ end[k] <= end[i]
    BY <2>1, <2>2, <2>3
  <2> QED
    BY <1>1, <2>4
<1>6. \A i \in 0 .. n : i \in Grows
  <2> HIDE DEF Grows
  <2> QED
    BY <1>1, <1>4, <1>5, Induction
<1> QED
  BY <1>2, <1>3, <1>6

LEMMA OffsetInside ==
  ASSUME NEW e \in Nat, NEW l \in Nat, NEW y \in Nat, ~(y <= e), y <= e + l
  PROVE  y - e \in 1 .. l /\ e + (y - e) = y
OBVIOUS

LEMMA LineInside ==
  ASSUME NEW a \in Nat, NEW b \in Nat, NEW c \in Nat, NEW k \in Nat, b = a + k, b <= c,
         NEW m \in 1 .. k
  PROVE  a + m \in 1 .. c /\ a + m <= b
OBVIOUS

\* The function of the offsets is the one its equation picks.
LEMMA EndsExist ==
  ASSUME NEW S, NEW handlers \in Seq(Seq(S))
  PROVE  \E end : AddsUp(handlers, end)
<1> DEFINE n == Len(handlers)
           step == [p \in (1 .. n) \X Nat |-> p[2] + Len(handlers[p[1]])]
<1>1. n \in Nat /\ \A i \in 1 .. n : Len(handlers[i]) \in Nat
  <2>1. ASSUME NEW i \in 1 .. n
        PROVE  handlers[i] \in Seq(S)
    OBVIOUS
  <2> QED
    BY <2>1
<1>2. step \in [(1 .. n) \X Nat -> Nat]
  BY <1>1
<1>3. PICK g \in [0 .. n -> Nat] : IsChain(g, n, 0, step)
  <2> HIDE DEF step, n
  <2> QED
    BY <1>1, <1>2, Chain
<1>4. \A i \in 0 .. n : i # 0 => i \in 1 .. n /\ i - 1 \in 0 .. n
  BY <1>1
<1>5. ASSUME NEW i \in 0 .. n, i # 0
      PROVE  step[<<i, g[i - 1]>>] = g[i - 1] + Len(handlers[i])
  BY <1>3, <1>4, <1>5
<1>6. \A i \in 0 .. n : g[i] = IF i = 0 THEN 0 ELSE g[i - 1] + Len(handlers[i])
  BY <1>3, <1>5 DEF IsChain
<1> QED
  BY <1>3, <1>6 DEF AddsUp

LEMMA ConcatIs ==
  ASSUME NEW S, NEW s \in Seq(S), NEW t \in Seq(S)
  PROVE  /\ s \o t \in Seq(S) /\ Len(s \o t) = Len(s) + Len(t)
         /\ \A m \in 1 .. Len(s) : (s \o t)[m] = s[m]
         /\ \A m \in 1 .. Len(t) : (s \o t)[Len(s) + m] = t[m]
OBVIOUS

LEMMA FlattenIs ==
  ASSUME NEW S, NEW handlers \in Seq(Seq(S)), NEW end, AddsUp(handlers, end)
  PROVE  LaidOut(handlers, FlattenSeq(handlers), end) /\ FlattenSeq(handlers) \in Seq(S)
<1> DEFINE n == Len(handlers)
           V == Seq(S)
           base == [i \in 1 .. n |-> handlers[i]]
           step == [p \in (1 .. n) \X V |-> p[2] \o handlers[p[1]]]
           prev == [i \in 1 .. n |-> i - 1]
           Joined(g) == [i \in 1 .. Len(handlers) |->
                           IF i = 1 THEN handlers[i] ELSE g[i - 1] \o handlers[i]]
           flatten == CHOOSE g : g = Joined(g)
<1>1. n \in Nat /\ DOMAIN handlers = 1 .. n /\ \A i \in 1 .. n : handlers[i] \in V
  OBVIOUS
<1>2. /\ base \in [1 .. n -> V] /\ step \in [(1 .. n) \X V -> V]
      /\ prev \in [1 .. n -> Nat] /\ \A i \in 1 .. n : prev[i] < i
  BY <1>1
<1>3. PICK g \in [1 .. n -> V] : IsRecursion(g, n, base, step, prev)
  <2> HIDE DEF n, V, base, step, prev
  <2> QED
    BY <1>1, <1>2, Recursion
<1>4. ASSUME NEW i \in 1 .. n
      PROVE  g[i] = IF i = 1 THEN handlers[i] ELSE g[i - 1] \o handlers[i]
  <2>1. g[i] = IF prev[i] = 0 THEN base[i] ELSE step[<<i, g[prev[i]]>>]
    BY <1>3 DEF IsRecursion
  <2>2. prev[i] = i - 1 /\ (prev[i] = 0 <=> i = 1) /\ base[i] = handlers[i]
    BY <1>1
  <2>3. i # 1 => g[i - 1] \in V
    <3>1. i # 1 => i - 1 \in 1 .. n
      BY <1>1
    <3> HIDE DEF V, n
    <3> QED
      BY <1>3, <3>1
  <2>4. i # 1 => step[<<i, g[i - 1]>>] = g[i - 1] \o handlers[i]
    BY <2>3
  <2> HIDE DEF base, step, prev
  <2> QED
    BY <2>1, <2>2, <2>4
<1>5. g = Joined(g)
  BY <1>3, <1>4
<1>6. flatten = Joined(flatten)
  BY <1>5
<1>7. FlattenSeq(handlers) = IF n = 0 THEN handlers ELSE flatten[n]
  BY DEF FlattenSeq
<1> HIDE DEF flatten, base, step, prev
<1>8. \A i \in 1 .. n :
        flatten[i] = IF i = 1 THEN handlers[i] ELSE flatten[i - 1] \o handlers[i]
  BY <1>6
<1>9. /\ end[0] = 0
      /\ \A i \in 1 .. n : end[i] = end[i - 1] + Len(handlers[i])
      /\ \A i \in 0 .. n : \A k \in 0 .. i : end[k] \in Nat /\ end[k] <= end[i]
  BY EndsAre
<1> DEFINE Fits(i) == /\ flatten[i] \in V /\ Len(flatten[i]) = end[i]
                      /\ \A k \in 1 .. i : \A m \in 1 .. Len(handlers[k]) :
                           flatten[i][end[k - 1] + m] = handlers[k][m]
           Good == {i \in 0 .. n : i # 0 => Fits(i)}
<1>10. ASSUME NEW i \in 1 .. n, i # 1 => Fits(i - 1)
       PROVE  Fits(i)
  <2>1. handlers[i] \in V /\ Len(handlers[i]) \in Nat /\ end[i] = end[i - 1] + Len(handlers[i])
    BY <1>1, <1>9
  <2>2. CASE i = 1
    <3>1. flatten[i] = handlers[i] /\ end[i - 1] = 0 /\ end[i] = Len(handlers[i])
      BY <1>8, <1>9, <2>1, <2>2
    <3>2. \A k \in 1 .. i : k = i
      BY <2>2
    <3>3. flatten[i] \in V /\ Len(flatten[i]) = end[i]
      BY <2>1, <3>1
    <3>4. ASSUME NEW m \in 1 .. Len(handlers[i])
          PROVE  flatten[i][end[i - 1] + m] = handlers[i][m]
      <4>1. end[i - 1] + m = m
        BY <2>1, <3>1
      <4> QED
        BY <3>1, <4>1
    <3>5. \A k \in 1 .. i : \A m \in 1 .. Len(handlers[k]) :
            flatten[i][end[k - 1] + m] = handlers[k][m]
      BY <3>2, <3>4
    <3> QED
      BY <3>3, <3>5
  <2>3. CASE i # 1
    <3>1. flatten[i] = flatten[i - 1] \o handlers[i] /\ Fits(i - 1)
      BY <1>8, <1>10, <2>3
    <3> DEFINE before == flatten[i - 1]
    <3>2. before \in V /\ Len(before) \in Nat /\ Len(before) = end[i - 1]
      BY <3>1
    <3>3. flatten[i] = before \o handlers[i]
      BY <3>1
    <3>4. \A k \in 1 .. i - 1 : \A m \in 1 .. Len(handlers[k]) :
            before[end[k - 1] + m] = handlers[k][m]
      BY <3>1
    <3> HIDE DEF before, Fits
    <3>5. flatten[i] \in V /\ Len(flatten[i]) = end[i]
      <4>1. before \o handlers[i] \in V
            /\ Len(before \o handlers[i]) = Len(before) + Len(handlers[i])
        BY <2>1, <3>2, ConcatIs
      <4> QED
        BY <2>1, <3>2, <3>3, <4>1
    <3>6. ASSUME NEW k \in 1 .. i, NEW m \in 1 .. Len(handlers[k])
          PROVE  flatten[i][end[k - 1] + m] = handlers[k][m]
      <4>1. CASE k = i
        <5>1. end[k - 1] = Len(before) /\ m \in 1 .. Len(handlers[i])
          BY <3>2, <4>1
        <5>2. \A q \in 1 .. Len(handlers[i]) :
                (before \o handlers[i])[Len(before) + q] = handlers[i][q]
          <6>1. before \in Seq(S) /\ handlers[i] \in Seq(S)
            BY <2>1, <3>2
          <6> HIDE DEF V
          <6>2. \A m_ \in 1 .. Len(handlers[i]) :
                  (before \o handlers[i])[Len(before) + m_] = handlers[i][m_]
            BY <6>1, ConcatIs
          <6> QED
            BY <6>2
        <5> QED
          BY <3>3, <4>1, <5>1, <5>2, Zenon
      <4>2. CASE k # i
        <5>1. k \in 1 .. i - 1 /\ k \in 1 .. n /\ k - 1 \in 0 .. k /\ k \in 0 .. i - 1
              /\ i - 1 \in 0 .. n /\ k \in 0 .. n
          BY <1>1, <4>2
        <5>2. end[k - 1] \in Nat /\ end[k] = end[k - 1] + Len(handlers[k]) /\ end[k] <= end[i - 1]
          BY <1>9, <5>1
        <5>3. handlers[k] \in V /\ Len(handlers[k]) \in Nat
          BY <1>1, <5>1
        <5>4. end[k - 1] + m \in 1 .. Len(before)
          <6>1. /\ end[k - 1] \in Nat /\ end[k] \in Nat /\ Len(handlers[k]) \in Nat
                /\ Len(before) \in Nat /\ end[k] = end[k - 1] + Len(handlers[k])
                /\ end[k] <= Len(before)
            BY <3>2, <5>2, <5>3
          <6> QED
            BY <6>1, LineInside, Zenon
        <5>5. flatten[i][end[k - 1] + m] = before[end[k - 1] + m]
          <6>1. before \in Seq(S) /\ handlers[i] \in Seq(S)
            BY <2>1, <3>2
          <6> HIDE DEF V
          <6>2. \A q \in 1 .. Len(before) : (before \o handlers[i])[q] = before[q]
            BY <6>1, ConcatIs
          <6>3. (before \o handlers[i])[end[k - 1] + m] = before[end[k - 1] + m]
            BY <5>4, <6>2, Zenon
          <6> QED
            BY <3>3, <6>3, Zenon
        <5> QED
          BY <3>4, <5>1, <5>5
      <4> QED
        BY <4>1, <4>2
    <3> QED
      BY <3>5, <3>6 DEF Fits
  <2> QED
    BY <2>2, <2>3
<1>11. n # 0 => Fits(n)
  <2> HIDE DEF Fits
  <2>1. 0 \in Good
    BY <1>1
  <2>2. ASSUME NEW i \in 1 .. n, i - 1 \in Good
        PROVE  i \in Good
    BY <1>1, <1>10, <2>2
  <2> HIDE DEF Good
  <2>3. \A i \in 0 .. n : i \in Good
    BY <1>1, <2>1, <2>2, Induction
  <2>4. n \in Good
    BY <1>1, <2>3
  <2> QED
    BY <2>4 DEF Good
<1>12. CASE n = 0
  <2>1. FlattenSeq(handlers) = handlers /\ end[n] = 0 /\ DOMAIN handlers = 1 .. 0
    BY <1>1, <1>7, <1>9, <1>12
  <2>2. \A i \in 1 .. n : FALSE
    BY <1>12
  <2>3. handlers \in Seq(S)
    BY <1>12
  <2> HIDE DEF n
  <2> QED
    BY <1>9, <2>1, <2>2, <2>3 DEF LaidOut, n
<1>13. CASE n # 0
  <2>1. FlattenSeq(handlers) = flatten[n] /\ flatten[n] \in V
    BY <1>7, <1>11, <1>13
  <2>2. /\ DOMAIN FlattenSeq(handlers) = 1 .. end[n]
        /\ \A k \in 1 .. n : \A m \in 1 .. Len(handlers[k]) :
             FlattenSeq(handlers)[end[k - 1] + m] = handlers[k][m]
    BY <1>7, <1>11, <1>13
  <2> QED
    BY <1>9, <2>1, <2>2 DEF LaidOut
<1> QED
  BY <1>12, <1>13

-----------------------------------------------------------------------------
(* What stands in front of a registration.                                 *)

Climbs(lines_, at, i) ==
  \A j \in i .. at - 1 :
    j \in DOMAIN lines_ /\ lines_[j].shape \in {"decorator", "comment", "blank"}

Descends(lines_, at, i) ==
  \A j \in at + 1 .. i : j \in DOMAIN lines_ /\ lines_[j].shape \in {"decorator", "blank"}

InBlock(lines_, at, i) ==
  \/ i = at
  \/ i \in at - Radius .. at - 1 /\ Climbs(lines_, at, i)
  \/ i \in at + 1 .. at + Radius /\ Descends(lines_, at, i)
  \/ /\ i \in at + 1 .. at + Radius /\ Descends(lines_, at, i - 1)
     /\ i \in DOMAIN lines_ /\ lines_[i].shape = "def"

LEMMA BlockIs ==
  ASSUME NEW lines_, NEW at, NEW i
  PROVE  i \in DecoratorBlock(lines_, at) <=> InBlock(lines_, at, i)
BY DEF DecoratorBlock, InBlock, Climbs, Descends

\* A handler and the file it is part of: its lines are those after `start`, and
\* what of the lines above reaches down to it says nothing.
PartOf(handler, file, start) ==
  /\ start \in Nat
  /\ file \in Seq(SourceLines)
  /\ \A m \in DOMAIN handler : start + m \in DOMAIN file /\ file[start + m] = handler[m]
  /\ \A i \in 1 .. start :
       (\A j \in i .. start :
          j \in DOMAIN file /\ file[j].shape \in {"decorator", "comment", "blank"})
         => file[i].marks = {}

\* The block in the file is the block in the handler, and lines that say
\* nothing.
LEMMA BlockInHandler ==
  ASSUME NEW handler \in Seq(SourceLines), SelfContained(handler), NEW file, NEW start,
         PartOf(handler, file, start), NEW m \in DOMAIN handler,
         handler[m].route # NoRoute, ~handler[m].route.callStyle
  PROVE  /\ \A x \in DecoratorBlock(handler, m) :
              x \in DOMAIN handler /\ start + x \in DecoratorBlock(file, start + m)
         /\ \A y \in DecoratorBlock(file, start + m) :
              \/ y - start \in DecoratorBlock(handler, m) /\ start + (y - start) = y
              \/ file[y].marks = {}
<1>1. /\ start \in Nat /\ Len(handler) \in Nat /\ DOMAIN handler = 1 .. Len(handler)
      /\ m \in 1 .. Len(handler) /\ Radius \in Nat
  BY RadiusAssumption DEF PartOf
<1>2. PICK n \in Nat : DOMAIN file = 1 .. n
  BY DEF PartOf
<1>3. \A x \in DOMAIN handler : start + x \in DOMAIN file /\ file[start + x] = handler[x]
  BY DEF PartOf
<1>4. PICK s \in DOMAIN handler : s > m /\ handler[s].shape \notin {"decorator", "blank"}
  BY DEF SelfContained
<1>5. ASSUME NEW x, InBlock(handler, m, x)
      PROVE  x \in DOMAIN handler /\ InBlock(file, start + m, start + x)
  <2>1. CASE x = m
    BY <1>1, <2>1 DEF InBlock
  <2>2. CASE x \in m - Radius .. m - 1 /\ Climbs(handler, m, x)
    <3>1. x \in Int /\ x \in DOMAIN handler
      BY <1>1, <2>2 DEF Climbs
    <3>2. ASSUME NEW j \in start + x .. (start + m) - 1
          PROVE  j \in DOMAIN file /\ file[j].shape \in {"decorator", "comment", "blank"}
      <4>1. j - start \in x .. m - 1 /\ start + (j - start) = j
        BY <1>1, <3>1
      <4>2. j - start \in DOMAIN handler
            /\ handler[j - start].shape \in {"decorator", "comment", "blank"}
        BY <2>2, <4>1 DEF Climbs
      <4>3. start + (j - start) \in DOMAIN file /\ file[start + (j - start)] = handler[j - start]
        BY <1>3, <4>2
      <4> QED
        BY <4>1, <4>2, <4>3
    <3>3. start + x \in (start + m) - Radius .. (start + m) - 1
      BY <1>1, <2>2, <3>1
    <3> QED
      BY <3>1, <3>2, <3>3 DEF InBlock, Climbs
  <2>3. ASSUME NEW z \in m .. m + Radius, Descends(handler, m, z)
        PROVE  Descends(file, start + m, start + z) /\ z < s
    <3>1. ASSUME NEW j \in (start + m) + 1 .. start + z
          PROVE  j \in DOMAIN file /\ file[j].shape \in {"decorator", "blank"}
      <4>1. j - start \in m + 1 .. z /\ start + (j - start) = j
        BY <1>1
      <4>2. j - start \in DOMAIN handler /\ handler[j - start].shape \in {"decorator", "blank"}
        BY <2>3, <4>1 DEF Descends
      <4>3. start + (j - start) \in DOMAIN file /\ file[start + (j - start)] = handler[j - start]
        BY <1>3, <4>2
      <4> QED
        BY <4>1, <4>2, <4>3
    <3>2. s \notin m + 1 .. z
      BY <1>4, <2>3 DEF Descends
    <3>3. z < s
      BY <1>1, <1>4, <3>2
    <3> QED
      BY <3>1, <3>3 DEF Descends
  <2>4. CASE x \in m + 1 .. m + Radius /\ Descends(handler, m, x)
    <3>1. x \in m .. m + Radius /\ x \in Int /\ x \in m + 1 .. x
      BY <1>1, <2>4
    <3>2. Descends(file, start + m, start + x) /\ x \in DOMAIN handler
      BY <2>3, <2>4, <3>1 DEF Descends
    <3>3. start + x \in (start + m) + 1 .. (start + m) + Radius
      BY <1>1, <2>4
    <3> QED
      BY <3>2, <3>3 DEF InBlock
  <2>5. CASE /\ x \in m + 1 .. m + Radius /\ Descends(handler, m, x - 1)
             /\ x \in DOMAIN handler /\ handler[x].shape = "def"
    <3>1. x - 1 \in m .. m + Radius /\ x \in Int /\ start + (x - 1) = (start + x) - 1
      BY <1>1, <2>5
    <3>2. Descends(file, start + m, (start + x) - 1)
      BY <2>3, <2>5, <3>1
    <3>3. start + x \in (start + m) + 1 .. (start + m) + Radius
      BY <1>1, <2>5
    <3>4. start + x \in DOMAIN file /\ file[start + x].shape = "def"
      BY <1>3, <2>5
    <3> QED
      BY <2>5, <3>2, <3>3, <3>4 DEF InBlock
  <2> QED
    BY <1>5, <2>1, <2>2, <2>4, <2>5 DEF InBlock
<1>6. ASSUME NEW y, InBlock(file, start + m, y)
      PROVE  \/ InBlock(handler, m, y - start) /\ start + (y - start) = y
             \/ file[y].marks = {}
  <2>1. CASE y = start + m
    <3>1. y - start = m /\ start + (y - start) = y
      BY <1>1, <2>1
    <3> QED
      BY <3>1 DEF InBlock
  <2>2. CASE y \in (start + m) - Radius .. (start + m) - 1 /\ Climbs(file, start + m, y)
    <3>1. y \in Int /\ y \in DOMAIN file
      BY <1>1, <2>2 DEF Climbs
    <3>2. CASE y > start
      <4>1. /\ y - start \in m - Radius .. m - 1 /\ start + (y - start) = y
        BY <1>1, <2>2, <3>1
      <4>2. ASSUME NEW j \in y - start .. m - 1
            PROVE  j \in DOMAIN handler
                   /\ handler[j].shape \in {"decorator", "comment", "blank"}
        <5>1. j \in 1 .. Len(handler) /\ start + j \in y .. (start + m) - 1
          BY <1>1, <3>1, <3>2
        <5>2. file[start + j].shape \in {"decorator", "comment", "blank"}
          BY <2>2, <5>1 DEF Climbs
        <5> QED
          BY <1>1, <1>3, <5>1, <5>2
      <4> QED
        BY <4>1, <4>2 DEF InBlock, Climbs
    <3>3. CASE ~(y > start)
      <4>1. y \in 1 .. start
        BY <1>1, <1>2, <3>1, <3>3
      <4>2. ASSUME NEW j \in y .. start
            PROVE  j \in DOMAIN file /\ file[j].shape \in {"decorator", "comment", "blank"}
        <5>1. j \in y .. (start + m) - 1
          BY <1>1, <3>1
        <5> QED
          BY <2>2, <5>1 DEF Climbs
      <4> QED
        BY <4>1, <4>2 DEF PartOf
    <3> QED
      BY <3>2, <3>3
  <2>3. ASSUME NEW z \in start + m .. (start + m) + Radius, Descends(file, start + m, z)
        PROVE  Descends(handler, m, z - start) /\ z - start < s
    <3>1. ~(start + s <= z)
      <4> SUFFICES ASSUME start + s <= z
                   PROVE  FALSE
        OBVIOUS
      <4>1. start + s \in (start + m) + 1 .. z
        BY <1>1, <1>4
      <4>2. file[start + s].shape \in {"decorator", "blank"}
        BY <2>3, <4>1 DEF Descends
      <4> QED
        BY <1>3, <1>4, <4>2
    <3>2. z - start < s /\ z \in Int
      BY <1>1, <1>4, <3>1
    <3>3. ASSUME NEW j \in m + 1 .. z - start
          PROVE  j \in DOMAIN handler /\ handler[j].shape \in {"decorator", "blank"}
      <4>1. j \in 1 .. Len(handler) /\ start + j \in (start + m) + 1 .. z
        BY <1>1, <1>4, <3>2
      <4>2. file[start + j].shape \in {"decorator", "blank"}
        BY <2>3, <4>1 DEF Descends
      <4> QED
        BY <1>1, <1>3, <4>1, <4>2
    <3> QED
      BY <3>2, <3>3 DEF Descends
  <2>4. CASE y \in (start + m) + 1 .. (start + m) + Radius /\ Descends(file, start + m, y)
    <3>1. /\ y \in start + m .. (start + m) + Radius
          /\ y - start \in m + 1 .. m + Radius /\ start + (y - start) = y
      BY <1>1, <2>4
    <3> QED
      BY <2>3, <2>4, <3>1 DEF InBlock
  <2>5. CASE /\ y \in (start + m) + 1 .. (start + m) + Radius
             /\ Descends(file, start + m, y - 1) /\ y \in DOMAIN file /\ file[y].shape = "def"
    <3>1. /\ y - 1 \in start + m .. (start + m) + Radius /\ (y - 1) - start = (y - start) - 1
          /\ y - start \in m + 1 .. m + Radius /\ start + (y - start) = y
      <4>1. y \in (start + m) + 1 .. (start + m) + Radius
        BY <2>5
      <4> QED
        BY <1>1, <4>1
    <3>2. Descends(handler, m, (y - start) - 1) /\ (y - start) - 1 < s
      BY <2>3, <2>5, <3>1
    <3>3. y - start \in DOMAIN handler
      BY <1>1, <1>4, <3>1, <3>2
    <3>4. handler[y - start].shape = "def"
      BY <1>3, <2>5, <3>1, <3>3
    <3> QED
      BY <3>1, <3>2, <3>3, <3>4 DEF InBlock
  <2> QED
    BY <1>6, <2>1, <2>2, <2>4, <2>5 DEF InBlock
<1> QED
  BY <1>5, <1>6, BlockIs

-----------------------------------------------------------------------------
(* The text that follows a registration: in the file as far as in its      *)
(* handler, and no farther once the call has ended.                        *)

LEMMA AfterTokenType ==
  ASSUME NEW was \in ReadStates, NEW t
  PROVE  AfterToken(was, t) \in ReadStates
<1>1. /\ was.depth \in Nat /\ was.count \in Nat /\ was.read \in Nat
      /\ was.quoted \in BOOLEAN /\ was.over \in BOOLEAN
  BY DEF ReadStates
<1>2. CASE was.over
  BY <1>2 DEF AfterToken
<1>3. CASE ~was.over
  <2> DEFINE depth == IF t = "open" /\ ~was.quoted THEN was.depth + 1
                      ELSE IF Closes(was, t) /\ was.depth # 0 THEN was.depth - 1
                      ELSE was.depth
             quoted == IF t = "quote" THEN ~was.quoted ELSE was.quoted
             count == IF t = "comma" /\ ~was.quoted /\ was.depth = 0
                      THEN was.count + 1 ELSE was.count
             over == \/ Closes(was, t) /\ was.depth = 0
                     \/ was.read + 1 = ReadAhead
  <2>1. depth \in Nat /\ count \in Nat /\ was.read + 1 \in Nat
    BY <1>1
  <2>2. quoted \in BOOLEAN /\ over \in BOOLEAN
    BY <1>1, Zenon
  <2>3. AfterToken(was, t) = [depth |-> depth, quoted |-> quoted, count |-> count,
                              over |-> over, read |-> was.read + 1]
    BY <1>3 DEF AfterToken
  <2> HIDE DEF depth, quoted, count, over
  <2> QED
    BY <2>1, <2>2, <2>3 DEF ReadStates
<1> QED
  BY <1>2, <1>3

LEMMA AfterTextType ==
  ASSUME NEW was \in ReadStates, NEW text, Len(text) \in Nat, NEW from \in Nat
  PROVE  AfterText(was, text, from) \in ReadStates
<1> DEFINE n == Len(text)
           step == [p \in (1 .. n) \X ReadStates |->
                      IF p[1] <= from THEN was ELSE AfterToken(p[2], text[p[1]])]
           Steps(g) == [k \in 0 .. Len(text) |->
                          IF k <= from THEN was ELSE AfterToken(g[k - 1], text[k])]
           state == CHOOSE g : g = Steps(g)
<1>1. step \in [(1 .. n) \X ReadStates -> ReadStates]
  BY AfterTokenType
<1>2. PICK g \in [0 .. n -> ReadStates] : IsChain(g, n, was, step)
  <2> HIDE DEF step, n
  <2> QED
    BY <1>1, Chain DEF n
<1>3. ASSUME NEW k \in 0 .. n
      PROVE  g[k] = IF k <= from THEN was ELSE AfterToken(g[k - 1], text[k])
  <2>1. CASE k = 0
    <3>1. k \in 0 .. n /\ k <= from
      BY <2>1
    <3> HIDE DEF step, n
    <3>2. g[k] = was
      BY <1>2, <2>1, <3>1 DEF IsChain
    <3> QED
      BY <3>1, <3>2
  <2>2. CASE k # 0
    <3>1. k \in 1 .. n /\ k - 1 \in 0 .. n
      BY <2>2
    <3>2. g[k - 1] \in ReadStates
      BY <1>2, <3>1
    <3>3. step[<<k, g[k - 1]>>] = IF k <= from THEN was ELSE AfterToken(g[k - 1], text[k])
      BY <3>1, <3>2
    <3>4. g[k] = step[<<k, g[k - 1]>>]
      BY <1>2, <2>2 DEF IsChain
    <3> QED
      BY <3>3, <3>4
  <2> QED
    BY <2>1, <2>2
<1>4. g = Steps(g)
  BY <1>2, <1>3
<1>5. state = Steps(state)
  BY <1>4
<1>6. AfterText(was, text, from) = state[n]
  BY DEF AfterText
<1> HIDE DEF state
<1> DEFINE Typed == {k \in 0 .. n : state[k] \in ReadStates}
<1>7. 0 \in Typed
  BY <1>5
<1>8. ASSUME NEW k \in 1 .. n, k - 1 \in Typed
      PROVE  k \in Typed
  <2>1. k \in 0 .. n /\ state[k] = IF k <= from THEN was ELSE AfterToken(state[k - 1], text[k])
    BY <1>5
  <2> QED
    BY <1>8, <2>1, AfterTokenType
<1>9. \A k \in 0 .. n : k \in Typed
  <2> HIDE DEF Typed
  <2> QED
    BY <1>7, <1>8, Induction
<1> QED
  BY <1>6, <1>9

\* One step of CallRead, from a line to the one below.
NextLine(was, lines_, i) ==
  IF was.over THEN was ELSE AfterText(was, lines_[i].text, 0)

FirstLine(lines_, at) == AfterText(CallStart, lines_[at].text, lines_[at].route.end)

LEMMA CallReadIs ==
  ASSUME NEW lines_ \in Seq(SourceLines), NEW at \in DOMAIN lines_, lines_[at].route # NoRoute,
         NEW k \in 0 .. Len(lines_) - at
  PROVE  CallRead(lines_, at)[k] =
           IF k = 0 THEN FirstLine(lines_, at)
           ELSE NextLine(CallRead(lines_, at)[k - 1], lines_, at + k)
<1> DEFINE n == Len(lines_) - at
           step == [p \in (1 .. n) \X ReadStates |-> NextLine(p[2], lines_, at + p[1])]
           Steps(g) == [i \in 0 .. Len(lines_) - at |->
                          IF i = 0 THEN AfterText(CallStart, lines_[at].text, lines_[at].route.end)
                          ELSE IF g[i - 1].over THEN g[i - 1]
                          ELSE AfterText(g[i - 1], lines_[at + i].text, 0)]
           state == CHOOSE g : g = Steps(g)
<1>1. /\ n \in Nat /\ at \in 1 .. Len(lines_) /\ Len(lines_) \in Nat
      /\ \A i \in 1 .. n : at + i \in DOMAIN lines_
  OBVIOUS
<1>2. \A i \in DOMAIN lines_ : lines_[i] \in SourceLines /\ Len(lines_[i].text) \in Nat
  <2>1. \A line \in SourceLines : Len(line.text) \in Nat
    <3>1. \A line \in SourceLines : line.text \in Seq(ArgumentTokens)
      BY DEF SourceLines
    <3> QED
      BY <3>1
  <2> QED
    BY <2>1
<1>3. lines_[at].route.end \in Nat
  <2>1. \A line \in SourceLines : line.route \in Routes
    BY DEF SourceLines
  <2>2. lines_[at].route \in Routes /\ lines_[at].route # NoRoute
    BY <1>2, <2>1
  <2> QED
    BY <2>2 DEF Routes
<1>4. CallStart \in ReadStates
  BY DEF CallStart, ReadStates
<1>5. FirstLine(lines_, at) \in ReadStates
  BY <1>2, <1>3, <1>4, AfterTextType DEF FirstLine
<1>6. step \in [(1 .. n) \X ReadStates -> ReadStates]
  <2>1. ASSUME NEW i \in 1 .. n, NEW v \in ReadStates
        PROVE  NextLine(v, lines_, at + i) \in ReadStates
    BY <1>1, <1>2, AfterTextType DEF NextLine
  <2> HIDE DEF n
  <2> QED
    BY <2>1
<1>7. PICK g \in [0 .. n -> ReadStates] : IsChain(g, n, FirstLine(lines_, at), step)
  <2> HIDE DEF step, n
  <2> QED
    BY <1>1, <1>5, <1>6, Chain
<1>8. ASSUME NEW i \in 0 .. n
      PROVE  g[i] = IF i = 0 THEN FirstLine(lines_, at)
                    ELSE NextLine(g[i - 1], lines_, at + i)
  <2>1. CASE i = 0
    BY <1>7, <2>1 DEF IsChain
  <2>2. CASE i # 0
    <3>1. i \in 1 .. n /\ i - 1 \in 0 .. n
      BY <1>1, <2>2
    <3>2. g[i - 1] \in ReadStates
      BY <1>7, <3>1
    <3>3. step[<<i, g[i - 1]>>] = NextLine(g[i - 1], lines_, at + i)
      BY <3>1, <3>2
    <3>4. g[i] = step[<<i, g[i - 1]>>]
      BY <1>7, <2>2 DEF IsChain
    <3> QED
      BY <2>2, <3>3, <3>4
  <2> QED
    BY <2>1, <2>2
<1>9. g = Steps(g)
  BY <1>7, <1>8 DEF FirstLine, NextLine
<1>10. state = Steps(state)
  BY <1>9
<1>11. CallRead(lines_, at) = state
  BY DEF CallRead
<1> HIDE DEF state
<1> QED
  BY <1>10, <1>11 DEF FirstLine, NextLine

LEMMA CallReadInHandler ==
  ASSUME NEW handler \in Seq(SourceLines), NEW file, NEW start,
         PartOf(handler, file, start), NEW m \in DOMAIN handler, handler[m].route # NoRoute
  PROVE  /\ Len(file) - (start + m) \in Nat
         /\ Len(handler) - m \in 0 .. Len(file) - (start + m)
         /\ \A k \in 0 .. Len(handler) - m :
              CallRead(file, start + m)[k] = CallRead(handler, m)[k]
<1> DEFINE n == Len(handler) - m
           all == Len(file) - (start + m)
<1>1. /\ start \in Nat /\ file \in Seq(SourceLines) /\ Len(file) \in Nat
      /\ DOMAIN file = 1 .. Len(file)
      /\ \A x \in DOMAIN handler : start + x \in DOMAIN file /\ file[start + x] = handler[x]
  BY DEF PartOf
<1>2. Len(handler) \in Nat /\ DOMAIN handler = 1 .. Len(handler) /\ m \in 1 .. Len(handler)
  OBVIOUS
<1>3. /\ start + m \in DOMAIN file /\ file[start + m] = handler[m]
      /\ start + Len(handler) \in DOMAIN file
  BY <1>1, <1>2
<1>4. n \in Nat /\ all \in Nat /\ n \in 0 .. all
  BY <1>1, <1>2, <1>3
<1> DEFINE Same == {k \in 0 .. n : CallRead(file, start + m)[k] = CallRead(handler, m)[k]}
<1>5. 0 \in Same
  <2>1. CallRead(file, start + m)[0] = FirstLine(file, start + m)
    <3>1. 0 \in 0 .. all
      BY <1>4
    <3> QED
      BY <1>1, <1>3, <3>1, CallReadIs
  <2>2. CallRead(handler, m)[0] = FirstLine(handler, m)
    BY <1>4, CallReadIs
  <2> QED
    BY <1>3, <1>4, <2>1, <2>2 DEF FirstLine
<1>6. ASSUME NEW k \in 1 .. n, k - 1 \in Same
      PROVE  k \in Same
  <2>1. k \in 0 .. n /\ k \in 0 .. all /\ k # 0 /\ m + k \in DOMAIN handler
    BY <1>2, <1>4
  <2>2. (start + m) + k = start + (m + k)
    BY <1>1, <1>2
  <2>3. file[(start + m) + k] = handler[m + k]
    BY <1>1, <2>1, <2>2
  <2>4. CallRead(file, start + m)[k] =
          NextLine(CallRead(file, start + m)[k - 1], file, (start + m) + k)
    BY <1>1, <1>3, <2>1, CallReadIs
  <2>5. CallRead(handler, m)[k] = NextLine(CallRead(handler, m)[k - 1], handler, m + k)
    BY <2>1, CallReadIs
  <2> QED
    BY <1>6, <2>1, <2>3, <2>4, <2>5 DEF NextLine
<1>7. \A k \in 0 .. n : k \in Same
  <2> HIDE DEF n, Same
  <2> QED
    BY <1>4, <1>5, <1>6, Induction
<1> QED
  BY <1>4, <1>7

LEMMA ArgumentsAreOwn ==
  ASSUME NEW handler \in Seq(SourceLines), NEW file, NEW start,
         PartOf(handler, file, start), NEW m \in DOMAIN handler, handler[m].route # NoRoute,
         CallRead(handler, m)[Len(handler) - m].over
  PROVE  ArgumentsAfterPath(file, start + m) = ArgumentsAfterPath(handler, m)
<1> DEFINE n == Len(handler) - m
           all == Len(file) - (start + m)
           read == CallRead(file, start + m)
           Ended == {d \in 0 .. all - n : read[n + d] = read[n]}
<1>1. all \in Nat /\ n \in 0 .. all /\ all - n \in Nat
  BY CallReadInHandler
<1>2. read[n] = CallRead(handler, m)[n] /\ read[n].over
  BY <1>1, CallReadInHandler
<1>3. /\ file \in Seq(SourceLines) /\ start + m \in DOMAIN file
      /\ file[start + m].route # NoRoute
  BY DEF PartOf
<1>4. ASSUME NEW k \in 0 .. all, k # 0
      PROVE  read[k] = NextLine(read[k - 1], file, (start + m) + k)
  BY <1>3, <1>4, CallReadIs
<1> HIDE DEF n, all, read
<1>5. 0 \in Ended
  BY <1>1
<1>6. ASSUME NEW d \in 1 .. all - n, d - 1 \in Ended
      PROVE  d \in Ended
  <2>1. n + d \in 0 .. all /\ n + d # 0 /\ (n + d) - 1 = n + (d - 1) /\ d \in 0 .. all - n
    BY <1>1
  <2>2. read[n + d] = NextLine(read[n + (d - 1)], file, (start + m) + (n + d))
    BY <1>4, <2>1
  <2> QED
    BY <1>2, <1>6, <2>1, <2>2 DEF NextLine
<1>7. \A d \in 0 .. all - n : d \in Ended
  <2> HIDE DEF Ended
  <2> QED
    BY <1>1, <1>5, <1>6, Induction
<1>8. read[all] = read[n]
  <2>1. all - n \in 0 .. all - n /\ n + (all - n) = all
    BY <1>1
  <2> QED
    BY <1>7, <2>1
<1> QED
  BY <1>2, <1>8 DEF ArgumentsAfterPath, n, all, read

-----------------------------------------------------------------------------
(* Each handler in the file they make, and what a reviewer is handed.       *)

LEMMA HandlerIsPart ==
  ASSUME NEW handlers \in Seq(Seq(SourceLines)), NEW end, AddsUp(handlers, end),
         NEW i \in 1 .. Len(handlers), \A k \in 1 .. i - 1 : QuietBelow(handlers[k])
  PROVE  PartOf(handlers[i], FlattenSeq(handlers), end[i - 1])
<1> DEFINE n == Len(handlers)
           file == FlattenSeq(handlers)
           start == end[i - 1]
<1>1. /\ n \in Nat
      /\ \A k \in 1 .. n : /\ handlers[k] \in Seq(SourceLines) /\ Len(handlers[k]) \in Nat
                            /\ DOMAIN handlers[k] = 1 .. Len(handlers[k])
  <2>1. n \in Nat /\ \A k \in 1 .. n : handlers[k] \in Seq(SourceLines)
    OBVIOUS
  <2> QED
    BY <2>1
<1>2. LaidOut(handlers, file, end) /\ file \in Seq(SourceLines)
  BY <1>1, FlattenIs
<1>3. /\ end[0] = 0
      /\ \A k \in 1 .. n : end[k] = end[k - 1] + Len(handlers[k])
      /\ \A j \in 0 .. n : \A k \in 0 .. j : end[k] \in Nat /\ end[k] <= end[j]
      /\ DOMAIN file = 1 .. end[n]
      /\ \A k \in 1 .. n : \A m \in 1 .. Len(handlers[k]) :
           file[end[k - 1] + m] = handlers[k][m]
  BY <1>2 DEF LaidOut
<1> HIDE DEF file
<1>4. \A k \in 1 .. n : /\ end[k] \in Nat /\ end[k - 1] \in Nat /\ end[k] <= end[n]
                        /\ Len(handlers[k]) \in Nat /\ DOMAIN handlers[k] = 1 .. Len(handlers[k])
  <2>1. \A k \in 1 .. n : k \in 0 .. n /\ k - 1 \in 0 .. n /\ n \in 0 .. n
    BY <1>1
  <2> HIDE DEF n
  <2>2. \A k \in 1 .. n : end[k] \in Nat /\ end[k - 1] \in Nat /\ end[k] <= end[n]
    BY <1>1, <1>3, <2>1
  <2> QED
    BY <1>1, <2>2
<1>5. \A k \in 1 .. n : \A m \in 1 .. Len(handlers[k]) :
        end[k - 1] + m \in 1 .. end[n] /\ end[k - 1] + m <= end[k]
  <2>1. ASSUME NEW k \in 1 .. n, NEW m \in 1 .. Len(handlers[k])
        PROVE  end[k - 1] + m \in 1 .. end[n] /\ end[k - 1] + m <= end[k]
    <3>1. end[k] = end[k - 1] + Len(handlers[k])
      BY <1>3
    <3>2. end[k] \in Nat /\ end[k - 1] \in Nat /\ end[k] <= end[n] /\ Len(handlers[k]) \in Nat
      BY <1>4
    <3>3. end[n] \in Nat
      <4>1. n \in 0 .. n
        BY <1>1
      <4> HIDE DEF n
      <4> QED
        BY <1>3, <4>1
    <3> HIDE DEF n
    <3> QED
      BY <3>1, <3>2, <3>3, LineInside
  <2> QED
    BY <2>1
<1>6. ASSUME NEW y \in 1 .. start,
             \A j \in y .. start :
               j \in DOMAIN file /\ file[j].shape \in {"decorator", "comment", "blank"}
      PROVE  file[y].marks = {}
  <2> DEFINE T == {k \in 0 .. i - 1 : y <= end[k]}
  <2>1. T \in SUBSET Nat /\ i - 1 \in T
    BY <1>1, <1>4
  <2>2. PICK k \in T : \A j \in T : k <= j
    BY <2>1, LeastNumber
  <2>3. k \in 1 .. n /\ k - 1 \in 0 .. i - 1 /\ k \in 0 .. i - 1 /\ i - 1 \in 0 .. n
    BY <1>1, <1>3, <2>2
  <2>4. end[k - 1] \in Nat /\ end[k] \in Nat /\ start \in Nat /\ end[k] <= start
    BY <1>3, <1>4, <2>3
  <2>5. ~(y <= end[k - 1])
    BY <1>1, <2>2, <2>3
  <2> DEFINE m == y - end[k - 1]
             h == handlers[k]
  <2>6. /\ m \in 1 .. Len(h) /\ end[k - 1] + m = y
        /\ \A j \in m .. Len(h) : j \in 1 .. Len(h) /\ end[k - 1] + j \in y .. start
    <3>1. y <= end[k] /\ end[k] = end[k - 1] + Len(h) /\ Len(h) \in Nat
      BY <1>3, <1>4, <2>2, <2>3
    <3>2. y \in Nat /\ y <= start
      BY <2>4
    <3> HIDE DEF h, start
    <3>3. m \in 1 .. Len(h) /\ end[k - 1] + m = y
      <4> DEFINE e == end[k - 1]
                 l == Len(h)
      <4>1. e \in Nat /\ l \in Nat /\ y \in Nat /\ ~(y <= e) /\ y <= e + l
        BY <2>4, <2>5, <3>1, <3>2
      <4> HIDE DEF e, l
      <4>2. y - e \in 1 .. l /\ e + (y - e) = y
        BY <4>1, OffsetInside
      <4> QED
        BY <4>2 DEF e, l
    <3> HIDE DEF m, T, n
    <3>4. ASSUME NEW j \in m .. Len(h)
          PROVE  j \in 1 .. Len(h) /\ end[k - 1] + j \in y .. start
      <4>1. j \in Nat /\ j \in 1 .. Len(h) /\ m <= j /\ m \in Nat
        BY <3>1, <3>3
      <4>2. end[k - 1] + m <= end[k - 1] + j /\ end[k - 1] + j <= end[k - 1] + Len(h)
        BY <2>4, <3>1, <4>1
      <4>3. y <= end[k - 1] + j
        BY <3>3, <4>2
      <4>4. end[k - 1] + j <= end[k]
        BY <3>1, <4>2
      <4>5. end[k - 1] + j \in Nat
        BY <2>4, <4>1
      <4>6. end[k - 1] + j <= start
        BY <2>4, <4>4, <4>5
      <4> QED
        BY <2>4, <3>2, <4>1, <4>3, <4>5, <4>6
    <3> QED
      BY <3>3, <3>4
  <2> HIDE DEF m, h
  <2>7. \A j \in 1 .. Len(h) : file[end[k - 1] + j] = h[j]
    BY <1>3, <2>3 DEF h
  <2>8. \A j \in m .. Len(h) : h[j].shape \in {"decorator", "comment", "blank"}
    BY <1>6, <2>6, <2>7
  <2>9. QuietBelow(h) /\ m \in DOMAIN h
    <3>1. k \in 1 .. i - 1
      BY <1>1, <2>3
    <3> QED
      BY <1>1, <1>4, <2>3, <2>6, <3>1 DEF h
  <2>10. h[m].marks = {}
    BY <2>8, <2>9 DEF QuietBelow
  <2> QED
    BY <2>6, <2>7, <2>10
<1>7. start \in Nat /\ end[n] \in Nat /\ DOMAIN handlers[i] = 1 .. Len(handlers[i])
  <2>1. n \in 0 .. n /\ i \in 1 .. n
    BY <1>1
  <2> HIDE DEF n
  <2> QED
    BY <1>3, <1>4, <2>1
<1>8. \A m \in DOMAIN handlers[i] : start + m \in DOMAIN file /\ file[start + m] = handlers[i][m]
  BY <1>3, <1>5, <1>7
<1>9. PartOf(handlers[i], file, start)
  <2> HIDE DEF n, start
  <2> QED
    BY <1>2, <1>6, <1>7, <1>8 DEF PartOf
<1> QED
  BY <1>9 DEF file

LEMMA AuthIsOwn ==
  ASSUME NEW handler \in Seq(SourceLines), SelfContained(handler), NEW file, NEW start,
         PartOf(handler, file, start), NEW m \in DOMAIN handler, handler[m].route # NoRoute
  PROVE  AuthState(file, start + m) = AuthState(handler, m)
<1> DEFINE ours == IF handler[m].route.callStyle THEN {m} ELSE DecoratorBlock(handler, m)
           theirs == IF file[start + m].route.callStyle THEN {start + m}
                     ELSE DecoratorBlock(file, start + m)
<1>1. /\ file[start + m] = handler[m]
      /\ \A x \in DOMAIN handler : file[start + x] = handler[x]
  BY DEF PartOf
<1>2. ASSUME NEW mark
      PROVE  (\E y \in theirs : mark \in file[y].marks)
             <=> (\E x \in ours : mark \in handler[x].marks)
  <2>1. CASE handler[m].route.callStyle
    <3>1. ours = {m} /\ theirs = {start + m}
      BY <1>1, <2>1
    <3> QED
      BY <1>1, <3>1
  <2>2. CASE ~handler[m].route.callStyle
    <3>1. ours = DecoratorBlock(handler, m) /\ theirs = DecoratorBlock(file, start + m)
      BY <1>1, <2>2
    <3>2. \A x \in ours : x \in DOMAIN handler /\ start + x \in theirs
      BY <2>2, <3>1, BlockInHandler
    <3>3. \A y \in theirs : \/ y - start \in ours /\ start + (y - start) = y
                            \/ file[y].marks = {}
      BY <2>2, <3>1, BlockInHandler
    <3> HIDE DEF ours, theirs
    <3>4. ASSUME NEW x \in ours, mark \in handler[x].marks
          PROVE  \E y \in theirs : mark \in file[y].marks
      <4>1. start + x \in theirs /\ file[start + x] = handler[x]
        BY <1>1, <3>2
      <4> QED
        BY <3>4, <4>1
    <3>5. ASSUME NEW y \in theirs, mark \in file[y].marks
          PROVE  \E x \in ours : mark \in handler[x].marks
      <4>1. y - start \in ours /\ start + (y - start) = y
        BY <3>3, <3>5
      <4>2. y - start \in DOMAIN handler
        BY <3>2, <4>1
      <4>3. file[y] = handler[y - start]
        BY <1>1, <4>1, <4>2
      <4> QED
        BY <3>5, <4>1, <4>3
    <3> QED
      BY <3>4, <3>5
  <2> QED
    BY <2>1, <2>2
<1>3. /\ AuthState(file, start + m) =
           IF \E y \in theirs : "public" \in file[y].marks THEN "public"
           ELSE IF \E y \in theirs : "guard" \in file[y].marks THEN "guarded"
           ELSE IF file[start + m].route.callStyle
                   /\ ArgumentsAfterPath(file, start + m) >= 2
             THEN "middleware" ELSE "none-found"
      /\ AuthState(handler, m) =
           IF \E x \in ours : "public" \in handler[x].marks THEN "public"
           ELSE IF \E x \in ours : "guard" \in handler[x].marks THEN "guarded"
           ELSE IF handler[m].route.callStyle
                   /\ ArgumentsAfterPath(handler, m) >= 2
             THEN "middleware" ELSE "none-found"
  BY DEF AuthState
<1> HIDE DEF ours, theirs
<1>4. /\ (\E y \in theirs : "public" \in file[y].marks)
         <=> (\E x \in ours : "public" \in handler[x].marks)
      /\ (\E y \in theirs : "guard" \in file[y].marks)
         <=> (\E x \in ours : "guard" \in handler[x].marks)
  BY <1>2
<1>5. CASE \E x \in ours : "public" \in handler[x].marks
  BY <1>3, <1>4, <1>5
<1>6. CASE /\ ~\E x \in ours : "public" \in handler[x].marks
           /\ \E x \in ours : "guard" \in handler[x].marks
  BY <1>3, <1>4, <1>6
<1>7. CASE /\ ~\E x \in ours : "public" \in handler[x].marks
           /\ ~\E x \in ours : "guard" \in handler[x].marks
  <2>1. file[start + m].route = handler[m].route
    BY <1>1
  <2>2. handler[m].route.callStyle =>
          ArgumentsAfterPath(file, start + m) = ArgumentsAfterPath(handler, m)
    BY ArgumentsAreOwn DEF SelfContained
  <2> QED
    BY <1>3, <1>4, <1>7, <2>1, <2>2
<1> QED
  BY <1>5, <1>6, <1>7

\* What the inventory says of a registration, and which lines hold one.
EntryAt(lines_, i) ==
  [line |-> i, kind |-> lines_[i].route.kind, method |-> lines_[i].route.method,
   expectedPublic |-> lines_[i].route.expectedPublic, auth |-> AuthState(lines_, i)]
Registering(lines_) ==
  {i \in DOMAIN lines_ : lines_[i].route # NoRoute /\ lines_[i].route.method # "USE"}

LEMMA InventoryIs ==
  ASSUME NEW lines_
  PROVE  Inventory(lines_) = {EntryAt(lines_, i) : i \in Registering(lines_)}
BY DEF Inventory, EntryAt, Registering

LEMMA InventoryIsOwn ==
  ASSUME NEW handler \in Seq(SourceLines), SelfContained(handler), NEW file, NEW start,
         PartOf(handler, file, start)
  PROVE  {[e EXCEPT !.line = @ + start] : e \in Inventory(handler)} =
           {e \in Inventory(file) : start < e.line /\ e.line <= start + Len(handler)}
<1>1. /\ start \in Nat /\ Len(handler) \in Nat /\ DOMAIN handler = 1 .. Len(handler)
      /\ \A x \in DOMAIN handler : start + x \in DOMAIN file /\ file[start + x] = handler[x]
  BY DEF PartOf
<1>2. PICK n \in Nat : DOMAIN file = 1 .. n
  BY DEF PartOf
<1>3. ASSUME NEW x \in Registering(handler)
      PROVE  /\ start + x \in Registering(file)
             /\ [EntryAt(handler, x) EXCEPT !.line = @ + start] = EntryAt(file, start + x)
  <2>1. /\ x \in DOMAIN handler /\ x \in Nat
        /\ start + x \in DOMAIN file /\ file[start + x] = handler[x]
    BY <1>1 DEF Registering
  <2>2. AuthState(file, start + x) = AuthState(handler, x)
    BY <2>1, AuthIsOwn DEF Registering
  <2>3. x + start = start + x
    BY <1>1, <2>1
  <2>4. [EntryAt(handler, x) EXCEPT !.line = @ + start] =
          [line |-> x + start, kind |-> handler[x].route.kind,
           method |-> handler[x].route.method,
           expectedPublic |-> handler[x].route.expectedPublic,
           auth |-> AuthState(handler, x)]
    BY DEF EntryAt
  <2>5. start + x \in Registering(file)
    BY <2>1 DEF Registering
  <2> QED
    BY <2>1, <2>2, <2>3, <2>4, <2>5 DEF EntryAt
<1>4. ASSUME NEW y \in Registering(file), start < y, y <= start + Len(handler)
      PROVE  y - start \in Registering(handler) /\ start + (y - start) = y
  <2>1. y \in Nat /\ y - start \in DOMAIN handler /\ start + (y - start) = y
    BY <1>1, <1>2, <1>4 DEF Registering
  <2>2. file[y] = handler[y - start]
    BY <1>1, <2>1
  <2> QED
    BY <2>1, <2>2 DEF Registering
<1>5. \A x \in Registering(handler) : x \in 1 .. Len(handler)
  BY <1>1 DEF Registering
<1>6. \A y : EntryAt(file, y).line = y
  BY DEF EntryAt
<1> DEFINE Moved(e) == [e EXCEPT !.line = @ + start]
           Mine == {e \in Inventory(file) : start < e.line /\ e.line <= start + Len(handler)}
<1>7. ASSUME NEW e \in Inventory(handler)
      PROVE  Moved(e) \in Mine
  <2>1. PICK x \in Registering(handler) : e = EntryAt(handler, x)
    BY InventoryIs
  <2>2. Moved(e) = EntryAt(file, start + x) /\ start + x \in Registering(file)
    BY <1>3, <2>1
  <2>3. EntryAt(file, start + x) \in Inventory(file) /\ EntryAt(file, start + x).line = start + x
    BY <1>6, <2>2, InventoryIs
  <2>4. start < start + x /\ start + x <= start + Len(handler)
    BY <1>1, <1>5
  <2> HIDE DEF Moved
  <2> QED
    BY <2>2, <2>3, <2>4
<1>8. ASSUME NEW e \in Mine
      PROVE  \E d \in Inventory(handler) : e = Moved(d)
  <2>1. PICK y \in Registering(file) : e = EntryAt(file, y)
    BY InventoryIs
  <2>2. start < y /\ y <= start + Len(handler)
    BY <1>6, <2>1
  <2>3. y - start \in Registering(handler) /\ start + (y - start) = y
    BY <1>4, <2>2
  <2>4. Moved(EntryAt(handler, y - start)) = EntryAt(file, y)
    BY <1>3, <2>3
  <2>5. EntryAt(handler, y - start) \in Inventory(handler)
    BY <2>3, InventoryIs
  <2> HIDE DEF Moved
  <2> QED
    BY <2>1, <2>4, <2>5
<1>9. \A z : z \in {Moved(e) : e \in Inventory(handler)} <=> z \in Mine
  <2> HIDE DEF Moved, Mine
  <2> QED
    BY <1>7, <1>8
<1> QED
  BY <1>9

LEMMA UnprotectedFirst ==
  ASSUME NEW entries, NEW e \in Unprotected(entries)
  PROVE  /\ e \in DOMAIN NeedsReview(entries)
         /\ \A d \in DOMAIN NeedsReview(entries) :
              NeedsReview(entries)[e] <= NeedsReview(entries)[d]
<1> DEFINE review == NeedsReview(entries)
<1>1. /\ e \in entries /\ e.auth = "none-found" /\ ExternallyReachable(e) /\ ~e.expectedPublic
      /\ IsMutating(e) \/ e.method = ""
  BY DEF Unprotected
<1> DEFINE listed == {d \in entries :
                       /\ ExternallyReachable(d)
                       /\ d.auth \in {"none-found", "public", "middleware"}
                       /\ IsMutating(d) \/ d.method = "" \/ d.kind # "http"}
           PlaceOf(auth) == CASE auth = "none-found" -> 0 [] auth = "public" -> 1
                           [] auth = "middleware" -> 2
<1>2. review = [d \in listed |-> PlaceOf(d.auth) + IF d.expectedPublic THEN 3 ELSE 0]
  BY DEF NeedsReview
<1>3. e \in listed
  BY <1>1
<1>4. ASSUME NEW d \in listed
      PROVE  PlaceOf(d.auth) \in Nat
  <2>1. d.auth = "none-found" \/ d.auth = "public" \/ d.auth = "middleware"
    OBVIOUS
  <2>2. CASE d.auth = "none-found"
    BY <2>2
  <2>3. CASE d.auth = "public"
    BY <2>3
  <2>4. CASE d.auth = "middleware"
    BY <2>4
  <2> QED
    BY <2>1, <2>2, <2>3, <2>4
<1> HIDE DEF review, listed, PlaceOf
<1>5. e \in DOMAIN review /\ review[e] = 0
  <2>1. PlaceOf(e.auth) = 0
    BY <1>1 DEF PlaceOf
  <2>2. e \in DOMAIN review /\ review[e] = PlaceOf(e.auth) + IF e.expectedPublic THEN 3 ELSE 0
    BY <1>2, <1>3
  <2>3. review[e] = PlaceOf(e.auth) + 0
    BY <1>1, <2>2
  <2> QED
    BY <2>1, <2>2, <2>3
<1>6. ASSUME NEW d \in DOMAIN review
      PROVE  review[d] \in Nat
  <2>1. d \in listed /\ PlaceOf(d.auth) \in Nat
    BY <1>2, <1>4
  <2>2. review[d] = PlaceOf(d.auth) + IF d.expectedPublic THEN 3 ELSE 0
    BY <1>2, <2>1
  <2>3. review[d] = PlaceOf(d.auth) + 3 \/ review[d] = PlaceOf(d.auth) + 0
    BY <2>2
  <2> QED
    BY <2>1, <2>3
<1>7. \A d \in DOMAIN review : review[e] <= review[d]
  BY <1>5, <1>6
<1> QED
  BY <1>5, <1>7 DEF review

\* In any file, whatever handlers it is made of, however many lines they have
\* and however far the window reaches, a self-contained handler reads as it does
\* alone unless one above ends in a word on authorization, and what is
\* unprotected heads the review ("Consulting a window here made adjacent routes
\* disagree", surface.py).
THEOREM HandlersJudgedAlone ==
  \A handlers \in Seq(Seq(SourceLines)) : HandlersStandAlone(handlers)
<1> SUFFICES ASSUME NEW handlers \in Seq(Seq(SourceLines))
             PROVE  HandlersStandAlone(handlers)
  OBVIOUS
<1> DEFINE file == FlattenSeq(handlers)
           Sum(end) == [i \in 0 .. Len(handlers) |->
                          IF i = 0 THEN 0 ELSE end[i - 1] + Len(handlers[i])]
           offset == CHOOSE end : end = Sum(end)
           Quiet_(i) == \A k \in 1 .. i - 1 : QuietBelow(handlers[k])
<1>1. Len(handlers) \in Nat /\ DOMAIN handlers = 1 .. Len(handlers)
  OBVIOUS
<1>2. \A i \in 1 .. Len(handlers) : handlers[i] \in Seq(SourceLines)
  OBVIOUS
<1>3. PICK end : end = Sum(end)
  BY <1>1, EndsExist DEF AddsUp
<1>4. offset = Sum(offset)
  BY <1>3
<1>5. AddsUp(handlers, offset)
  BY <1>4 DEF AddsUp
<1> HIDE DEF offset
<1>6. ASSUME NEW i \in DOMAIN handlers, SelfContained(handlers[i]), Quiet_(i)
      PROVE  {[e EXCEPT !.line = @ + offset[i - 1]] : e \in Inventory(handlers[i])} =
               {e \in Inventory(file) : offset[i - 1] < e.line /\ e.line <= offset[i]}
  <2>1. i \in 1 .. Len(handlers)
    BY <1>1
  <2>2. PartOf(handlers[i], file, offset[i - 1])
    BY <1>5, <1>6, <2>1, HandlerIsPart
  <2>3. offset[i] = offset[i - 1] + Len(handlers[i])
    BY <1>1, <1>5, <2>1, EndsAre
  <2>4. handlers[i] \in Seq(SourceLines)
    BY <1>2, <2>1
  <2> HIDE DEF file
  <2>5. {[e EXCEPT !.line = @ + offset[i - 1]] : e \in Inventory(handlers[i])} =
          {e \in Inventory(file) :
             offset[i - 1] < e.line /\ e.line <= offset[i - 1] + Len(handlers[i])}
    BY <1>6, <2>2, <2>4, InventoryIsOwn
  <2> QED
    BY <2>3, <2>5
<1>7. \A e \in Unprotected(Inventory(file)) :
        /\ e \in DOMAIN NeedsReview(Inventory(file))
        /\ \A d \in DOMAIN NeedsReview(Inventory(file)) :
             NeedsReview(Inventory(file))[e] <= NeedsReview(Inventory(file))[d]
  BY UnprotectedFirst
<1>8. HandlersStandAlone(handlers) <=>
        /\ \A i \in DOMAIN handlers :
             SelfContained(handlers[i]) /\ Quiet_(i) =>
               {[e EXCEPT !.line = @ + offset[i - 1]] : e \in Inventory(handlers[i])} =
                 {e \in Inventory(file) : offset[i - 1] < e.line /\ e.line <= offset[i]}
        /\ \A e \in Unprotected(Inventory(file)) :
             /\ e \in DOMAIN NeedsReview(Inventory(file))
             /\ \A d \in DOMAIN NeedsReview(Inventory(file)) :
                  NeedsReview(Inventory(file))[e] <= NeedsReview(Inventory(file))[d]
  BY DEF HandlersStandAlone, offset
<1> QED
  BY <1>6, <1>7, <1>8

-----------------------------------------------------------------------------
\* In whatever file is written, a self-contained handler takes nothing from
\* its neighbours, and what is unprotected heads the list.
THEOREM NeighboursStayApart == SurfaceSpec => []HandlersAreJudgedAlone
<1> DEFINE Inv == written \in Seq(Seq(SourceLines))
<1>1. SurfaceInit => Inv
  BY DEF SurfaceInit
<1>2. Inv /\ [WriteHandler]_written => Inv'
  <2> SUFFICES ASSUME Inv, WriteHandler
               PROVE  Inv'
    OBVIOUS
  <2>1. PICK handler \in Handlers : written' = Append(written, handler)
    BY DEF WriteHandler
  <2>2. handler \in Seq(SourceLines)
    BY HandlersAssumption
  <2> QED
    BY <2>1, <2>2
<1>3. Inv => HandlersAreJudgedAlone
  BY HandlersJudgedAlone DEF HandlersAreJudgedAlone
<1> QED
  BY <1>1, <1>2, <1>3, PTL DEF SurfaceSpec

=============================================================================
