-------------------------- MODULE Components_proofs --------------------------
(***************************************************************************)
(* Theorems about four components that share no state: the page, the call  *)
(* graph, the Python walk and telemetry, one after the other.              *)
(***************************************************************************)
EXTENDS BoardPage, CallGraph, PythonTaint, Telemetry, TLAPS

-----------------------------------------------------------------------------
(***************************************************************************)
(* The page.  Every change of what is shown goes through renderList, which *)
(* leaves of the selection what is visible; the rest only takes away from  *)
(* it.  What is sent for approval is the selection or the active finding.  *)
(***************************************************************************)

LEMMA RenderShows ==
  ASSUME NEW list, NEW on, NEW chosen, NEW mark, NEW active,
         RenderList(list, on, chosen, mark, active)
  PROVE  SelectionVisible'
  BY DEF RenderList, SelectionVisible, Visible

LEMMA SelectionInit == PageInit => SelectionVisible
  BY DEF PageInit, SelectionVisible

LEMMA SelectionStep == SelectionVisible /\ [PageNext]_pageVars => SelectionVisible'
<1> SUFFICES ASSUME SelectionVisible, [PageNext]_pageVars
             PROVE  SelectionVisible'
  OBVIOUS
<1> DEFINE Stays == UNCHANGED <<findings, filtered, selection, anchor, activeId>>
<1>1. CASE Stays
  BY <1>1 DEF SelectionVisible, Visible
<1>2. CASE UNCHANGED pageVars \/ OthersChange \/ StartPoll \/ Act \/ FixSelected
  <2>1. Stays
    BY <1>2 DEF pageVars, OthersChange, StartPoll, Act, FixSelected, Approve
  <2> QED
    BY <1>1, <2>1
<1>3. ASSUME NEW call \in pending, Serve(call) \/ ShowDetail(call) \/ Lost(call)
      PROVE  SelectionVisible'
  <2>1. Stays
    BY <1>3 DEF Serve, ShowDetail, Lost
  <2> QED
    BY <1>1, <2>1
<1>4. ASSUME NEW call \in pending, Refreshed(call)
      PROVE  SelectionVisible'
  <2>1. CASE ~call.force /\ SignatureOf(call) = lastSignature
    BY <1>1, <1>4, <2>1 DEF Refreshed
  <2>2. CASE ~(~call.force /\ SignatureOf(call) = lastSignature)
    <3>1. RenderList(call.statuses, filtered, selection, anchor, activeId)
      BY <1>4, <2>2 DEF Refreshed
    <3> QED
      BY <3>1, RenderShows
  <2> QED
    BY <2>1, <2>2
<1>5. ASSUME NEW call \in pending, Posted(call)
      PROVE  SelectionVisible'
  BY <1>5 DEF Posted, SelectionVisible, Visible
<1>6. CASE ChangeFilter
  BY <1>6, RenderShows DEF ChangeFilter
<1>7. ASSUME NEW f \in RowIds, OpenFinding(f) \/ \E shift \in BOOLEAN : Check(f, shift)
      PROVE  SelectionVisible'
  BY <1>7, RenderShows DEF OpenFinding, Check
<1>8. ASSUME NEW on \in BOOLEAN, SelectAll(on)
      PROVE  SelectionVisible'
  BY <1>8, RenderShows DEF SelectAll
<1> QED
  BY <1>2, <1>3, <1>4, <1>5, <1>6, <1>7, <1>8 DEF PageNext

\* What the reviewer has selected, the anchor of a range and the active
\* finding are visible at all times, for any number of findings, any filter
\* and any number of calls under way.
THEOREM SelectionStaysVisible == PageSpec => []SelectionVisible
  BY SelectionInit, SelectionStep, PTL DEF PageSpec

-----------------------------------------------------------------------------

\* What is sent for approval in a step is something, and all of it is visible
\* when it is sent.
ApprovalsVisible ==
  [][\A call \in pending' \ pending :
       call.kind = "post" /\ ~Handled(call) => call.ids # {} /\ call.ids \subseteq Visible]_pageVars

LEMMA ApprovalStep ==
  ASSUME SelectionVisible, [PageNext]_pageVars
  PROVE  [\A call \in pending' \ pending :
            call.kind = "post" /\ ~Handled(call)
              => call.ids # {} /\ call.ids \subseteq Visible]_pageVars
<1> SUFFICES ASSUME NEW call \in pending' \ pending, call.kind = "post", ~Handled(call),
                    PageNext
             PROVE  call.ids # {} /\ call.ids \subseteq Visible
  BY DEF pageVars
<1>1. ASSUME NEW ids, NEW batch, Approve(ids, batch), ids \subseteq Visible
      PROVE  call.ids # {} /\ call.ids \subseteq Visible
  BY <1>1 DEF Approve, Send
<1>2. CASE OthersChange \/ StartPoll \/ ChangeFilter
  BY <1>2 DEF OthersChange, StartPoll, ChangeFilter, Send, Poll
<1>3. ASSUME NEW c \in pending, Serve(c)
      PROVE  FALSE
  <2>1. Handled(Answered(c))
    BY DEF Handled, Answered
  <2> QED
    BY <1>3, <2>1 DEF Serve
<1>4. ASSUME NEW c \in pending, Refreshed(c) \/ ShowDetail(c) \/ Posted(c) \/ Lost(c)
      PROVE  FALSE
  <2>1. \A next : Forced(next).kind = "state" /\ Detail(next).kind = "detail"
    BY DEF Forced, Poll, Detail
  <2> QED
    BY <1>4, <2>1 DEF Refreshed, ShowDetail, Posted, Lost
<1>5. ASSUME NEW f \in RowIds, OpenFinding(f) \/ \E shift \in BOOLEAN : Check(f, shift)
      PROVE  FALSE
  BY <1>5 DEF OpenFinding, Check, Send, Detail
<1>6. ASSUME NEW on \in BOOLEAN, SelectAll(on)
      PROVE  FALSE
  BY <1>6 DEF SelectAll
<1>7. CASE Act
  BY <1>1, <1>7 DEF Act, SelectionVisible
<1>8. CASE FixSelected
  BY <1>1, <1>8 DEF FixSelected, SelectionVisible
<1> QED
  BY <1>2, <1>3, <1>4, <1>5, <1>6, <1>7, <1>8 DEF PageNext

\* Whatever the page sends for approval names findings visible at that moment,
\* and at least one: none that a filter hides, and none that a reply, whenever
\* it came, has taken off the page (Selection.prune, act and fixSelected).
THEOREM ApprovalsNameVisible == PageSpec => ApprovalsVisible
<1>1. SelectionVisible /\ [PageNext]_pageVars
        => [\A call \in pending' \ pending :
              call.kind = "post" /\ ~Handled(call)
                => call.ids # {} /\ call.ids \subseteq Visible]_pageVars
  BY ApprovalStep
<1> QED
  BY <1>1, SelectionInit, SelectionStep, PTL DEF PageSpec, ApprovalsVisible

-----------------------------------------------------------------------------
(***************************************************************************)
(* The call graph.  The caches and the cap bend no answer, for every       *)
(* graph, every list of findings and every cap on the subprocesses: a      *)
(* cache entry is the graph's own set, or it is empty and a query failed;  *)
(* and a query that is refused caches nothing.                             *)
(***************************************************************************)

SymbolsOf(path) == {s \in Symbols : s.path = path}

\* An entry is what the graph says, or what is left of a query that failed.
CachesAreTheGraphs ==
  /\ \A path \in DOMAIN symbolsByFile :
       symbolsByFile[path] = SymbolsOf(path) \/ (cut /\ symbolsByFile[path] = {})
  /\ \A name \in DOMAIN callersCache :
       callersCache[name] = CallersOf[name] \/ (cut /\ callersCache[name] = {})

GraphInv ==
  /\ answers \in [Places -> {"unasked", "unknown", "reachable", "no-path"}]
  /\ CachesAreTheGraphs
  /\ AnswersAreTheGraphs

\* A cache with one entry more.
LEMMA RememberIs ==
  ASSUME NEW cache, NEW key, NEW value, NEW k \in DOMAIN Remember(cache, key, value)
  PROVE  \/ k = key /\ Remember(cache, key, value)[k] = value
         \/ k \in DOMAIN cache /\ Remember(cache, key, value)[k] = cache[k]
  BY DEF Remember

LEMMA InitGraph == GraphInit => GraphInv
  BY DEF GraphInit, GraphInv, CachesAreTheGraphs, AnswersAreTheGraphs

\* What a query for the symbols of a file gives and leaves in the cache.
LEMMA SymbolsInIs ==
  ASSUME CachesAreTheGraphs, enabled, NEW path, NEW ok \in BOOLEAN
  PROVE  LET file == SymbolsIn(path, ok)
             skipped == queries >= MAX_QUERIES \/ (file.spent = 1 /\ ~ok)
         IN  /\ file.spent \in {0, 1}
             /\ file.value = SymbolsOf(path) \/ (file.value = {} /\ (cut \/ skipped))
             /\ \A p \in DOMAIN file.files :
                  \/ file.files[p] = SymbolsOf(p)
                  \/ file.files[p] = {} /\ (cut \/ skipped)
<1> DEFINE file == SymbolsIn(path, ok)
           found == IF ok THEN SymbolsOf(path) ELSE {}
           skipped == queries >= MAX_QUERIES \/ (file.spent = 1 /\ ~ok)
<1>1. CASE queries >= MAX_QUERIES
  <2>1. file.value = {} /\ file.files = symbolsByFile /\ file.spent = 0
    BY <1>1 DEF SymbolsIn
  <2> QED
    BY <1>1, <2>1 DEF CachesAreTheGraphs
<1>2. CASE ~(queries >= MAX_QUERIES) /\ Asked(symbolsByFile, path)
  <2>1. /\ file.value = symbolsByFile[path] /\ file.files = symbolsByFile
        /\ file.spent = 0
    BY <1>2 DEF SymbolsIn
  <2> QED
    BY <1>2, <2>1 DEF CachesAreTheGraphs, Asked
<1>3. CASE ~(queries >= MAX_QUERIES) /\ ~Asked(symbolsByFile, path)
  <2>1. /\ file.value = found
        /\ file.files = Remember(symbolsByFile, path, found)
        /\ file.spent = 1
    BY <1>3 DEF SymbolsIn, SymbolsOf
  <2>2. found = SymbolsOf(path) \/ (found = {} /\ skipped)
    BY <2>1
  <2> HIDE DEF found, file
  <2>3. \A p \in DOMAIN file.files :
          \/ p = path /\ file.files[p] = found
          \/ p \in DOMAIN symbolsByFile /\ file.files[p] = symbolsByFile[p]
    BY <2>1, RememberIs
  <2>4. \A p \in DOMAIN file.files :
          file.files[p] = SymbolsOf(p) \/ (file.files[p] = {} /\ (cut \/ skipped))
    BY <2>2, <2>3 DEF CachesAreTheGraphs
  <2>5. /\ file.spent \in {0, 1}
        /\ file.value = SymbolsOf(path) \/ (file.value = {} /\ (cut \/ skipped))
    BY <2>1, <2>2
  <2> QED
    BY <2>4, <2>5 DEF file
<1> QED
  BY <1>1, <1>2, <1>3

\* The same for the callers of a name; a query that is refused leaves the name
\* out of the cache.
LEMMA CallersIs ==
  ASSUME CachesAreTheGraphs, NEW name, NEW spent \in {0, 1}, NEW ok \in BOOLEAN
  PROVE  LET asked == Callers(name, spent, ok)
             lacking == ~Asked(asked.names, name) \/ (asked.spent > spent /\ ~ok)
         IN  /\ asked.value = CallersOf[name] \/ (asked.value = {} /\ (cut \/ lacking))
             /\ \A n \in DOMAIN asked.names :
                  \/ asked.names[n] = CallersOf[n]
                  \/ asked.names[n] = {} /\ (cut \/ lacking)
<1> DEFINE asked == Callers(name, spent, ok)
           found == IF ok THEN CallersOf[name] ELSE {}
           lacking == ~Asked(asked.names, name) \/ (asked.spent > spent /\ ~ok)
<1>1. CASE Asked(callersCache, name)
  <2>1. asked.value = callersCache[name] /\ asked.names = callersCache
    BY <1>1 DEF Callers
  <2> QED
    BY <1>1, <2>1 DEF CachesAreTheGraphs, Asked
<1>2. CASE ~Asked(callersCache, name) /\ queries + spent >= MAX_QUERIES
  <2>1. asked.value = {} /\ asked.names = callersCache
    BY <1>2 DEF Callers
  <2> QED
    BY <1>2, <2>1 DEF CachesAreTheGraphs
<1>3. CASE ~Asked(callersCache, name) /\ ~(queries + spent >= MAX_QUERIES)
  <2>1. /\ asked.value = found
        /\ asked.names = Remember(callersCache, name, found)
        /\ asked.spent = spent + 1
    BY <1>3 DEF Callers
  <2>2. found = CallersOf[name] \/ (found = {} /\ lacking)
    BY <2>1
  <2> HIDE DEF found, asked
  <2>3. \A n \in DOMAIN asked.names :
          \/ n = name /\ asked.names[n] = found
          \/ n \in DOMAIN callersCache /\ asked.names[n] = callersCache[n]
    BY <2>1, RememberIs
  <2>4. \A n \in DOMAIN asked.names :
          asked.names[n] = CallersOf[n] \/ (asked.names[n] = {} /\ (cut \/ lacking))
    BY <2>2, <2>3 DEF CachesAreTheGraphs
  <2>5. asked.value = CallersOf[name] \/ (asked.value = {} /\ (cut \/ lacking))
    BY <2>1, <2>2
  <2> QED
    BY <2>4, <2>5 DEF asked
<1> QED
  BY <1>1, <1>2, <1>3

\* The smallest symbol around a place is one of the place's own file.
LEMMA EnclosingInFile ==
  ASSUME NEW place
  PROVE  Enclosing(SymbolsOf(place.path), place) = Enclosing(Symbols, place)
  BY DEF Enclosing, Covers, SymbolsOf

LEMMA EnclosingNothing ==
  ASSUME NEW place
  PROVE  Enclosing({}, place) = {}
  BY DEF Enclosing

-----------------------------------------------------------------------------

\* An answer of the graph's own, or less than the graph says once a query has
\* failed, is what the property asks of the next state.
LEMMA AnswerKeeps ==
  ASSUME GraphInv, NEW place \in Places, NEW answer \in {"unknown", "reachable", "no-path"},
         answers' = [answers EXCEPT ![place] = answer],
         enabled' = enabled, cut => cut',
         \/ answer \in GraphSays(place)
         \/ ~enabled /\ answer = "unknown"
         \/ cut' /\ answer \in {"unknown", "no-path"}
  PROVE  /\ answers' \in [Places -> {"unasked", "unknown", "reachable", "no-path"}]
         /\ AnswersAreTheGraphs'
<1>1. \A p \in Places : answers'[p] = IF p = place THEN answer ELSE answers[p]
  BY DEF GraphInv
<1>2. AnswersAreTheGraphs'
  <2> SUFFICES ASSUME NEW p \in Places, answers'[p] # "unasked"
               PROVE  \/ answers'[p] \in GraphSays(p)
                      \/ ~enabled' /\ answers'[p] = "unknown"
                      \/ cut' /\ answers'[p] \in {"unknown", "no-path"}
    BY DEF AnswersAreTheGraphs, GraphSays, Enclosing, DeclaredIn, Verdict, InEntryFile, Covers
  <2>1. CASE p = place
    BY <1>1, <2>1
  <2>2. CASE p # place
    BY <1>1, <2>2 DEF GraphInv, AnswersAreTheGraphs
  <2> QED
    BY <2>1, <2>2
<1> QED
  BY <1>2 DEF GraphInv

LEMMA DisabledKeeps ==
  ASSUME GraphInv, NEW place \in Places, ReachesDisabled(place)
  PROVE  GraphInv'
<1>1. CachesAreTheGraphs'
  BY DEF GraphInv, CachesAreTheGraphs, ReachesDisabled
<1> QED
  BY <1>1, AnswerKeeps DEF ReachesDisabled, GraphInv

LEMMA ReachesKeeps ==
  ASSUME GraphInv, NEW place \in Places, NEW heard \in BOOLEAN, NEW told \in BOOLEAN,
         Reaches(place, heard, told)
  PROVE  GraphInv'
<1> DEFINE file == SymbolsIn(place.path, heard)
           around == Enclosing(file.value, place)
           skipped == queries >= MAX_QUERIES \/ (file.spent = 1 /\ ~heard)
<1>1. enabled /\ enabled' = enabled /\ symbolsByFile' = file.files
  BY DEF Reaches
<1>2. /\ file.spent \in {0, 1}
      /\ file.value = SymbolsOf(place.path) \/ (file.value = {} /\ (cut \/ skipped))
      /\ \A p \in DOMAIN file.files :
           \/ file.files[p] = SymbolsOf(p)
           \/ file.files[p] = {} /\ (cut \/ skipped)
  BY <1>1, SymbolsInIs DEF GraphInv
\* What is around the place is what the graph has there, or nothing.
<1>3. around = Enclosing(Symbols, place) \/ (around = {} /\ (cut \/ skipped))
  BY <1>2, EnclosingInFile, EnclosingNothing
<1>4. ASSUME around = {},
             answers' = [answers EXCEPT ![place] = "unknown"],
             cut' = (cut \/ skipped), callersCache' = callersCache
      PROVE  GraphInv'
  <2>1. "unknown" \in GraphSays(place) \/ cut'
    BY <1>3, <1>4 DEF GraphSays
  <2>2. CachesAreTheGraphs'
    BY <1>1, <1>2, <1>4 DEF GraphInv, CachesAreTheGraphs, SymbolsOf
  <2> QED
    BY <1>1, <1>4, <2>1, <2>2, AnswerKeeps DEF GraphInv
<1>5. ASSUME NEW target \in around, DeclaredIn(target, place),
             answers' = [answers EXCEPT ![place] = "reachable"],
             cut' = (cut \/ skipped), callersCache' = callersCache
      PROVE  GraphInv'
  <2>1. "reachable" \in GraphSays(place)
    BY <1>3, <1>5 DEF GraphSays
  <2>2. CachesAreTheGraphs'
    BY <1>1, <1>2, <1>5 DEF GraphInv, CachesAreTheGraphs, SymbolsOf
  <2> QED
    BY <1>1, <1>5, <2>1, <2>2, AnswerKeeps DEF GraphInv
<1>6. ASSUME NEW target \in around, ~DeclaredIn(target, place),
             LET asked == Callers(target.name, file.spent, told)
                 missing == ~Asked(asked.names, target.name)
             IN  /\ answers' = [answers EXCEPT ![place] = Verdict(asked.value)]
                 /\ callersCache' = asked.names
                 /\ cut' = (cut \/ skipped \/ missing
                                \/ (asked.spent > file.spent /\ ~told))
      PROVE  GraphInv'
  <2> DEFINE asked == Callers(target.name, file.spent, told)
             lacking == ~Asked(asked.names, target.name) \/ (asked.spent > file.spent /\ ~told)
  <2>1. /\ answers' = [answers EXCEPT ![place] = Verdict(asked.value)]
        /\ callersCache' = asked.names
        /\ cut' = (cut \/ skipped \/ lacking)
    BY <1>6
  <2>2. /\ asked.value = CallersOf[target.name] \/ (asked.value = {} /\ (cut \/ lacking))
        /\ \A n \in DOMAIN asked.names :
             \/ asked.names[n] = CallersOf[n]
             \/ asked.names[n] = {} /\ (cut \/ lacking)
    BY <1>2, CallersIs DEF GraphInv
  <2> HIDE DEF asked, lacking, skipped, file
  <2>3. Verdict(CallersOf[target.name]) \in GraphSays(place)
    BY <1>3, <1>6 DEF GraphSays
  <2>4. Verdict({}) = "no-path"
    BY DEF Verdict, InEntryFile
  <2>5. \/ Verdict(asked.value) \in GraphSays(place)
        \/ cut' /\ Verdict(asked.value) = "no-path"
    BY <2>1, <2>2, <2>3, <2>4
  <2>6. Verdict(asked.value) \in {"reachable", "no-path"}
    BY DEF Verdict
  <2>7. CachesAreTheGraphs'
    BY <1>1, <1>2, <2>1, <2>2 DEF CachesAreTheGraphs, SymbolsOf
  <2> QED
    BY <1>1, <2>1, <2>5, <2>6, <2>7, AnswerKeeps DEF GraphInv
<1> QED
  BY <1>4, <1>5, <1>6 DEF Reaches

LEMMA StepGraph == GraphInv /\ [GraphNext]_graphVars => GraphInv'
<1> SUFFICES ASSUME GraphInv, [GraphNext]_graphVars
             PROVE  GraphInv'
  OBVIOUS
<1>1. CASE GraphNext
  BY <1>1, DisabledKeeps, ReachesKeeps DEF GraphNext
<1>2. CASE UNCHANGED graphVars
  BY <1>2 DEF graphVars, GraphInv, CachesAreTheGraphs, AnswersAreTheGraphs,
     GraphSays, Enclosing, DeclaredIn, Verdict, InEntryFile, Covers
<1> QED
  BY <1>1, <1>2

\* "Honest about absence" (callgraph.py): whatever was asked before, in which
\* order, and whichever queries failed or were refused, no answer of trace
\* calls reachable what the graph does not, and none is bent unless a query
\* was lost.
THEOREM AnswersHold == GraphSpec => []AnswersAreTheGraphs
<1>1. GraphInv => AnswersAreTheGraphs
  BY DEF GraphInv
<1> QED
  BY <1>1, InitGraph, StepGraph, PTL DEF GraphSpec

-----------------------------------------------------------------------------
(***************************************************************************)
(* The Python walk.  A scope knows origins in its own function only, and   *)
(* what it takes for guarded has been tested there; so a hit, rated by the *)
(* scope on top of the stack, is rated by its own function.                *)
(***************************************************************************)

ScopeRecords ==
  [function : Nat, guarded : SUBSET Variables, names : [Variables -> Int]]

OwnScope(s) ==
  /\ \A v \in Variables : s.names[v] \in {NoOrigin, s.function}
  /\ \A v \in s.guarded : <<s.function, v>> \in tested

PyInv ==
  /\ scopes \in Seq(ScopeRecords) /\ scopes # <<>>
  /\ entered \in Nat
  /\ \A i \in DOMAIN scopes : OwnScope(scopes[i])
  /\ RatedByOwnFunction

LEMMA SeverityKnown ==
  ASSUME NEW rule \in UsedRules
  PROVE  RULES[rule].severity \in {"info", "low", "medium", "high", "critical"}
  BY RulesAssumption DEF RULES, Rule

\* _adjust: only taint moves a rating, and only a guard lowers it.
LEMMA AdjustedMoves ==
  ASSUME NEW rule \in UsedRules, NEW tainted \in BOOLEAN, NEW guarded \in BOOLEAN
  PROVE  LET before == Ranks[RULES[rule].severity]
             after == Ranks[Adjusted(rule, tainted, guarded).severity]
         IN  /\ after # before => tainted
             /\ after < before => tainted /\ guarded
<1> DEFINE s == RULES[rule].severity
<1>1. s \in {"info", "low", "medium", "high", "critical"}
  BY SeverityKnown
<1>2. Adjusted(rule, tainted, guarded).severity =
        IF ~tainted THEN s ELSE IF guarded THEN StepDown[s] ELSE StepUp[s]
  BY DEF Adjusted
<1> HIDE DEF s
<1>3. /\ Ranks[s] \in Int
      /\ Ranks[StepDown[s]] \in Int
      /\ Ranks[StepUp[s]] \in Int /\ ~(Ranks[StepUp[s]] < Ranks[s])
  BY <1>1 DEF Ranks, StepUp, StepDown
<1> QED
  BY <1>2, <1>3 DEF s

LEMMA TopScope ==
  ASSUME PyInv
  PROVE  /\ Len(scopes) \in DOMAIN scopes /\ Scope = scopes[Len(scopes)]
         /\ Scope \in ScopeRecords /\ OwnScope(Scope)
  BY DEF PyInv, Scope, Last

LEMMA OriginIsOwn ==
  ASSUME PyInv, NEW argument \in Arguments
  PROVE  Origin(argument) \in {NoOrigin, Scope.function}
<1>1. argument.names \subseteq Variables
  <2>1. Literal.names = {} /\ Request.names = {}
    BY DEF Literal, Request
  <2>2. \A v \in Variables : Copy(v).names = {v} /\ Format(v).names = {v}
    BY DEF Literal, Copy, Format
  <2> QED
    BY <2>1, <2>2 DEF Arguments, Expressions
<1> DEFINE found == {Scope.names[v] : v \in argument.names} \ {NoOrigin}
<1>2. found \subseteq {Scope.function}
  BY <1>1, TopScope DEF OwnScope
<1> QED
  BY <1>2 DEF Origin

\* A hit that says where its taint is from says its own function.
LEMMA HitIsOwn ==
  ASSUME PyInv, tested' = tested,
         NEW rule \in UsedRules, NEW origin \in {NoOrigin, Scope.function}, NEW names,
         Hit(rule, origin, names)
  PROVE  RatedByOwnFunction'
<1> DEFINE h == Rated(rule, origin, names)
           guarded == names \cap Scope.guarded # {}
<1>1. /\ h.origin = origin /\ h.function = Scope.function /\ h.rule = rule
      /\ h.names = names
      /\ h.severity = Adjusted(rule, origin # NoOrigin, guarded).severity
  BY DEF Rated
<1>2. /\ Ranks[h.severity] # Ranks[RULES[rule].severity] => origin # NoOrigin
      /\ Ranks[h.severity] < Ranks[RULES[rule].severity] => guarded
  <2>1. (origin # NoOrigin) \in BOOLEAN /\ guarded \in BOOLEAN
    OBVIOUS
  <2> QED
    BY <1>1, <2>1, AdjustedMoves
<1>3. guarded => \E v \in names : <<Scope.function, v>> \in tested
  BY TopScope DEF OwnScope
<1> HIDE DEF h, guarded
<1>4. hits' = hits \cup {h}
  BY DEF Hit, h
<1> QED
  BY <1>1, <1>2, <1>3, <1>4 DEF PyInv, RatedByOwnFunction

LEMMA PyInvInit == PyInit => PyInv
<1> SUFFICES ASSUME PyInit
             PROVE  PyInv
  OBVIOUS
<1>1. NewScope(0, {}) \in ScopeRecords /\ OwnScope(NewScope(0, {}))
  BY DEF NewScope, ScopeRecords, OwnScope, NoOrigin
<1> QED
  BY <1>1 DEF PyInit, PyInv, RatedByOwnFunction

\* The stack after a change of its top.
LEMMA TopChanged ==
  ASSUME PyInv, NEW top \in ScopeRecords,
         scopes' = [scopes EXCEPT ![Len(scopes)] = top]
  PROVE  /\ scopes' \in Seq(ScopeRecords) /\ scopes' # <<>>
         /\ \A i \in DOMAIN scopes' : scopes'[i] = top \/ scopes'[i] \in
              {scopes[j] : j \in DOMAIN scopes}
  BY DEF PyInv

LEMMA PyInvStep == PyInv /\ [PyNext]_pyVars => PyInv'
<1> SUFFICES ASSUME PyInv, [PyNext]_pyVars
             PROVE  PyInv'
  OBVIOUS
<1>1. CASE UNCHANGED pyVars
  BY <1>1 DEF pyVars, PyInv, OwnScope, RatedByOwnFunction
<1>2. CASE EnterFunction
  <2>1. PICK parameters \in SUBSET Variables :
          scopes' = Append(scopes, NewScope(entered + 1, parameters))
    BY <1>2 DEF EnterFunction
  <2> DEFINE new == NewScope(entered + 1, parameters)
  <2>2. new \in ScopeRecords /\ OwnScope(new)
    BY DEF NewScope, ScopeRecords, OwnScope, NoOrigin, PyInv
  <2> HIDE DEF new
  <2>3. scopes' = Append(scopes, new)
    BY <2>1 DEF new
  <2>4. scopes' \in Seq(ScopeRecords) /\ scopes' # <<>>
    BY <2>2, <2>3 DEF PyInv
  <2>5. \A i \in DOMAIN scopes' : OwnScope(scopes'[i])
    BY <2>2, <2>3 DEF PyInv
  <2>6. tested' = tested /\ hits' = hits /\ entered' \in Nat
    BY <1>2 DEF EnterFunction, PyInv
  <2> QED
    BY <2>4, <2>5, <2>6 DEF PyInv, OwnScope, RatedByOwnFunction
<1>3. CASE ExitFunction
  <2>1. Len(scopes) > 1 /\ scopes' = SubSeq(scopes, 1, Len(scopes) - 1)
    BY <1>3 DEF ExitFunction, Front
  <2> DEFINE n == Len(scopes) - 1
  <2>2. n \in Nat /\ n >= 1 /\ n <= Len(scopes) /\ scopes \in Seq(ScopeRecords)
    BY <2>1 DEF PyInv
  <2>3. /\ SubSeq(scopes, 1, n) \in Seq(ScopeRecords) /\ Len(SubSeq(scopes, 1, n)) = n
        /\ \A i \in 1 .. n : SubSeq(scopes, 1, n)[i] = scopes[i]
    <3> HIDE DEF n
    <3> QED
      BY <2>2
  <2> HIDE DEF n
  <2>4. scopes' \in Seq(ScopeRecords) /\ Len(scopes') = n
        /\ \A i \in DOMAIN scopes' : i \in DOMAIN scopes /\ scopes'[i] = scopes[i]
    <3>1. scopes' = SubSeq(scopes, 1, n)
      BY <2>1 DEF n
    <3> QED
      BY <2>2, <2>3, <3>1
  <2>5. scopes' # <<>>
    BY <2>2, <2>4
  <2> QED
    BY <1>3, <2>4, <2>5 DEF ExitFunction, PyInv, OwnScope, RatedByOwnFunction
<1>4. ASSUME NEW v \in Variables, NEW value \in Expressions, Assign({v}, value)
      PROVE  PyInv'
  <2> DEFINE origin == Origin(value)
             names == [w \in Variables |-> IF w \in {v} /\ Scope.names[w] = NoOrigin
                                           THEN origin ELSE Scope.names[w]]
             top == [Scope EXCEPT !.names = names]
  <2>1. origin = Scope.function
    BY <1>4, OriginIsOwn DEF Assign, Arguments
  <2>2. scopes' = [scopes EXCEPT ![Len(scopes)] = top]
    BY <1>4, TopScope DEF Assign, Marked
  <2>3. top \in ScopeRecords
    BY <2>1, TopScope DEF ScopeRecords, OwnScope
  <2>4. OwnScope(top)
    BY <2>1, TopScope DEF ScopeRecords, OwnScope
  <2> HIDE DEF top, names, origin
  <2>5. \A i \in DOMAIN scopes' : OwnScope(scopes'[i])
    BY <2>2, <2>3, <2>4, TopChanged DEF PyInv
  <2> QED
    BY <1>4, <2>2, <2>3, <2>5, TopChanged DEF Assign, PyInv, OwnScope, RatedByOwnFunction
<1>5. ASSUME NEW test \in Tests, VisitIf(test)
      PROVE  PyInv'
  <2> DEFINE top == [Scope EXCEPT !.guarded = @ \cup test.names]
  <2>1. scopes' = [scopes EXCEPT ![Len(scopes)] = top]
    BY <1>5, TopScope DEF VisitIf
  <2>2. top \in ScopeRecords /\ test.names \subseteq Variables
    BY TopScope DEF Tests, ScopeRecords
  <2>3. tested \subseteq tested' /\ \A v \in test.names : <<Scope.function, v>> \in tested'
    BY <1>5 DEF VisitIf
  <2> DEFINE Own(s) == /\ \A v \in Variables : s.names[v] \in {NoOrigin, s.function}
                       /\ \A v \in s.guarded : <<s.function, v>> \in tested'
  <2>4. Own(top)
    <3>1. top.function = Scope.function /\ top.names = Scope.names
          /\ top.guarded = Scope.guarded \cup test.names
      BY TopScope DEF ScopeRecords
    <3> QED
      BY <2>3, <3>1, TopScope DEF OwnScope
  <2>5. \A i \in DOMAIN scopes : Own(scopes[i])
    BY <2>3 DEF PyInv, OwnScope
  <2> HIDE DEF top
  <2>6. /\ scopes' \in Seq(ScopeRecords) /\ scopes' # <<>>
        /\ \A i \in DOMAIN scopes' : Own(scopes'[i])
    BY <2>1, <2>2, <2>4, <2>5, TopChanged
  <2>7. RatedByOwnFunction'
    BY <1>5, <2>3 DEF VisitIf, PyInv, RatedByOwnFunction
  <2> QED
    BY <1>5, <2>6, <2>7 DEF VisitIf, PyInv, OwnScope
<1>6. ASSUME NEW rule \in UsedRules, NEW argument \in Arguments,
             NEW beside \in SUBSET Variables, VisitCall(rule, argument, beside)
      PROVE  PyInv'
  <2>1. RatedByOwnFunction'
    BY <1>6, OriginIsOwn, HitIsOwn DEF VisitCall
  <2> QED
    BY <1>6, <2>1 DEF VisitCall, PyInv, OwnScope
<1>7. ASSUME NEW rule \in UsedRules, VisitStatement(rule)
      PROVE  PyInv'
  <2>1. RatedByOwnFunction'
    BY <1>7, HitIsOwn DEF VisitStatement
  <2> QED
    BY <1>7, <2>1 DEF VisitStatement, PyInv, OwnScope
<1> QED
  BY <1>1, <1>2, <1>3, <1>4, <1>5, <1>6, <1>7 DEF PyNext

\* A hit's rating departs from its rule's only for a taint and a test of its
\* own function, for any nesting and number of functions and nodes.
THEOREM OwnFunctionRates == PySpec => []RatedByOwnFunction
<1>1. PyInv => RatedByOwnFunction
  BY DEF PyInv
<1> QED
  BY <1>1, PyInvInit, PyInvStep, PTL DEF PySpec

-----------------------------------------------------------------------------
(***************************************************************************)
(* Telemetry.  No ping without consent, for any number of shells and of    *)
(* commands: a config that says on can only come from a command `telemetry *)
(* on`, and the agreement lasts as long as such a command may still write  *)
(* it; so whoever reads on reads it while the user agrees.                 *)
(***************************************************************************)

Runs ==
  [command : {"none", "on", "off", "status", "scan"},
   at : {"rest", "notice", "open", "write", "ping", "id", "post"},
   forced : {"no", "on", "off"},
   text : {"none", "on", "off", "bare"},
   asked : BOOLEAN]

TelemetryTypes ==
  /\ run \in [Shells -> Runs]
  /\ consent \in BOOLEAN

Allowed(p) == run[p].forced = "on" \/ (run[p].forced = "no" /\ run[p].asked)

\* As long as the user agrees every command under way knows of it; a config
\* that says on, and a command that may still write one, has the agreement.
ConsentIsBehind ==
  /\ consent => \A p \in Shells : run[p] = Resting \/ run[p].asked
  /\ config.text = "on" => consent
  /\ \A p \in Shells : run[p].command = "on" => consent

\* Only `telemetry on` writes on, and a scan that has got to its id may ping.
StepsAreBehind ==
  \A p \in Shells :
    /\ run[p].text = "on" => run[p].command = "on"
    /\ run[p].at = "post" => run[p].command = "scan"
    /\ run[p].command = "scan" /\ (run[p].at \in {"id", "post"} \/ run[p].text = "bare")
         => Allowed(p)

ConsentInv == TelemetryTypes /\ ConsentIsBehind /\ StepsAreBehind

LEMMA RestingType == Resting \in Runs
  BY DEF Resting, Runs

LEMMA InitConsent == TelemetryInit => ConsentInv
<1> SUFFICES ASSUME TelemetryInit
             PROVE  ConsentInv
  OBVIOUS
<1>1. TelemetryTypes
  BY RestingType DEF TelemetryInit, TelemetryTypes
<1> QED
  BY <1>1 DEF TelemetryInit, ConsentInv, ConsentIsBehind, StepsAreBehind, Resting

\* One command moves and the rest of the world, but for the file, stays: what
\* it needs of the moving command is asked of its new record.
LEMMA MoveKeeps ==
  ASSUME ConsentInv, NEW p \in Shells, NEW r \in Runs,
         run' = [run EXCEPT ![p] = r],
         consent' = consent,
         config'.text = "on" => consent,
         consent => r = Resting \/ r.asked,
         r.command = "on" => consent,
         r.text = "on" => r.command = "on",
         r.at = "post" => r.command = "scan",
         r.command = "scan" /\ (r.at \in {"id", "post"} \/ r.text = "bare") =>
           r.forced = "on" \/ (r.forced = "no" /\ r.asked)
  PROVE  ConsentInv'
<1> USE DEF ConsentInv, TelemetryTypes
<1>1. TelemetryTypes'
  OBVIOUS
<1>2. \A q \in Shells : run'[q] = IF q = p THEN r ELSE run[q]
  OBVIOUS
<1>3. ConsentIsBehind'
  BY <1>2 DEF ConsentIsBehind
<1>4. StepsAreBehind'
  BY <1>2 DEF StepsAreBehind, Allowed
<1> QED
  BY <1>1, <1>3, <1>4

\* What a command under way turns into when it goes on.
LEMMA GoesOn ==
  ASSUME ConsentInv, NEW p \in Shells, NEW step \in {"open", "write", "ping", "id", "post"},
         run[p] # Resting, Goes(p, step)
  PROVE  \E r \in Runs :
           /\ run' = [run EXCEPT ![p] = r]
           /\ r.at = step /\ r.command = run[p].command /\ r.forced = run[p].forced
           /\ r.text = run[p].text /\ r.asked = run[p].asked
<1> DEFINE r == [run[p] EXCEPT !.at = step]
<1>1. r \in Runs
  BY DEF ConsentInv, TelemetryTypes, Runs
<1>2. run' = [run EXCEPT ![p] = r]
  BY DEF Goes
<1>3. /\ r.at = step /\ r.command = run[p].command /\ r.forced = run[p].forced
      /\ r.text = run[p].text /\ r.asked = run[p].asked
  BY DEF ConsentInv, TelemetryTypes, Runs
<1> QED
  BY <1>1, <1>2, <1>3

LEMMA Rests ==
  ASSUME ConsentInv, NEW p \in Shells, Goes(p, "rest"), consent' = consent,
         config'.text = "on" => consent
  PROVE  ConsentInv'
<1>1. run' = [run EXCEPT ![p] = Resting]
  BY DEF Goes
<1> QED
  BY <1>1, RestingType, MoveKeeps DEF Resting

-----------------------------------------------------------------------------
(* One step of each command.                                               *)

\* `telemetry on` is begun: from here on the user agrees, and every command
\* under way knows of it.
LEMMA BeginOn ==
  ASSUME ConsentInv, NEW p \in Shells, run[p] = Resting,
         run' = Agreeing([run EXCEPT ![p] = Begun("on", FALSE, "no")]),
         consent' = TRUE, config' = config
  PROVE  ConsentInv'
<1> DEFINE started == [run EXCEPT ![p] = Begun("on", FALSE, "no")]
<1>1. started \in [Shells -> Runs]
  BY DEF ConsentInv, TelemetryTypes, Begun, Runs
<1>2. \A q \in Shells :
        run'[q] = IF started[q] # Resting
                  THEN [started[q] EXCEPT !.asked = TRUE] ELSE Resting
  BY DEF Agreeing
<1>3. \A q \in Shells : [started[q] EXCEPT !.asked = TRUE] \in Runs
  <2>1. \A r \in Runs : [r EXCEPT !.asked = TRUE] \in Runs
    BY DEF Runs
  <2> HIDE DEF started
  <2> QED
    BY <1>1, <2>1
<1>4. run' \in [Shells -> Runs]
  <2>1. \A q \in Shells : run'[q] \in Runs
    BY <1>2, <1>3, RestingType
  <2>2. run' = [q \in Shells |-> run'[q]]
    BY DEF Agreeing
  <2> QED
    BY <2>1, <2>2
<1>5. \A q \in Shells : run'[q] = Resting \/ run'[q].asked
  BY <1>1, <1>2 DEF Runs
<1>6. \A q \in Shells : q # p => started[q] = run[q]
  BY DEF ConsentInv, TelemetryTypes
<1>7. /\ started[p] = Begun("on", FALSE, "no")
      /\ Begun("on", FALSE, "no").text = "on"
      /\ Begun("on", FALSE, "no").command = "on"
      /\ Begun("on", FALSE, "no").at = "open"
  BY DEF ConsentInv, TelemetryTypes, Begun
<1> HIDE DEF started
<1>8. \A q \in Shells :
        /\ run'[q].text = "on" => run'[q].command = "on"
        /\ run'[q].at = "post" => run'[q].command = "scan"
        /\ run'[q].command = "scan" /\ (run'[q].at \in {"id", "post"} \/ run'[q].text = "bare")
             => run'[q].forced = "on" \/ (run'[q].forced = "no" /\ run'[q].asked)
  <2> SUFFICES ASSUME NEW q \in Shells
      PROVE  /\ run'[q].text = "on" => run'[q].command = "on"
             /\ run'[q].at = "post" => run'[q].command = "scan"
             /\ run'[q].command = "scan" /\ (run'[q].at \in {"id", "post"} \/ run'[q].text = "bare")
                  => run'[q].forced = "on" \/ (run'[q].forced = "no" /\ run'[q].asked)
    OBVIOUS
  <2>1. CASE started[q] = Resting
    <3>1. run'[q] = Resting
      BY <1>2, <2>1
    <3> QED
      BY <3>1 DEF Resting
  <2>2. CASE started[q] # Resting /\ q = p
    <3>1. /\ run'[q].text = "on" /\ run'[q].command = "on" /\ run'[q].at = "open"
      <4>1. run'[q] = [started[p] EXCEPT !.asked = TRUE]
        BY <1>2, <2>2
      <4>2. started[p] \in Runs
        BY <1>1
      <4> QED
        BY <1>7, <2>2, <4>1, <4>2 DEF Runs
    <3> QED
      BY <3>1
  <2>3. CASE started[q] # Resting /\ q # p
    <3>1. /\ run[q] \in Runs
          /\ run'[q] = [run[q] EXCEPT !.asked = TRUE]
      BY <1>2, <1>6, <2>3 DEF ConsentInv, TelemetryTypes
    <3>2. /\ run'[q].text = run[q].text /\ run'[q].command = run[q].command
          /\ run'[q].at = run[q].at /\ run'[q].forced = run[q].forced
          /\ run'[q].asked = TRUE
      BY <3>1 DEF Runs
    <3> QED
      BY <3>2 DEF ConsentInv, StepsAreBehind, Allowed
  <2> QED
    BY <2>1, <2>2, <2>3
<1> QED
  BY <1>4, <1>5, <1>8
     DEF ConsentInv, TelemetryTypes, ConsentIsBehind, StepsAreBehind, Allowed

LEMMA BeginOther ==
  ASSUME ConsentInv, NEW p \in Shells, NEW command \in {"off", "status", "scan"},
         NEW terminal \in BOOLEAN, NEW forced \in {"no", "on", "off"},
         run' = [run EXCEPT ![p] = Begun(command, terminal, forced)],
         consent' = consent, config' = config
  PROVE  ConsentInv'
<1> DEFINE r == Begun(command, terminal, forced)
<1>1. r \in Runs
  BY DEF Begun, Runs, ConsentInv, TelemetryTypes
<1>2. /\ r.asked = consent /\ r.command = command /\ r.text = "off"
      /\ r.at = "id" => command = "status"
      /\ r.at # "post"
  BY DEF Begun
<1>3. run' = [run EXCEPT ![p] = r]
  OBVIOUS
<1>4. config'.text = "on" => consent
  BY DEF ConsentInv, ConsentIsBehind
<1> HIDE DEF r
<1> QED
  BY <1>1, <1>2, <1>3, <1>4, MoveKeeps

LEMMA BeginKeeps ==
  ASSUME ConsentInv, NEW p \in Shells, Begin(p)
  PROVE  ConsentInv'
<1>1. CASE /\ run' = Agreeing([run EXCEPT ![p] = Begun("on", FALSE, "no")])
           /\ consent' = TRUE
  BY <1>1, BeginOn DEF Begin
<1>2. ASSUME NEW command \in {"off", "status"},
             run' = [run EXCEPT ![p] = Begun(command, FALSE, "no")],
             consent' = consent
      PROVE  ConsentInv'
  BY <1>2, BeginOther DEF Begin
<1>3. ASSUME NEW terminal \in BOOLEAN, NEW forced \in {"no", "on", "off"},
             run' = [run EXCEPT ![p] = Begun("scan", terminal, forced)],
             consent' = consent
      PROVE  ConsentInv'
  BY <1>3, BeginOther DEF Begin
<1> QED
  BY <1>1, <1>2, <1>3 DEF Begin

\* A command goes on to a step that asks nothing new of it.
LEMMA GoingOnKeeps ==
  ASSUME ConsentInv, NEW p \in Shells, NEW step \in {"open", "write", "ping", "id", "post"},
         run[p] # Resting, Goes(p, step), consent' = consent,
         config'.text = "on" => consent,
         step = "post" => run[p].command = "scan",
         run[p].command = "scan" /\ step \in {"id", "post"} => Allowed(p)
  PROVE  ConsentInv'
<1>1. PICK r \in Runs :
        /\ run' = [run EXCEPT ![p] = r]
        /\ r.at = step /\ r.command = run[p].command /\ r.forced = run[p].forced
        /\ r.text = run[p].text /\ r.asked = run[p].asked
  BY GoesOn
<1>2. /\ consent => run[p].asked
      /\ run[p].command = "on" => consent
      /\ run[p].text = "on" => run[p].command = "on"
      /\ run[p].command = "scan" /\ run[p].text = "bare" => Allowed(p)
  BY DEF ConsentInv, ConsentIsBehind, StepsAreBehind
<1> QED
  BY <1>1, <1>2, MoveKeeps DEF Allowed

LEMMA NoticeKeeps ==
  ASSUME ConsentInv, NEW p \in Shells, FirstRunNotice(p)
  PROVE  ConsentInv'
<1>1. run[p] # Resting /\ (config'.text = "on" => consent)
  BY DEF FirstRunNotice, Resting, ConsentInv, ConsentIsBehind
<1> QED
  BY <1>1, GoingOnKeeps DEF FirstRunNotice

LEMMA OpenKeeps ==
  ASSUME ConsentInv, NEW p \in Shells, OpenConfig(p)
  PROVE  ConsentInv'
<1>1. run[p] # Resting /\ config'.text # "on"
  BY DEF OpenConfig, Resting, EmptyFile
<1> QED
  BY <1>1, GoingOnKeeps DEF OpenConfig

\* Where a write ends, well or badly.
LEMMA AfterWriteKeeps ==
  ASSUME ConsentInv, NEW p \in Shells, run[p].at \in {"open", "write"},
         Goes(p, AfterWrite(p)), consent' = consent, config'.text = "on" => consent
  PROVE  ConsentInv'
<1>1. run[p] # Resting
  BY DEF Resting
<1>2. CASE run[p].command # "scan"
  BY <1>2, Rests DEF AfterWrite
<1>3. CASE run[p].command = "scan" /\ run[p].text = "bare"
  <2>1. Allowed(p)
    BY <1>3 DEF ConsentInv, StepsAreBehind
  <2> QED
    BY <1>1, <1>3, <2>1, GoingOnKeeps DEF AfterWrite
<1>4. CASE run[p].command = "scan" /\ run[p].text # "bare"
  BY <1>1, <1>4, GoingOnKeeps DEF AfterWrite
<1> QED
  BY <1>2, <1>3, <1>4

\* What is written reads as on only if the command is `telemetry on`.
LEMMA WrittenText ==
  ASSUME ConsentInv, NEW p \in Shells, config' = Overwritten(run[p].text)
  PROVE  config'.text = "on" => run[p].command = "on"
<1>1. config'.text \in {"garbled", run[p].text}
  BY DEF Overwritten
<1> QED
  BY <1>1 DEF ConsentInv, StepsAreBehind

LEMMA WriteKeeps ==
  ASSUME ConsentInv, NEW p \in Shells, WriteConfig(p)
  PROVE  ConsentInv'
<1>1. config'.text = "on" => run[p].command = "on"
  BY WrittenText DEF WriteConfig
<1>2. run[p].at \in {"open", "write"} /\ Goes(p, AfterWrite(p))
  BY DEF WriteConfig
<1>3. CASE consent' = consent
  <2>1. config'.text = "on" => consent
    BY <1>1 DEF ConsentInv, ConsentIsBehind
  <2> QED
    BY <1>2, <1>3, <2>1, AfterWriteKeeps
<1>4. CASE consent' # consent
  <2>1. /\ consent' = FALSE
        /\ run[p].command = "off"
        /\ \A q \in Shells : run[q].command # "on"
    BY <1>4 DEF WriteConfig, ConsentInv, TelemetryTypes
  <2>2. run' = [run EXCEPT ![p] = Resting]
    BY <1>2, <2>1 DEF Goes, AfterWrite
  <2>3. TelemetryTypes'
    BY <2>1, <2>2, RestingType DEF ConsentInv, TelemetryTypes
  <2>4. \A q \in Shells : run'[q] = IF q = p THEN Resting ELSE run[q]
    BY <2>2 DEF ConsentInv, TelemetryTypes
  <2>5. ConsentIsBehind'
    BY <1>1, <2>1, <2>4 DEF ConsentIsBehind, Resting
  <2>6. StepsAreBehind'
    BY <2>4 DEF ConsentInv, StepsAreBehind, Allowed, Resting
  <2> QED
    BY <2>3, <2>5, <2>6 DEF ConsentInv
<1> QED
  BY <1>3, <1>4

\* Whoever reads on, or is forced to, may ping: the config is on only while
\* the user agrees, and this command knows of it.
LEMMA PingKeeps ==
  ASSUME ConsentInv, NEW p \in Shells, Ping(p)
  PROVE  ConsentInv'
<1>1. run[p] # Resting /\ (config'.text = "on" => consent)
  BY DEF Ping, Resting, ConsentInv, ConsentIsBehind
<1>2. CASE ~IsEnabled(p)
  BY <1>1, <1>2, Rests DEF Ping
<1>3. CASE IsEnabled(p)
  <2>1. run[p].forced \in {"no", "on", "off"}
    BY DEF ConsentInv, TelemetryTypes, Runs
  <2>2. run[p].forced = "on" \/ config.text = "on"
    BY <1>3 DEF IsEnabled, ReadConfig
  <2>3. Allowed(p)
    BY <1>1, <1>3, <2>1, <2>2 DEF IsEnabled, Allowed, ConsentInv, ConsentIsBehind
  <2> QED
    BY <1>1, <1>3, <2>3, GoingOnKeeps DEF Ping
<1> QED
  BY <1>2, <1>3

LEMMA AnonIdKeeps ==
  ASSUME ConsentInv, NEW p \in Shells, AnonId(p)
  PROVE  ConsentInv'
<1>1. /\ run[p] # Resting
      /\ config'.text = "on" => consent
      /\ run[p].command = "scan" => Allowed(p)
  BY DEF AnonId, Resting, ConsentInv, ConsentIsBehind, StepsAreBehind
<1>2. CASE ReadConfig # "nothing" /\ run[p].command = "scan"
  BY <1>1, <1>2, GoingOnKeeps DEF AnonId
<1>3. CASE ReadConfig # "nothing" /\ run[p].command # "scan"
  BY <1>1, <1>3, Rests DEF AnonId
<1>4. CASE ReadConfig = "nothing"
  <2> DEFINE r == [run[p] EXCEPT !.at = "open", !.text = "bare"]
  <2>1. run' = [run EXCEPT ![p] = r]
    BY <1>4 DEF AnonId
  <2>2. /\ r \in Runs
        /\ r.at = "open" /\ r.command = run[p].command /\ r.forced = run[p].forced
        /\ r.text = "bare" /\ r.asked = run[p].asked
    <3>1. run[p] \in Runs
      BY DEF ConsentInv, TelemetryTypes
    <3> QED
      BY <3>1 DEF Runs
  <2>3. /\ consent => run[p].asked
        /\ run[p].command = "on" => consent
    BY <1>1 DEF ConsentInv, ConsentIsBehind
  <2>4. consent' = consent
    BY DEF AnonId
  <2> HIDE DEF r
  <2> QED
    BY <1>1, <2>1, <2>2, <2>3, <2>4, MoveKeeps DEF Allowed
<1> QED
  BY <1>2, <1>3, <1>4

LEMMA RestKeeps ==
  ASSUME ConsentInv, NEW p \in Shells, Post(p) \/ Interrupt(p)
  PROVE  ConsentInv'
<1>1. config'.text = "on" => consent
  BY DEF Post, Interrupt, ConsentInv, ConsentIsBehind
<1> QED
  BY <1>1, Rests DEF Post, Interrupt

LEMMA WriteFailsKeeps ==
  ASSUME ConsentInv, NEW p \in Shells, WriteConfigFails(p)
  PROVE  ConsentInv'
<1>1. config'.text = "on" => consent
  BY DEF WriteConfigFails, ConsentInv, ConsentIsBehind
<1> QED
  BY <1>1, AfterWriteKeeps DEF WriteConfigFails

LEMMA StepConsent == ConsentInv /\ [TelemetryNext]_telemetryVars => ConsentInv'
<1> SUFFICES ASSUME ConsentInv, [TelemetryNext]_telemetryVars
             PROVE  ConsentInv'
  OBVIOUS
<1>1. CASE UNCHANGED telemetryVars
  BY <1>1 DEF telemetryVars, ConsentInv, TelemetryTypes, ConsentIsBehind,
              StepsAreBehind, Allowed
<1>2. CASE TelemetryNext
  BY <1>2, BeginKeeps, NoticeKeeps, OpenKeeps, WriteKeeps, WriteFailsKeeps,
     PingKeeps, AnonIdKeeps, RestKeeps DEF TelemetryNext
<1> QED
  BY <1>1, <1>2

\* A ping is sent only with consent, or with REDASSAY_TELEMETRY set to on,
\* however many commands truncate, overwrite and garble the one config file
\* at a time (is_enabled, _write_config).
THEOREM ConsentHolds == TelemetrySpec => []NothingSentUnasked
<1>1. ConsentInv => NothingSentUnasked
  BY DEF ConsentInv, StepsAreBehind, Allowed, NothingSentUnasked
<1> QED
  BY <1>1, InitConsent, StepConsent, PTL DEF TelemetrySpec

=============================================================================
