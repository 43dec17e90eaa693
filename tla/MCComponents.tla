---------------------------- MODULE MCComponents -----------------------------
(***************************************************************************)
(* One run for the components that share no state: the behaviours are      *)
(* those of one of them, the others standing still at a fixed start.       *)
(***************************************************************************)
EXTENDS BoardPage, CallGraph, EntrySurface, Prefilter, PythonTaint, ScanGate,
        TaintTracking, Telemetry, Versions

VARIABLE part          \* the component that runs

\* Those of the components of one algorithm each.
algorithmVars == <<written, candidate, versionVars>>
vars == <<part, pageVars, graphVars, pyVars, gateVars, taintVars, telemetryVars,
          algorithmVars>>

-----------------------------------------------------------------------------
(* The page: two findings, and reviewers that pick, that read or that only *)
(* look on while one finding takes the place of another.                   *)

Regimes == {"page: picking", "page: reading", "page: watching"}

-----------------------------------------------------------------------------
(* The call graph: nested symbols, and two of one name.                    *)

Sym(name, path, start, end) ==
  [name |-> name, path |-> path, start |-> start, end |-> end]
View == Sym("view", "web", 1, 3)
Helper == Sym("Helper", "lib", 1, 9)
Run == Sym("run", "lib", 2, 4)
Dead == Sym("dead", "lib", 6, 7)
OtherRun == Sym("run", "other", 1, 2)
MCSymbols == {View, Helper, Run, Dead, OtherRun}
MCCallersOf == [view |-> {}, Helper |-> {Dead}, run |-> {View, Dead}, dead |-> {}]
MCEntryPoints == {[path |-> "web", line |-> 2]}
MCPlaces ==
  {[path |-> "web", line |-> 3], [path |-> "lib", line |-> 3],
   [path |-> "lib", line |-> 7], [path |-> "other", line |-> 1],
   [path |-> "other", line |-> 8]}

-----------------------------------------------------------------------------
(* The surface: files of up to three of these handlers.                    *)

TextOf(shape) ==
  CASE shape = "blank" -> <<>>
    [] shape = "decorator" -> <<"char", "open", "quote", "quote", "close">>
    [] shape = "def" -> <<"char", "open", "char", "comma", "char", "close">>
    [] OTHER -> <<"char", "comma", "char">>
Plainly(shape) == SourceLine(shape, {}, TextOf(shape), NoRoute)
Saying(shape, mark) == SourceLine(shape, {mark}, TextOf(shape), NoRoute)
Decorated(method) ==
  SourceLine("decorator", {}, TextOf("decorator"), Route("http", method, FALSE, FALSE, 0))
\* name("path", then what follows.
Called(kind, method, public, following) ==
  LET matched == <<"char", "open", "quote", "quote">>
  IN  SourceLine("code", {}, matched \o following,
                 Route(kind, method, public, TRUE, Len(matched)))
\* get "path", then what follows.
Unbracketed(following) ==
  SourceLine("code", {}, <<"char", "quote", "quote">> \o following,
             Route("http", "POST", FALSE, TRUE, 3))

MCHandlers ==
  {<<Decorated("POST"), Saying("decorator", "guard"), Plainly("def"), Plainly("code")>>,
   <<Decorated("POST"), Plainly("def"), Saying("code", "guard"), Plainly("blank")>>,
   <<Saying("comment", "public"), Decorated("GET"), Decorated("PUT"), Plainly("def"),
     Plainly("code")>>,
   <<Saying("code", "guard")>>,                                     \* an import
   <<Saying("decorator", "guard")>>,                  \* is taken for the next one's
   <<Called("http", "DELETE", FALSE,
            <<"comma", "open", "char", "comma", "char", "close", "close", "comma", "comma">>)>>,
   <<Called("http", "POST", TRUE, <<"comma">>), Plainly("code"),
     SourceLine("code", {}, <<"quote", "comma", "close", "quote", "close">>, NoRoute)>>,
   <<Unbracketed(<<"comma", "quote", "quote">>)>>,
   <<Called("http", "USE", FALSE, <<"close">>),
     Called("socket", "", FALSE, <<"comma", "close">>)>>}

-----------------------------------------------------------------------------
(* The prefilter: patterns of up to two branches of up to two atoms.       *)

MCWordLength == [long |-> 5, lon |-> 4, abc |-> 3, ab |-> 2, a |-> 1, none |-> 0]
MCCut(w) ==
  CASE w = "long" -> "lon" [] w = "lon" -> "abc" [] w = "abc" -> "ab"
    [] w = "ab" -> "a" [] OTHER -> "none"

\* The constructs the bundled rules use: groups of each kind around a word, a
\* class and another group, with an alternative or without.
MCAtoms ==
  LET plain == <<Word("abc", ""), Word("long", "?"), Word("long", "+"), Word("long", ""),
                 Word("ab", ""), Other>>
      Around(look, quantifier) ==
        [k \in 1 .. 6 |-> Group(look, {<<k>>, <<4>>}, quantifier)]
  IN  plain \o Around("", "?") \o Around("", "") \o Around("(?=", "") \o Around("(?=", "?")
      \o <<Group("(?!", {<<5, 6>>}, ""), Group("", {<<6, 7>>}, ""), Group("", {<<6, 13>>}, "")>>

BranchAt(k) ==
  LET n == Len(MCAtoms)
      first == (k % n) + 1
      second == (k \div n) % (n + 1)
  IN  IF second = 0 THEN <<first>> ELSE <<first, second>>

MCCandidates ==
  LET n == Len(MCAtoms) * (Len(MCAtoms) + 1)
  IN  [k \in 1 .. 2 * n |->
         Pattern(MCAtoms, {BranchAt(k)} \cup (IF k > n THEN {<<1>>} ELSE {}))]

-----------------------------------------------------------------------------
(* Taint: the names are alike, so the first one written may be any.        *)

AnyName == CHOOSE v \in Names : TRUE

-----------------------------------------------------------------------------
(* Versions.                                                               *)

MCVersions ==
  {<<Number(1)>>, <<Number(1), Number(0)>>, <<Number(1), Number(2)>>, <<Number(2)>>,
   <<Number(1), Number(0), Stage("rc")>>, <<Number(1), Stage("rc"), Number(1)>>,
   <<Number(1), Glued(0, "alpha")>>, <<Stage("beta"), Number(2)>>,
   <<Number(10), Dashed(1)>>}
MCRelease == <<Number(1)>>

-----------------------------------------------------------------------------
(* The scans: three rules that mean the same, each loud in its own way.    *)

Loud(severity, confidence, scanner, limit, nearby) ==
  [severity |-> severity, confidence |-> confidence, concept |-> "command-injection",
   scanner |-> scanner, limit |-> limit, comments |-> FALSE, strings |-> FALSE,
   nearby |-> nearby, window |-> 1]
MCRuleTable ==
  [exec |-> Loud("high", "medium", "pattern", 2, "needed"),
   os |-> Loud("high", "medium", "pattern", 25, "any"),
   shell |-> Loud("critical", "low", "python-ast", 25, "any")]
MCAlphabet == <<"exec", "os", "shell">>
MCLineKinds ==
  {EmptyLine,
   [EmptyLine EXCEPT !.text = "sink", !.found = {"exec", "os", "shell"}],
   [EmptyLine EXCEPT !.text = "near", !.near = TRUE, !.ignores = {"os"}],
   [EmptyLine EXCEPT !.text = "quotes", !.triples = 1]}

-----------------------------------------------------------------------------

Components ==
  Regimes \cup {"graph", "surface", "prefilter", "python", "gate", "taint",
                  "telemetry", "versions"}

\* A page that has loaded and that nobody uses.
PageResting ==
  /\ server = [f \in RowIds |-> "open"] /\ findings = server
  /\ stamp = 0 /\ lastSignature = <<stamp, StatusesOf(findings)>> /\ pending = {}
  /\ filtered = TRUE /\ selection = {} /\ anchor = Nobody /\ activeId = Nobody
  /\ pane = Nobody /\ changes = 0

\* Any other part that does not run stands at one of its initial states.
Init ==
  /\ part \in Components
  /\ GraphInit /\ PyInit /\ GateInit /\ TaintInit /\ TelemetryInit
  /\ SurfaceInit /\ PrefilterInit /\ VersionsInit
  /\ IF part \in Regimes THEN PageInit ELSE PageResting
  /\ part # "page: watching" => server = [f \in RowIds |-> "open"]
  /\ part # "graph" => enabled
  /\ part # "gate" => lines = <<EmptyLine>>
  /\ part # "taint" => language = "php"
  /\ part # "telemetry" => config = NoFile
  /\ part # "versions" => fixedIn = MCRelease

PageStep ==
  /\ part \in Regimes
  /\ PageNext
  /\ part # "page: reading" => activeId' = Nobody
  /\ part # "page: picking" => selection' = {}
  /\ part # "page: watching" => changes' <= 1
  /\ part = "page: picking" => changes' = changes \/ DOMAIN server' # DOMAIN server
  /\ UNCHANGED <<graphVars, pyVars, gateVars, taintVars, telemetryVars, algorithmVars>>

GraphStep ==
  /\ part = "graph" /\ GraphNext
  /\ UNCHANGED <<pageVars, pyVars, gateVars, taintVars, telemetryVars, algorithmVars>>

PyStep ==
  /\ part = "python" /\ PyNext
  /\ UNCHANGED <<pageVars, graphVars, gateVars, taintVars, telemetryVars, algorithmVars>>

GateStep ==
  /\ part = "gate" /\ GateNext
  /\ UNCHANGED <<pageVars, graphVars, pyVars, taintVars, telemetryVars, algorithmVars>>

TaintStep ==
  /\ part = "taint" /\ AddAssignment /\ program'[1].var = AnyName
  /\ UNCHANGED <<pageVars, graphVars, pyVars, gateVars, telemetryVars, algorithmVars>>

TelemetryStep ==
  /\ part = "telemetry" /\ TelemetryNext
  /\ UNCHANGED <<pageVars, graphVars, pyVars, gateVars, taintVars, algorithmVars>>

SurfaceStep ==
  /\ part = "surface" /\ WriteHandler
  /\ UNCHANGED <<pageVars, graphVars, pyVars, gateVars, taintVars, telemetryVars,
                 candidate, versionVars>>

PrefilterStep ==
  /\ part = "prefilter" /\ NextCandidate
  /\ UNCHANGED <<pageVars, graphVars, pyVars, gateVars, taintVars, telemetryVars,
                 written, versionVars>>

VersionsStep ==
  /\ part = "versions" /\ VersionsNext
  /\ UNCHANGED <<pageVars, graphVars, pyVars, gateVars, taintVars, telemetryVars,
                 written, candidate>>

Next ==
  /\ UNCHANGED part
  /\ \/ PageStep \/ GraphStep \/ PyStep \/ GateStep \/ TaintStep \/ TelemetryStep
     \/ SurfaceStep \/ PrefilterStep \/ VersionsStep

Spec == Init /\ [][Next]_vars /\ (part \in Regimes => PageFairness)

=============================================================================
