------------------------------ MODULE CallGraph ------------------------------
(***************************************************************************)
(* `trace`: can a request get to a finding?  The cached view over the      *)
(* external graph tool (src/engine/redassay/callgraph.py) and the command  *)
(* that asks it of one finding after another (cmd_trace).                  *)
(*                                                                         *)
(* The graph itself is external: which symbols a file has, and which       *)
(* symbols call one of some name within the depth asked for.               *)
(***************************************************************************)
EXTENDS Integers, FiniteSets

CONSTANTS
  Symbols,       \* records [name, path, start, end]
  CallersOf,     \* name -> the symbols that reach a symbol of that name
  EntryPoints,   \* records [path, line]: what the inventory found
  Places,        \* records [path, line]: where findings are
  MAX_QUERIES    \* subprocesses one command may start

ASSUME GraphAssumption ==
  /\ MAX_QUERIES \in Nat
  /\ \A n \in DOMAIN CallersOf : CallersOf[n] \subseteq Symbols
  /\ \A s \in Symbols : s.name \in DOMAIN CallersOf

VARIABLES
  enabled,          \* the tool and its index are there
  symbolsByFile,    \* cache: path -> symbols, for the paths asked
  callersCache,     \* cache: name -> symbols, for the names asked
  queries,          \* subprocesses started
  answers,          \* place -> "unasked" or the last answer of reaches
  cut               \* history: a query failed, or was one too many

graphVars == <<enabled, symbolsByFile, callersCache, queries, answers, cut>>

Asked(cache, key) == key \in DOMAIN cache
Remember(cache, key, value) ==
  [k \in DOMAIN cache \cup {key} |-> IF k = key THEN value ELSE cache[k]]

Covers(s, place) ==
  s.path = place.path /\ s.start <= place.line /\ place.line <= s.end

GraphInit ==
  /\ enabled \in BOOLEAN
  /\ symbolsByFile = <<>>
  /\ callersCache = <<>>
  /\ queries = 0
  /\ answers = [p \in Places |-> "unasked"]
  /\ cut = FALSE

-----------------------------------------------------------------------------
(* What a command sees of the graph.  A result is [value, files, names,    *)
(* spent]: the answer, the caches after it and the subprocesses it took.   *)
(* ok: the tool answers; where it fails, emptiness is what is cached.      *)

SymbolsIn(path, ok) ==
  IF ~enabled \/ queries >= MAX_QUERIES
  THEN [value |-> {}, files |-> symbolsByFile, spent |-> 0]
  ELSE IF Asked(symbolsByFile, path)
  THEN [value |-> symbolsByFile[path], files |-> symbolsByFile, spent |-> 0]
  ELSE LET found == IF ok THEN {s \in Symbols : s.path = path} ELSE {}
       IN  [value |-> found, files |-> Remember(symbolsByFile, path, found), spent |-> 1]

\* Mutant: the cache is looked up by the depth alone.
CallersByDepth(name, spent, ok) ==
  IF callersCache # <<>>
  THEN [value |-> callersCache[CHOOSE n \in DOMAIN callersCache : TRUE],
        names |-> callersCache, spent |-> spent]
  ELSE [value |-> CallersOf[name], names |-> Remember(callersCache, name, CallersOf[name]),
        spent |-> spent + 1]

\* Here, the cache comes before the cap.
Callers(name, spent, ok) ==
  IF Asked(callersCache, name)
  THEN [value |-> callersCache[name], names |-> callersCache, spent |-> spent]
  ELSE IF queries + spent >= MAX_QUERIES
  THEN [value |-> {}, names |-> callersCache, spent |-> spent]
  ELSE LET found == IF ok THEN CallersOf[name] ELSE {}
       IN  [value |-> found, names |-> Remember(callersCache, name, found),
            spent |-> spent + 1]

\* The smallest symbols around a place.
Enclosing(symbols, place) ==
  LET around == {s \in symbols : Covers(s, place)}
  IN  {s \in around : \A t \in around : s.end - s.start <= t.end - t.start}

DeclaredIn(s, place) ==
  \E e \in EntryPoints : e.path = place.path /\ Covers(s, e)

InEntryFile(symbols) == \E s \in symbols, e \in EntryPoints : s.path = e.path

Verdict(callers) == IF InEntryFile(callers) THEN "reachable" ELSE "no-path"

-----------------------------------------------------------------------------

\* CallGraph.reaches, for one place; heard and told say whether the tool
\* answers the first and the second query.
Reaches(place, heard, told) ==
  LET file == SymbolsIn(place.path, heard)
      around == Enclosing(file.value, place)
      skipped == queries >= MAX_QUERIES \/ (file.spent = 1 /\ ~heard)
  IN  /\ enabled
      /\ symbolsByFile' = file.files
      /\ \/ /\ around = {}
            /\ answers' = [answers EXCEPT ![place] = "unknown"]
            /\ queries' = queries + file.spent
            /\ cut' = (cut \/ skipped)
            /\ UNCHANGED callersCache
         \/ \E target \in around :
              /\ DeclaredIn(target, place)
              /\ answers' = [answers EXCEPT ![place] = "reachable"]
              /\ queries' = queries + file.spent
              /\ cut' = (cut \/ skipped)
              /\ UNCHANGED callersCache
         \/ \E target \in around :
              LET asked == Callers(target.name, file.spent, told)
                  missing == ~Asked(asked.names, target.name)
              IN  /\ ~DeclaredIn(target, place)
                  /\ answers' = [answers EXCEPT ![place] = Verdict(asked.value)]
                  /\ callersCache' = asked.names
                  /\ queries' = queries + asked.spent
                  /\ cut' = (cut \/ skipped \/ missing
                                 \/ (asked.spent > file.spent /\ ~told))
      /\ UNCHANGED enabled

ReachesDisabled(place) ==
  /\ ~enabled
  /\ answers' = [answers EXCEPT ![place] = "unknown"]
  /\ UNCHANGED <<enabled, symbolsByFile, callersCache, queries, cut>>

\* cmd_trace: the next finding.
GraphNext ==
  \E place \in Places :
    \/ ReachesDisabled(place)
    \/ \E heard, told \in BOOLEAN : Reaches(place, heard, told)

GraphSpec == GraphInit /\ [][GraphNext]_graphVars

-----------------------------------------------------------------------------

\* What the graph has to say of a place, all its answers taken together.
GraphSays(place) ==
  LET around == Enclosing(Symbols, place)
  IN  IF around = {} THEN {"unknown"}
      ELSE {IF DeclaredIn(s, place) THEN "reachable" ELSE Verdict(CallersOf[s.name]) :
              s \in around}

\* The caches and the cap do not bend an answer (callgraph.py, "Honest about
\* absence"): whatever was asked before and in which order, it is the graph's
\* own, and once a query has failed or been refused it may say less than the
\* graph, but it never calls reachable what the graph does not.
AnswersAreTheGraphs ==
  \A place \in Places :
    answers[place] # "unasked" =>
      \/ answers[place] \in GraphSays(place)
      \/ ~enabled /\ answers[place] = "unknown"
      \/ cut /\ answers[place] \in {"unknown", "no-path"}

\* "No path found" is an observation of the graph, "different from the graph
\* has never heard of this code" (callgraph.py).
NoPathWasObserved ==
  \A place \in Places :
    answers[place] = "no-path" => "no-path" \in GraphSays(place)

=============================================================================
