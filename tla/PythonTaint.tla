----------------------------- MODULE PythonTaint -----------------------------
(***************************************************************************)
(* The walk of the Python scanner over one syntax tree                     *)
(* (src/engine/redassay/scanners/python_ast.py): _Collector visits the     *)
(* nodes in the order of the text, keeps a stack of taint scopes, one per  *)
(* function around the node, and collects hits.  An action is one visit.   *)
(*                                                                         *)
(* An expression is what origin() makes of it: whether a source is read in *)
(* it, the names its value may come from, those it mentions at all, and    *)
(* whether it is a literal or a string built at run time.                  *)
(***************************************************************************)
EXTENDS Integers, SequencesExt

CONSTANTS
  Variables,      \* names used in the module
  UsedRules,      \* the rules whose calls occur in it
  MaxVisits,      \* bound on the nodes of the tree
  MaxFunctions    \* bound on the functions of the module

VARIABLES
  scopes,         \* the stack of TaintScopes; the last is the current one
  hits,           \* what _hit collected, rated
  entered,        \* functions met so far; the module itself is 0
  tested,         \* history: the names each function has put to a test
  visits

pyVars == <<scopes, hits, entered, tested, visits>>

-----------------------------------------------------------------------------
(* Rules: rating, and what a call must be like to be a hit.                *)

Rule(severity, confidence, fires, tells) ==
  [severity |-> severity, confidence |-> confidence, fires |-> fires, tells |-> tells]

\* fires: on a tainted, a computed (not literal), a built or tainted argument,
\* or always; tells: whether the hit says what the taint of the argument is.
RULES ==
  [eval_dynamic        |-> Rule("critical", "medium", "computed", TRUE),
   compile_tainted     |-> Rule("critical", "high", "tainted", TRUE),
   shell_dynamic       |-> Rule("high", "medium", "computed", TRUE),
   shell_true_literal  |-> Rule("low", "high", "literal", FALSE),
   sql_dynamic         |-> Rule("high", "high", "built", TRUE),
   pickle_load         |-> Rule("critical", "medium", "always", TRUE),
   yaml_unsafe_load    |-> Rule("high", "high", "always", TRUE),
   weak_hash           |-> Rule("medium", "medium", "always", FALSE),
   weak_random         |-> Rule("medium", "low", "always", FALSE),
   tls_verify_off      |-> Rule("high", "high", "always", FALSE),
   request_no_timeout  |-> Rule("low", "high", "always", FALSE),
   ssrf                |-> Rule("high", "high", "tainted", TRUE),
   path_tainted        |-> Rule("high", "high", "tainted", TRUE),
   mktemp_race         |-> Rule("medium", "high", "always", FALSE),
   flask_debug         |-> Rule("high", "high", "always", FALSE),
   chmod               |-> Rule("medium", "high", "always", FALSE),
   ssti                |-> Rule("high", "high", "computed", TRUE),
   open_redirect       |-> Rule("medium", "high", "tainted", TRUE),
   assert_security     |-> Rule("high", "medium", "always", FALSE),
   swallowed_exception |-> Rule("low", "medium", "always", FALSE),
   hosts_wildcard      |-> Rule("medium", "high", "always", FALSE),
   django_debug_true   |-> Rule("high", "medium", "always", FALSE)]

\* Those that are about a statement, not about a call.
StatementRules ==
  {"assert_security", "swallowed_exception", "hosts_wildcard", "django_debug_true"}

ASSUME RulesAssumption == UsedRules \subseteq DOMAIN RULES

Ranks == [info |-> 0, low |-> 1, medium |-> 2, high |-> 3, critical |-> 4]

StepUp == [info |-> "info", low |-> "low", medium |-> "high",
           high |-> "critical", critical |-> "critical"]

StepDown == [info |-> "info", low |-> "info", medium |-> "low",
             high |-> "medium", critical |-> "medium"]

\* _adjust
Adjusted(rule, tainted, guarded) ==
  IF ~tainted THEN [severity |-> RULES[rule].severity,
                    confidence |-> RULES[rule].confidence]
  ELSE IF guarded THEN [severity |-> StepDown[RULES[rule].severity],
                        confidence |-> "low"]
  ELSE [severity |-> StepUp[RULES[rule].severity], confidence |-> "high"]

-----------------------------------------------------------------------------
(* Expressions and scopes.  The origin of a taint is the function in which *)
(* its source was read: a scope maps the names it knows to origins.        *)

NoOrigin == -1
Functions == 0 .. MaxFunctions

Literal == [source |-> FALSE, names |-> {}, literal |-> TRUE, built |-> FALSE]
Request == [Literal EXCEPT !.source = TRUE, !.literal = FALSE]
Copy(v) == [Literal EXCEPT !.names = {v}, !.literal = FALSE]
Format(v) == [Copy(v) EXCEPT !.built = TRUE]

Expressions == {Literal, Request} \cup {Copy(v) : v \in Variables}
Arguments == Expressions \cup {Format(v) : v \in Variables}

NewScope(f, parameters) ==
  [function |-> f, guarded |-> {},
   names |-> [v \in Variables |-> IF v \in parameters THEN f ELSE NoOrigin]]

Scope == Last(scopes)

Origin(expression) ==
  IF expression.source THEN Scope.function
  ELSE LET found == {Scope.names[v] : v \in expression.names} \ {NoOrigin}
       IN  IF found = {} THEN NoOrigin ELSE CHOOSE f \in found : TRUE

\* mark keeps the origin a name has, and nothing ever takes it away.
Marked(targets, origin) ==
  [scopes EXCEPT ![Len(scopes)].names =
     [v \in Variables |-> IF v \in targets /\ @[v] = NoOrigin THEN origin ELSE @[v]]]

\* _guarded_names and _bails_out: what a test may check, and whether a branch
\* of the if gives up.
Tests == [names : SUBSET Variables, bailsOut : BOOLEAN]

\* A hit as scan_file reports it.
Rated(rule, origin, names) ==
  LET rating == Adjusted(rule, origin # NoOrigin, names \cap Scope.guarded # {})
  IN  [rule |-> rule, function |-> Scope.function, origin |-> origin, names |-> names,
       severity |-> rating.severity, confidence |-> rating.confidence]

Hit(rule, origin, names) == hits' = hits \cup {Rated(rule, origin, names)}

Visit == visits < MaxVisits /\ visits' = visits + 1

PyInit ==
  /\ scopes = <<NewScope(0, {})>>
  /\ hits = {}
  /\ entered = 0
  /\ tested = {}
  /\ visits = 0

-----------------------------------------------------------------------------
(* The visits.                                                             *)

\* The parameters of a decorated handler hold request data.
EnterFunction ==
  /\ Visit
  /\ entered < MaxFunctions
  /\ entered' = entered + 1
  /\ \E parameters \in SUBSET Variables :
       scopes' = Append(scopes, NewScope(entered + 1, parameters))
  /\ UNCHANGED <<hits, tested>>

\* Mutant: the names of a function are still known after it.
ExitKeepingNames ==
  /\ Len(scopes) > 1
  /\ scopes' = [Front(scopes) EXCEPT ![Len(scopes) - 1].names =
       [v \in Variables |-> IF @[v] = NoOrigin THEN Scope.names[v] ELSE @[v]]]
  /\ UNCHANGED <<hits, entered, tested, visits>>

ExitFunction ==
  /\ Len(scopes) > 1
  /\ scopes' = Front(scopes)
  /\ UNCHANGED <<hits, entered, tested, visits>>

\* visit_Assign, visit_AnnAssign and, for its "as" names, visit_With.  A node
\* that changes nothing, like a clean value's assignment, is no step.
Assign(targets, value) ==
  /\ Visit
  /\ Origin(value) # NoOrigin
  /\ scopes' = Marked(targets, Origin(value))
  /\ UNCHANGED <<hits, entered, tested>>

\* What a test checks is guarded from here on if a branch gives up.
VisitIf(test) ==
  /\ Visit
  /\ test.bailsOut
  /\ scopes' = [scopes EXCEPT ![Len(scopes)].guarded = @ \cup test.names]
  /\ tested' = tested \cup ({Scope.function} \X test.names)
  /\ UNCHANGED <<hits, entered>>

Fires(rule, argument) ==
  CASE RULES[rule].fires = "always" -> TRUE
    [] RULES[rule].fires = "literal" -> argument.literal
    [] RULES[rule].fires = "computed" -> ~argument.literal
    [] RULES[rule].fires = "tainted" -> Origin(argument) # NoOrigin
    [] RULES[rule].fires = "built" -> argument.built \/ Origin(argument) # NoOrigin

\* visit_Call: a hit says what the taint is only if its rule asks for it.  What
\* is guarded is looked for in all of the call, `beside` the argument too.
VisitCall(rule, argument, beside) ==
  /\ Visit
  /\ Fires(rule, argument)
  /\ Hit(rule, IF RULES[rule].tells THEN Origin(argument) ELSE NoOrigin,
         argument.names \cup beside)
  /\ UNCHANGED <<scopes, entered, tested>>

\* visit_Assert, visit_ExceptHandler, _check_assign_rules.
VisitStatement(rule) ==
  /\ Visit
  /\ Hit(rule, NoOrigin, {})
  /\ UNCHANGED <<scopes, entered, tested>>

PyNext ==
  \/ EnterFunction
  \/ ExitFunction
  \/ \E v \in Variables, value \in Expressions : Assign({v}, value)
  \/ \E test \in Tests : VisitIf(test)
  \/ \E rule \in UsedRules \ StatementRules, argument \in Arguments,
        beside \in SUBSET Variables : VisitCall(rule, argument, beside)
  \/ \E rule \in UsedRules \cap StatementRules : VisitStatement(rule)

PySpec == PyInit /\ [][PyNext]_pyVars

-----------------------------------------------------------------------------

\* A rating departs from its rule's only for what happened in the hit's own
\* function, with any nesting and order of functions, assignments and tests
\* (docs/architecture.md, "Scope is one function"): a raised or lowered one is
\* tainted from there, and a lowered one names in its call what was tested there.
RatedByOwnFunction ==
  \A h \in hits :
    /\ h.origin \in {NoOrigin, h.function}
    /\ Ranks[h.severity] # Ranks[RULES[h.rule].severity] => h.origin = h.function
    /\ Ranks[h.severity] < Ranks[RULES[h.rule].severity] =>
         \E v \in h.names : <<h.function, v>> \in tested

=============================================================================
