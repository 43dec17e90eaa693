---------------------------- MODULE TaintTracking ----------------------------
(***************************************************************************)
(* The taint trackers for PHP, Ruby and Go (scanners/php.py, ruby.py and   *)
(* go.py of src/engine/redassay): three copies of one algorithm, with a    *)
(* table of operators and sinks each.                                      *)
(*                                                                         *)
(* A file is a sequence of assignments in the order of the text.  What the *)
(* patterns see of a piece of text, a Fragment, is whether a source, a     *)
(* conversion to a number or an escaper of some category occurs anywhere   *)
(* in it, which variables do, and which of them only as the key of a       *)
(* lookup.  Comments and strings are gone by then (strip_noise).           *)
(***************************************************************************)
EXTENDS Naturals, SequencesExt

CONSTANTS
  Languages,     \* a subset of {"php", "ruby", "go"}
  Names,         \* variables of a file
  Escapes,       \* categories whose escapers the files use
  MaxAssigns     \* bound on the length of a file

ASSUME TaintAssumption ==
  /\ Languages \subseteq {"php", "ruby", "go"}
  /\ MaxAssigns \in Nat

VARIABLES
  language,      \* the language of the file
  program        \* its assignments

taintVars == <<language, program>>

-----------------------------------------------------------------------------
(* The tables: operators that append, categories ESCAPERS has an entry for *)
(* (nothing cleans for another), and sinks.                                *)

\* A call is a sink for a category.  Its pattern reads all its arguments, or
\* one of them; a SQL call of Ruby must have a quote in that one.
Sink(rule, category, reads) == [rule |-> rule, category |-> category, reads |-> reads]

PhpSinks ==
  {Sink("file-inclusion", "path", "all"), Sink("command", "command", "all"),
   Sink("eval", "xss", "all"), Sink("sql", "sql", "all"),
   Sink("unserialize", "xss", "all"), Sink("file-read", "path", "all"),
   Sink("header", "xss", "all"), Sink("xss", "xss", "all"),
   Sink("file-write", "path", "all"), Sink("file-write", "path", "one"),
   Sink("callable", "command", "one")}

RubySinks ==
  {Sink("command", "command", "all"), Sink("eval", "command", "all"),
   Sink("template-injection", "command", "all"), Sink("sql", "sql", "quoted one"),
   Sink("deserialize", "deser", "all"), Sink("code-load", "command", "all"),
   Sink("open-redirect", "redirect", "all"), Sink("file-read", "path", "one"),
   Sink("xss", "xss", "all")}

GoSinks ==
  {Sink("sql", "sql", "one"), Sink("command", "command", "all"),
   Sink("file-read", "path", "one"), Sink("ssrf", "ssrf", "one"),
   Sink("open-redirect", "redirect", "one"), Sink("xss", "xss", "all")}

\* What build and reaches ask of a language.  Ruby's ||= overwrites.  The ASSIGN
\* of PHP and Ruby reads a comparison, "==", as an assignment of what follows its
\* first "="; Go's refuses it.
Comparison == "=="
Php == [appends |-> {".="}, misread |-> {Comparison},
        escapable |-> {"xss", "sql", "command", "path"}]
Ruby == [appends |-> {"<<=", "+="}, misread |-> {Comparison},
         escapable |-> {"xss", "sql", "command", "path", "redirect"}]
Go == [appends |-> {"+="}, misread |-> {},
       escapable |-> {"xss", "path", "ssrf", "redirect"}]

-----------------------------------------------------------------------------
(* Fragments and assignments.                                              *)

Fragments ==
  [source : BOOLEAN, refs : SUBSET Names, keys : SUBSET Names,
   escapes : SUBSET Escapes, number : BOOLEAN]

Fragment(source, refs, escapes, number) ==
  [source |-> source, refs |-> refs, keys |-> {}, escapes |-> escapes, number |-> number]

Plain == Fragment(FALSE, {}, {}, FALSE)

\* Two pieces of text side by side.
Beside(x, y) ==
  [source |-> x.source \/ y.source, refs |-> x.refs \cup y.refs,
   keys |-> (x.keys \cup y.keys) \ ((x.refs \ x.keys) \cup (y.refs \ y.keys)),
   escapes |-> x.escapes \cup y.escapes, number |-> x.number \/ y.number]

Escaped(lang, fragment) == fragment.escapes \cap lang.escapable

-----------------------------------------------------------------------------
(* Taint.build.                                                            *)

\* What is known of the file as a whole: the tainted names, and what each
\* was cleaned for where its taint was found.
Unknown == [tainted |-> {}, cleaned |-> [v \in Names |-> {}]]

Taints(fragment, known) ==
  fragment.source \/ fragment.refs \cap known.tainted # {}

Cleaned(lang, fragment, known) ==
  Escaped(lang, fragment) \cup UNION {known.cleaned[v] : v \in fragment.refs}

Learn(lang, known, assign) ==
  IF \/ assign.var \in known.tainted
     \/ ~Taints(assign.value, known)
     \/ assign.value.number
  THEN known
  ELSE [tainted |-> known.tainted \cup {assign.var},
        cleaned |-> [known.cleaned EXCEPT
                       ![assign.var] = Cleaned(lang, assign.value, known)]]

Pass(lang, known, file) ==
  FoldLeft(LAMBDA k, assign : Learn(lang, k, assign), known, file)

\* Three passes; one that changes nothing ends the loop early.
Known(lang, file) ==
  Pass(lang, Pass(lang, Pass(lang, Unknown, file), file), file)

\* The last write to v before place i, or 0.
LastWrite(file, v, i) ==
  Max({j \in 1 .. i - 1 : file[j].var = v} \cup {0})

\* Mutant: an append is taken for an overwrite.
HistoryOverwritten(lang, known, file) ==
  [i \in DOMAIN file |->
     [tainted |-> ~file[i].value.number /\ Taints(file[i].value, known),
      cleaned |-> Cleaned(lang, file[i].value, known)]]

\* For each assignment, the state it leaves its variable in.  An append lets
\* taint grow and keeps of the cleaning what both parts had.
History(lang, known, file) ==
  LET state[i \in DOMAIN file] ==
        LET value == file[i].value
            before == LastWrite(file, file[i].var, i)
            dirty == ~value.number /\ Taints(value, known)
            clean == Cleaned(lang, value, known)
        IN  IF file[i].op \in lang.appends /\ before # 0
            THEN LET both == dirty \/ state[before].tainted
                 IN  [tainted |-> both,
                      cleaned |-> IF both THEN clean \cap state[before].cleaned
                                          ELSE clean]
            ELSE [tainted |-> dirty, cleaned |-> clean]
  IN  state

Built(lang, file) ==
  LET known == Known(lang, file)
  IN  [known |-> known, history |-> History(lang, known, file)]

PhpTaint(file) == Built(Php, file)
RubyTaint(file) == Built(Ruby, file)
GoTaint(file) == Built(Go, file)

-----------------------------------------------------------------------------
(* Taint.reaches, for a sink in the line after the file's last.            *)

\* Mutant: what the file as a whole says of a name, wherever the sink is.
StateOfWholeFile(taint, file, v) ==
  [tainted |-> v \in taint.known.tainted, cleaned |-> taint.known.cleaned[v]]

StateAt(taint, file, v) ==
  LET last == LastWrite(file, v, Len(file) + 1)
  IN  IF last # 0 THEN taint.history[last]
      ELSE [tainted |-> v \in taint.known.tainted, cleaned |-> taint.known.cleaned[v]]

ReachesSink(lang, taint, file, fragment, category) ==
  /\ category \notin Escaped(lang, fragment)
  /\ ~fragment.number
  /\ \/ fragment.source
     \/ \E v \in fragment.refs \ fragment.keys :
          LET state == StateAt(taint, file, v)
          IN  state.tainted /\ category \notin state.cleaned

PhpReaches(file, fragment, category) ==
  ReachesSink(Php, PhpTaint(file), file, fragment, category)
RubyReaches(file, fragment, category) ==
  ReachesSink(Ruby, RubyTaint(file), file, fragment, category)
GoReaches(file, fragment, category) ==
  ReachesSink(Go, GoTaint(file), file, fragment, category)

-----------------------------------------------------------------------------
(* scan_file of each language for one call: the argument its pattern would *)
(* read alone, the others, and whether there is a quote in the first.      *)

Argument(sink, one, others) == IF sink.reads = "all" THEN Beside(one, others) ELSE one

PhpFlags(file, sink, one, others) ==
  PhpReaches(file, Argument(sink, one, others), sink.category)

RubyFlags(file, sink, one, others, quote) ==
  /\ sink.reads = "quoted one" => quote
  /\ RubyReaches(file, Argument(sink, one, others), sink.category)

GoFlags(file, sink, one, others) ==
  GoReaches(file, Argument(sink, one, others), sink.category)

-----------------------------------------------------------------------------
(* The file is written line by line.                                       *)

Values ==
  {Plain, Fragment(TRUE, {}, {}, TRUE)}
  \cup {Fragment(TRUE, {}, e, FALSE) : e \in SUBSET Escapes}
  \cup UNION {{Fragment(FALSE, {v}, e, FALSE) : e \in SUBSET Escapes} : v \in Names}

Lang == [php |-> Php, ruby |-> Ruby, go |-> Go][language]
Sinks == [php |-> PhpSinks, ruby |-> RubySinks, go |-> GoSinks][language]

Flagged(sink, one, others, quote) ==
  CASE language = "php" -> PhpFlags(program, sink, one, others)
    [] language = "ruby" -> RubyFlags(program, sink, one, others, quote)
    [] language = "go" -> GoFlags(program, sink, one, others)

TaintInit ==
  /\ language \in Languages
  /\ program = <<>>

AddAssignment ==
  /\ Len(program) < MaxAssigns
  /\ \E v \in Names, op \in {"="} \cup Lang.appends \cup Lang.misread, value \in Values :
       program' = Append(program, [var |-> v, op |-> op, value |-> value])
  /\ UNCHANGED language

TaintSpec == TaintInit /\ [][AddAssignment]_taintVars

-----------------------------------------------------------------------------
(* What running the file does, category by category.                       *)

Categories == {s.category : s \in Sinks}

\* The categories for which each name is dangerous in the end, if each line
\* is one operand that its escapers wrap.  A comparison changes nothing.
Danger(file) ==
  LET after[i \in 0 .. Len(file)] ==
        IF i = 0 THEN [v \in Names |-> {}]
        ELSE LET value == file[i].value
                 raw == IF value.source THEN Categories
                        ELSE UNION {after[i - 1][v] : v \in value.refs}
                 new == IF value.number THEN {} ELSE raw \ Escaped(Lang, value)
             IN  [after[i - 1] EXCEPT
                    ![file[i].var] =
                      IF file[i].op = Comparison THEN @
                      ELSE IF file[i].op \in Lang.appends THEN @ \cup new ELSE new]
  IN  after[Len(file)]

\* Names the left side of a comparison is.
Compared(file) == {file[i].var : i \in {j \in DOMAIN file : file[j].op = Comparison}}

\* Names the file copies from are written once, before they are read, and
\* compared with nothing.
CopiesAreSettled(file) ==
  \A i \in DOMAIN file : \A v \in file[i].value.refs :
    /\ v \notin Compared(file)
    /\ \E j \in 1 .. i - 1 : file[j].var = v
    /\ \A j, k \in DOMAIN file : file[j].var = v /\ file[k].var = v => j = k

OnlyOverwrites(file) == \A i \in DOMAIN file : file[i].op \in {"=", Comparison}

Use(v) == [Plain EXCEPT !.refs = {v}]
Lookup(v) == [Use(v) EXCEPT !.keys = {v}]

\* In a file whose copied names are written once, every dangerous value that
\* gets to a sink is flagged, through any chain of copies, appends, escapers
\* for other categories and rewrites, whatever other names are compared with
\* (Taint.build and reaches; the second pass of build depends on what the
\* first found out about the whole file).
DangerIsFlagged ==
  program # <<>> /\ CopiesAreSettled(program) =>
    \A v \in Names \ Compared(program), sink \in Sinks :
      sink.category \in Danger(program)[v] => Flagged(sink, Use(v), Plain, TRUE)

\* Without appends, nothing else is flagged: a later constant, an escaper for
\* the sink's category, a number, a lookup or a bound parameter silences it
\* (docs/architecture.md: the state at a sink is whatever was last written).
FlaggedIsDanger ==
  program # <<>> /\ CopiesAreSettled(program) /\ OnlyOverwrites(program) =>
    \A v \in Names \ Compared(program), sink \in Sinks :
      /\ Flagged(sink, Use(v), Plain, TRUE) => sink.category \in Danger(program)[v]
      /\ ~Flagged(sink, Lookup(v), Plain, TRUE)
      /\ sink.reads # "all" => ~Flagged(sink, Plain, Use(v), TRUE)

=============================================================================
