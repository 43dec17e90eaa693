----------------------------- MODULE EntrySurface ----------------------------
(***************************************************************************)
(* The inventory of entry points and what stands in front of each          *)
(* (src/engine/redassay/surface.py).                                       *)
(*                                                                         *)
(* A line is its kind, what its text says of authorization, its characters *)
(* as the scan of an argument list tells them apart and, where an extractor *)
(* matches in it, the registration: at most one, and on one line.          *)
(***************************************************************************)
EXTENDS Integers, SequencesExt

CONSTANTS
  Radius,       \* how far _decorator_block looks; 8 in the code
  ReadAhead,    \* how much of the file follows a call-style match; 400
  Handlers,     \* what the author of a file may write next
  MaxHandlers

VARIABLE written     \* a file, as the sequence of its handlers

ASSUME RadiusAssumption == Radius \in Nat /\ ReadAhead \in Nat \ {0}

EXTERNALLY_REACHABLE == {"http", "server-action", "socket", "graphql", "webhook"}
MUTATING_METHODS == {"POST", "PUT", "PATCH", "DELETE"}

NoRoute == [kind |-> "none"]

\* A registration: its kind, its method ("" for none), whether its name says it
\* is meant to be public, whether the guard travels in the argument list, and
\* where in its line the match ends.
Route(kind, method, expectedPublic, callStyle, end) ==
  [kind |-> kind, method |-> method, expectedPublic |-> expectedPublic,
   callStyle |-> callStyle, end |-> end]

\* marks is a subset of {"guard", "public"}.
SourceLine(shape, marks, text, route) ==
  [shape |-> shape, marks |-> marks, text |-> text, route |-> route]
LineShapes == {"decorator", "comment", "blank", "def", "code"}
ArgumentTokens == {"comma", "open", "close", "quote", "char"}

Routes ==
  {NoRoute} \cup [kind : STRING, method : STRING, expectedPublic : BOOLEAN,
                 callStyle : BOOLEAN, end : Nat]
SourceLines == [shape : LineShapes, marks : SUBSET {"guard", "public"},
                text : Seq(ArgumentTokens), route : Routes]

-----------------------------------------------------------------------------
(* _arguments_after_path: the commas that separate arguments of this call, *)
(* none of a string, of a bracket or of what follows the call.  What it is *)
(* given is the text of the file after the match, lines and handlers       *)
(* below included: only a bracket that closes more than was opened, or the *)
(* length of that text, ends the call.                                     *)

ReadStates == [depth : Nat, quoted : BOOLEAN, count : Nat, over : BOOLEAN, read : Nat]
CallStart == [depth |-> 0, quoted |-> FALSE, count |-> 0, over |-> FALSE, read |-> 0]

Closes(was, t) == t = "close" /\ ~was.quoted

AfterToken(was, t) ==
  IF was.over THEN was
  ELSE [depth  |-> IF t = "open" /\ ~was.quoted THEN was.depth + 1
                   ELSE IF Closes(was, t) /\ was.depth # 0 THEN was.depth - 1
                   ELSE was.depth,
        quoted |-> IF t = "quote" THEN ~was.quoted ELSE was.quoted,
        count  |-> IF t = "comma" /\ ~was.quoted /\ was.depth = 0
                   THEN was.count + 1 ELSE was.count,
        over   |-> \/ Closes(was, t) /\ was.depth = 0
                   \/ was.read + 1 = ReadAhead,
        read   |-> was.read + 1]

\* How far the scan is after what of a line follows its first `from` characters.
AfterText(was, text, from) ==
  LET state[k \in 0 .. Len(text)] ==
        IF k <= from THEN was ELSE AfterToken(state[k - 1], text[k])
  IN  state[Len(text)]

\* How it stands at the end of the registration's line and of each line below.
CallRead(lines, at) ==
  LET state[k \in 0 .. Len(lines) - at] ==
        IF k = 0 THEN AfterText(CallStart, lines[at].text, lines[at].route.end)
        ELSE IF state[k - 1].over THEN state[k - 1]
        ELSE AfterText(state[k - 1], lines[at + k].text, 0)
  IN  state

ArgumentsAfterPath(lines, at) == CallRead(lines, at)[Len(lines) - at].count

-----------------------------------------------------------------------------

\* Mutant: a symmetric window.
SymmetricBlock(lines, at) ==
  {i \in DOMAIN lines : at - Radius <= i /\ i <= at + Radius}

\* _decorator_block: the decorators, comments and blank lines above, the
\* decorators and blank lines below, and the signature after them.
DecoratorBlock(lines, at) ==
  LET above == {i \in at - Radius .. at - 1 :
                  \A j \in i .. at - 1 :
                    j \in DOMAIN lines /\ lines[j].shape \in {"decorator", "comment", "blank"}}
      Through(i) == \A j \in at + 1 .. i :
                      j \in DOMAIN lines /\ lines[j].shape \in {"decorator", "blank"}
      below == {i \in at + 1 .. at + Radius : Through(i)}
      signature == {i \in at + 1 .. at + Radius :
                      Through(i - 1) /\ i \in DOMAIN lines /\ lines[i].shape = "def"}
  IN  {at} \cup above \cup below \cup signature

\* _auth_state
AuthState(lines, at) ==
  LET route == lines[at].route
      Says(where, mark) == \E i \in where : mark \in lines[i].marks
      where == IF route.callStyle THEN {at} ELSE DecoratorBlock(lines, at)
  IN  IF Says(where, "public") THEN "public"
      ELSE IF Says(where, "guard") THEN "guarded"
      ELSE IF route.callStyle /\ ArgumentsAfterPath(lines, at) >= 2 THEN "middleware"
      ELSE "none-found"

\* inventory, of one file: app.use registers middleware, not a route.
Inventory(lines) ==
  {[line |-> i, kind |-> lines[i].route.kind, method |-> lines[i].route.method,
    expectedPublic |-> lines[i].route.expectedPublic, auth |-> AuthState(lines, i)] :
     i \in {j \in DOMAIN lines : lines[j].route # NoRoute /\ lines[j].route.method # "USE"}}

IsMutating(e) == e.method \in MUTATING_METHODS
ExternallyReachable(e) == e.kind \in EXTERNALLY_REACHABLE

\* summarize()["unprotected"]
Unprotected(entries) ==
  {e \in entries : /\ e.auth = "none-found" /\ ExternallyReachable(e)
                   /\ ~e.expectedPublic
                   /\ IsMutating(e) \/ e.method = ""}

\* needs_review, in groups that come one after the other.
NeedsReview(entries) ==
  LET listed == {e \in entries :
                   /\ ExternallyReachable(e)
                   /\ e.auth \in {"none-found", "public", "middleware"}
                   /\ IsMutating(e) \/ e.method = "" \/ e.kind # "http"}
      Place(auth) == CASE auth = "none-found" -> 0 [] auth = "public" -> 1
                       [] auth = "middleware" -> 2
  IN  [e \in listed |-> Place(e.auth) + IF e.expectedPublic THEN 3 ELSE 0]

-----------------------------------------------------------------------------

\* A handler as the comments of surface.py take it: under a decorator that
\* registers there is something to decorate, and the call that registers ends
\* where the handler does, or before.  Ruby's routes, which need no bracket,
\* and a webhook's path that is no argument are not so.
SelfContained(handler) ==
  \A at \in DOMAIN handler :
    handler[at].route # NoRoute =>
      IF handler[at].route.callStyle
      THEN CallRead(handler, at)[Len(handler) - at].over
      ELSE \E s \in DOMAIN handler : s > at /\ handler[s].shape \notin {"decorator", "blank"}

\* What it ends in, if that could stand in front of the next one, says nothing
\* of authorization.
QuietBelow(handler) ==
  \A i \in DOMAIN handler :
    (\A j \in i .. Len(handler) : handler[j].shape \in {"decorator", "comment", "blank"})
      => handler[i].marks = {}

ASSUME HandlersAssumption == Handlers \subseteq Seq(SourceLines)

SurfaceInit == written = <<>>

\* inventory reads whatever file there is.
WriteHandler ==
  /\ Len(written) < MaxHandlers
  /\ \E handler \in Handlers : written' = Append(written, handler)

SurfaceSpec == SurfaceInit /\ [][WriteHandler]_written

-----------------------------------------------------------------------------

\* What is found in front of a handler is its own ("Consulting a window here
\* made adjacent routes disagree", surface.py): in a file of one handler after
\* the other, one that is self-contained reads as it does alone, whatever the
\* others are, if none above it ends in a word on authorization; and what the
\* summary counts as unprotected heads the list a reviewer is told to start
\* from.
HandlersStandAlone(handlers) ==
  LET file == FlattenSeq(handlers)
      offset[i \in 0 .. Len(handlers)] ==
        IF i = 0 THEN 0 ELSE offset[i - 1] + Len(handlers[i])
  IN  /\ \A i \in DOMAIN handlers :
           SelfContained(handlers[i]) /\ (\A k \in 1 .. i - 1 : QuietBelow(handlers[k])) =>
             {[e EXCEPT !.line = @ + offset[i - 1]] : e \in Inventory(handlers[i])} =
               {e \in Inventory(file) : offset[i - 1] < e.line /\ e.line <= offset[i]}
      /\ LET review == NeedsReview(Inventory(file))
             first == Unprotected(Inventory(file))
         IN  \A e \in first :
               e \in DOMAIN review /\ \A d \in DOMAIN review : review[e] <= review[d]

\* Handlers do not guard their neighbours, in any file that can be written.
HandlersAreJudgedAlone == HandlersStandAlone(written)

=============================================================================
