---------------------------- MODULE FindingsStore ----------------------------
(***************************************************************************)
(* The contents of .redassay/findings.json and what each Store method does *)
(* to them (src/engine/redassay/store.py).  A store is a function from     *)
(* finding ids to records; an id that is not in the file has the status    *)
(* "absent".  Operators take a store value and return the next one, so     *)
(* that the modules with processes can apply them to a file, to a copy in  *)
(* memory or to the whole state.                                           *)
(*                                                                         *)
(* Abstractions.  A finding keeps its status, the authors of its comments  *)
(* ("person" for people and agents, "redassay" for the ones merge writes), *)
(* and the ages of its fix and last_seen stamps.  Ages are counted in      *)
(* steps of the pruning horizon and saturate at MaxAge.                    *)
(***************************************************************************)
EXTENDS Integers, FindingStatus

CONSTANTS
  Ids,         \* the finding identities, hash(rule, path, snippet)
  Paths,       \* files of the audited repository
  Rules,       \* rule ids
  PathOf,      \* the file of each identity
  RuleOf,      \* the rule of each identity
  AnyPath,     \* the path pattern "*"
  GlobOf,      \* the files fnmatch takes the name of each for: itself, or
               \* what a class matches when the name holds [, app/[id].tsx
               \* naming app/i.tsx and not itself
  MaxAge       \* ages saturate here

ASSUME IdentityAssumption ==
  /\ PathOf \in [Ids -> Paths]
  /\ RuleOf \in [Ids -> Rules]
  /\ AnyPath \notin Paths
  /\ GlobOf \in [Paths -> SUBSET Paths]
  /\ MaxAge \in Nat

Authors == {"person", "redassay"}
NoFix == -1
Ages == 0 .. MaxAge

FindingRecord ==
  [status : Statuses \cup {"absent"}, comments : SUBSET Authors,
   fix : Ages \cup {NoFix}, seen : Ages]

Blank == [status |-> "absent", comments |-> {}, fix |-> NoFix, seen |-> 0]

Stores == [Ids -> FindingRecord]
EmptyStore == [f \in Ids |-> Blank]

InStore(F, f) == F[f].status # "absent"

-----------------------------------------------------------------------------
(* Single-finding edits.                                                   *)

Commented(r, author) == [r EXCEPT !.comments = @ \cup {author}]

Moved(r, target) == [r EXCEPT !.status = SetStatus(@, target)]

\* Finding.set_status(DISMISSED) followed by add_comment: the comment is
\* kept even when the status may not move.
DismissedRecord(r) == Commented(Moved(r, "dismissed"), "person")

\* Store.record_fix: the new fix replaces the old one whatever the status.
FixRecorded(r) == Moved([r EXCEPT !.fix = 0], "fixed")

-----------------------------------------------------------------------------
(* Suppression rules: a rule id with a path pattern.                       *)

Patterns == [rule : Rules, path : Paths \cup {AnyPath}]

\* fnmatch(path, pattern)
Matches(pattern, path) == pattern = AnyPath \/ path \in GlobOf[pattern]

IsSuppressed(f, rules) ==
  \E s \in rules : s.rule = RuleOf[f] /\ Matches(s.path, PathOf[f])

-----------------------------------------------------------------------------
(* Store.merge: fold the findings `incoming` (a store value, "absent" for  *)
(* an identity not reported) into F.  `scope` is the set of files whose    *)
(* missing findings are taken as gone.                                     *)

Reported(F) == {f \in Ids : InStore(F, f)}

Seen(incoming, rules) ==
  {f \in Reported(incoming) : ~IsSuppressed(f, rules)}

\* Mutant: a dismissal does not survive a rescan.
RegressedEvenDismissed(F, incoming, rules) ==
  {f \in Seen(incoming, rules) :
     F[f].status \in {"fixed", "verified", "dismissed"}}

\* Mutant: verified is final.
RegressedFixedOnly(F, incoming, rules) ==
  {f \in Seen(incoming, rules) : F[f].status = "fixed"}

Regressed(F, incoming, rules) ==
  {f \in Seen(incoming, rules) : F[f].status \in {"fixed", "verified"}}

Gone(F, incoming, rules, scope) ==
  {f \in Reported(F) \ Seen(incoming, rules) : PathOf[f] \in scope}

\* MergeResult.verified: what the merge reports as verified.
VerifiedByMerge(F, incoming, rules, scope) ==
  {f \in Gone(F, incoming, rules, scope) : F[f].status \in {"fixed", "fixing"}}

Refreshed(r, seenAt) == [r EXCEPT !.seen = seenAt]

\* Mutant: the comment says reopened, the status does not.
ReopenedInCommentOnly(r, seenAt) == Commented(Refreshed(r, seenAt), "redassay")

Reopened(r, seenAt) ==
  Commented([Refreshed(r, seenAt) EXCEPT !.status = "open"], "redassay")

\* Mutant: the comment says verified, the status never does.
RetiredInCommentOnly(r) == Commented(r, "redassay")

Retired(r) == Commented(Moved(r, "verified"), "redassay")

Merge(F, incoming, rules, scope) ==
  LET seen == Seen(incoming, rules)
      back == Regressed(F, incoming, rules)
      settled == VerifiedByMerge(F, incoming, rules, scope)
  IN  [f \in Ids |->
         CASE f \in seen /\ ~InStore(F, f) -> incoming[f]
           [] f \in back -> Reopened(F[f], incoming[f].seen)
           [] f \in settled -> Retired(F[f])
           [] f \in (seen \ back) /\ InStore(F, f) -> Refreshed(F[f], incoming[f].seen)
           [] OTHER -> F[f]]

-----------------------------------------------------------------------------
(* Store.prune.                                                            *)

Stamp(r) == IF r.fix # NoFix THEN r.fix ELSE r.seen

Prunable(F, wanted, older) ==
  {f \in Reported(F) : F[f].status \in wanted /\ Stamp(F[f]) >= older}

\* Mutant: a pruned finding stays in the file under a status of its own.
PrunedSoftly(F, wanted, older) ==
  [f \in Ids |-> IF f \in Prunable(F, wanted, older)
                 THEN [F[f] EXCEPT !.status = "pruned"] ELSE F[f]]

Prune(F, wanted, older) ==
  [f \in Ids |-> IF f \in Prunable(F, wanted, older) THEN Blank ELSE F[f]]

\* Time passes: every stamp is one step older.
OneOlder(age) == IF age \in 0 .. MaxAge - 1 THEN age + 1 ELSE age

Aged(F) ==
  [f \in Ids |->
     IF InStore(F, f)
     THEN [F[f] EXCEPT !.fix = OneOlder(@), !.seen = OneOlder(@)] ELSE F[f]]

=============================================================================
