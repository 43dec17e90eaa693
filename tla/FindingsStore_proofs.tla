------------------------ MODULE FindingsStore_proofs -------------------------
(***************************************************************************)
(* What the operations on the store do to a record and to the whole, for   *)
(* any store: the lemmas that the theorems about the commands and about    *)
(* the review board rest on.                                               *)
(***************************************************************************)
EXTENDS FindingsStore, TLAPS

(***************************************************************************)
(* Records.  Each edit of one finding gives a record again.                *)
(***************************************************************************)

\* The constants of the status vocabulary: a transition ends in a status.
LEMMA SetStatusType ==
  ASSUME NEW s \in Statuses, NEW t \in Statuses
  PROVE  /\ SetStatus(s, t) \in Statuses
         /\ CanTransition(s, SetStatus(s, t))
  BY DEF SetStatus, CanTransition, Statuses

\* Every single-finding edit of a stored record gives a stored record, and
\* moves its status along LegalTransitions if at all.
LEMMA EditType ==
  ASSUME NEW r \in FindingRecord, r.status # "absent",
         NEW t \in Statuses, NEW a \in Authors
  PROVE  /\ Moved(r, t) \in FindingRecord
         /\ Commented(r, a) \in FindingRecord
         /\ DismissedRecord(r) \in FindingRecord
         /\ FixRecorded(r) \in FindingRecord
<1>1. r.status \in Statuses
  BY DEF FindingRecord
<1>2. 0 \in Ages
  BY IdentityAssumption DEF Ages
<1>3. \A u \in Statuses : SetStatus(r.status, u) \in Statuses
  BY <1>1, SetStatusType
<1>4. /\ "dismissed" \in Statuses /\ "fixed" \in Statuses
      /\ "person" \in Authors
  BY DEF Statuses, Authors
<1>5. \A u \in Statuses : Moved(r, u) \in FindingRecord
  BY <1>3 DEF Moved, FindingRecord
<1>6. \A q \in FindingRecord, b \in Authors : Commented(q, b) \in FindingRecord
  BY DEF Commented, FindingRecord
<1>7. FixRecorded(r) \in FindingRecord
  BY <1>1, <1>2, <1>3, <1>4 DEF FixRecorded, Moved, FindingRecord
<1> QED
  BY <1>4, <1>5, <1>6, <1>7 DEF DismissedRecord

LEMMA BlankType == Blank \in FindingRecord /\ Blank.status = "absent"
<1>1. 0 \in Ages
  BY IdentityAssumption DEF Ages
<1> QED
  BY <1>1 DEF Blank, FindingRecord, Statuses

LEMMA OneOlderType == \A a \in Ages : OneOlder(a) \in Ages
  BY IdentityAssumption DEF OneOlder, Ages

(***************************************************************************)
(* What a merge does to one finding.  Everything else about scans, rescans *)
(* and added batches rests on this lemma.                                  *)
(***************************************************************************)

\* The five cases of Merge, with the status, comments and fix each leaves.
LEMMA MergeCases ==
  ASSUME NEW F \in Stores, NEW incoming \in Stores, NEW rules, NEW scope,
         NEW f \in Ids
  PROVE  LET after == Merge(F, incoming, rules, scope)[f]
             seen == f \in Seen(incoming, rules)
             gone == f \in Gone(F, incoming, rules, scope)
         IN  /\ after \in FindingRecord
             /\ ~InStore(F, f) =>
                  after = IF seen THEN incoming[f] ELSE F[f]
             /\ InStore(F, f) =>
                  /\ F[f].comments \subseteq after.comments
                  /\ after.fix = F[f].fix
                  /\ after.status =
                       IF seen /\ F[f].status \in {"fixed", "verified"}
                       THEN "open"
                       ELSE IF gone /\ F[f].status = "fixed"
                       THEN "verified"
                       ELSE F[f].status
<1> DEFINE after == Merge(F, incoming, rules, scope)[f]
           seen == Seen(incoming, rules)
           back == Regressed(F, incoming, rules)
           settled == VerifiedByMerge(F, incoming, rules, scope)
<1>1. /\ F[f] \in FindingRecord
      /\ incoming[f] \in FindingRecord
      /\ incoming[f].seen \in Ages
  BY DEF Stores, FindingRecord
<1>2. after = CASE f \in seen /\ ~InStore(F, f) -> incoming[f]
                [] f \in back -> Reopened(F[f], incoming[f].seen)
                [] f \in settled -> Retired(F[f])
                [] f \in (seen \ back) /\ InStore(F, f) ->
                      Refreshed(F[f], incoming[f].seen)
                [] OTHER -> F[f]
  BY DEF Merge
<1>3. /\ f \in back <=> f \in seen /\ F[f].status \in {"fixed", "verified"}
      /\ f \in back => InStore(F, f)
  BY DEF Regressed, InStore
<1>4. /\ f \in settled <=> /\ f \in Gone(F, incoming, rules, scope)
                           /\ F[f].status \in {"fixed", "fixing"}
      /\ f \in settled => InStore(F, f) /\ f \notin seen
  BY DEF VerifiedByMerge, Gone, Reported
<1>5. /\ Refreshed(F[f], incoming[f].seen) \in FindingRecord
      /\ Refreshed(F[f], incoming[f].seen).status = F[f].status
      /\ Refreshed(F[f], incoming[f].seen).comments = F[f].comments
      /\ Refreshed(F[f], incoming[f].seen).fix = F[f].fix
  BY <1>1 DEF Refreshed, FindingRecord
<1>6. LET r == Reopened(F[f], incoming[f].seen)
      IN  /\ r \in FindingRecord
          /\ r.status = "open"
          /\ F[f].comments \subseteq r.comments
          /\ r.fix = F[f].fix
  BY <1>1, <1>5 DEF Reopened, Commented, FindingRecord, Statuses, Authors
<1>7. ASSUME F[f].status \in {"fixed", "fixing"}
      PROVE  /\ Retired(F[f]) \in FindingRecord
             /\ Retired(F[f]).status =
                  IF F[f].status = "fixed" THEN "verified" ELSE "fixing"
             /\ F[f].comments \subseteq Retired(F[f]).comments
             /\ Retired(F[f]).fix = F[f].fix
  <2>1. SetStatus(F[f].status, "verified") =
          IF F[f].status = "fixed" THEN "verified" ELSE "fixing"
    BY <1>7 DEF SetStatus, CanTransition, LegalTransitions
  <2> QED
    BY <1>1, <1>7, <2>1 DEF Retired, Commented, Moved, FindingRecord,
                            Statuses, Authors
<1>8. CASE ~InStore(F, f)
  BY <1>1, <1>2, <1>3, <1>4, <1>8
<1>9. CASE f \in back
  <2>1. after = Reopened(F[f], incoming[f].seen)
    BY <1>2, <1>3, <1>4, <1>9
  <2> QED
    BY <1>3, <1>6, <1>9, <2>1
<1>10. CASE f \in settled
  <2>1. after = Retired(F[f])
    BY <1>2, <1>3, <1>4, <1>10
  <2>2. F[f].status \in {"fixed", "fixing"}
    BY <1>4, <1>10
  <2> QED
    BY <1>4, <1>7, <1>10, <2>1, <2>2
<1>11. CASE InStore(F, f) /\ f \in seen \ back
  <2>1. after = Refreshed(F[f], incoming[f].seen)
    BY <1>2, <1>4, <1>11
  <2>2. /\ F[f].status \notin {"fixed", "verified"}
        /\ f \notin Gone(F, incoming, rules, scope)
    BY <1>3, <1>11 DEF Gone
  <2> QED
    BY <1>5, <1>11, <2>1, <2>2
<1>12. CASE InStore(F, f) /\ f \notin seen /\ f \notin settled
  <2>1. after = F[f]
    BY <1>2, <1>3, <1>12
  <2>2. ~(f \in Gone(F, incoming, rules, scope) /\ F[f].status = "fixed")
    BY <1>4, <1>12
  <2> QED
    BY <1>1, <1>12, <2>1, <2>2
<1> QED
  BY <1>8, <1>9, <1>10, <1>11, <1>12

\* A finding the merge neither sees nor takes as gone stays as it was.
LEMMA MergeUntouched ==
  ASSUME NEW F \in Stores, NEW incoming \in Stores, NEW rules, NEW scope,
         NEW f \in Ids,
         f \notin Seen(incoming, rules), f \notin Gone(F, incoming, rules, scope)
  PROVE  Merge(F, incoming, rules, scope)[f] = F[f]
  BY DEF Merge, Regressed, VerifiedByMerge

\* A merge gives a store again.
LEMMA MergeType ==
  ASSUME NEW F \in Stores, NEW incoming \in Stores, NEW rules, NEW scope
  PROVE  Merge(F, incoming, rules, scope) \in Stores
<1>1. \A f \in Ids : Merge(F, incoming, rules, scope)[f] \in FindingRecord
  BY MergeCases
<1> QED
  BY <1>1 DEF Merge, Stores

=============================================================================
