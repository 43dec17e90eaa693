--------------------------- MODULE BoardApi_proofs ---------------------------
(***************************************************************************)
(* The board and its agent, for any set of findings, threads and batches.  *)
(***************************************************************************)
EXTENDS BoardApi, FindingsStore_proofs, TLAPS

(***************************************************************************)
(* Actions.                                                                *)
(***************************************************************************)

LEMMA ActionType ==
  ASSUME NEW kind \in Kinds, NEW names \in SUBSET Ids
  PROVE  Action(kind, names) \in Actions
  BY DEF Action, Actions

LEMMA NoActionType == NoAction \in Actions /\ \A f : ~Asks(NoAction, f)
  BY ActionType DEF NoAction, Action, Actions, Kinds, Asks

\* Pull and complete change the state of actions and nothing else of them.
LEMMA WithStateKeeps ==
  ASSUME actions \in Seq(Actions), NEW which, NEW state \in {"claimed", "done", "failed"}
  PROVE  /\ WithState(which, state) \in Seq(Actions)
         /\ DOMAIN WithState(which, state) = DOMAIN actions
         /\ \A i \in DOMAIN actions : \A f :
              Asks(WithState(which, state)[i], f) <=> Asks(actions[i], f)
<1> DEFINE after == WithState(which, state)
<1>1. \A a \in Actions : /\ [a EXCEPT !.state = state] \in Actions
                         /\ [a EXCEPT !.state = state].kind = a.kind
                         /\ [a EXCEPT !.state = state].names = a.names
  BY DEF Actions
<1>2. \A i \in DOMAIN actions : actions[i] \in Actions
  OBVIOUS
<1>3. /\ DOMAIN after = DOMAIN actions
      /\ \A i \in DOMAIN actions :
           after[i] = IF i \in which THEN [actions[i] EXCEPT !.state = state] ELSE actions[i]
  BY DEF WithState
<1>4. \A i \in DOMAIN actions :
        /\ after[i] \in Actions
        /\ after[i].kind = actions[i].kind /\ after[i].names = actions[i].names
  BY <1>1, <1>2, <1>3
<1>5. after = [i \in 1 .. Len(actions) |-> after[i]]
  BY DEF WithState
<1>6. after \in Seq(Actions)
  BY <1>3, <1>4, <1>5
<1> QED
  BY <1>3, <1>4, <1>6 DEF Asks

(***************************************************************************)
(* Type correctness.                                                       *)
(***************************************************************************)

LEMMA RescannedType ==
  ASSUME NEW code
  PROVE  LET incoming == [f \in Ids |-> IF f \in code
                                        THEN [Blank EXCEPT !.status = "open"] ELSE Blank]
         IN  /\ incoming \in Stores
             /\ \A f \in Ids : incoming[f].status \in {"open", "absent"}
<1>1. /\ [Blank EXCEPT !.status = "open"] \in FindingRecord
      /\ [Blank EXCEPT !.status = "open"].status = "open"
  BY BlankType DEF FindingRecord, Statuses, Blank
<1> QED
  BY <1>1, BlankType DEF Stores

\* What a handler that saves and owes an action needs to show of them.
LEMMA SavedType ==
  ASSUME TypeOK, NEW t \in Threads, NEW records \in Stores, NEW rules \in SUBSET Patterns,
         NEW action \in Actions, Saved(t, records, rules, action)
  PROVE  TypeOK'
  BY DEF TypeOK, Saved

LEMMA WithRuleType ==
  ASSUME TypeOK, NEW f \in Ids, NEW rule
  PROVE  WithRule(f, rule) \in SUBSET Patterns
  BY IdentityAssumption DEF WithRule, TypeOK, Patterns

LEMMA RequestType ==
  ASSUME TypeOK, NEW t \in Threads, Request(t)
  PROVE  TypeOK'
<1>1. ASSUME NEW f \in Ids, InStore(findings, f)
      PROVE  /\ findings[f] \in FindingRecord
             /\ findings[f].status # "absent"
  BY <1>1 DEF TypeOK, Stores, InStore
<1>2. ASSUME NEW f \in Ids, NEW r \in FindingRecord
      PROVE  [findings EXCEPT ![f] = r] \in Stores
  BY DEF TypeOK, Stores
<1>3. \A f \in Ids, kind \in Kinds : Action(kind, {f}) \in Actions
  BY ActionType
<1>4. findings \in Stores /\ suppressions \in SUBSET Patterns
  BY DEF TypeOK
<1>5. "person" \in Authors /\ {"open", "queued", "dismissed"} \subseteq Statuses
  BY DEF Authors, Statuses
<1>6. ASSUME NEW f \in Ids, PostComment(t, f)
      PROVE  TypeOK'
  <2>1. [findings EXCEPT ![f] = Commented(@, "person")] \in Stores
    BY <1>1, <1>2, <1>5, <1>6, EditType DEF PostComment
  <2> QED
    BY <1>3, <1>4, <1>6, <2>1, SavedType DEF PostComment, Kinds
<1>7. ASSUME NEW f \in Ids, NEW target \in Targets, PostStatus(t, f, target)
      PROVE  TypeOK'
  <2>1. [findings EXCEPT ![f] = Moved(@, target)] \in Stores
    BY <1>1, <1>2, <1>5, <1>7, EditType, BoardAssumption DEF PostStatus
  <2> QED
    BY <1>3, <1>4, <1>7, <2>1, SavedType DEF PostStatus, Kinds
<1>8. ASSUME NEW f \in Ids, NEW rule \in BOOLEAN, PostDismiss(t, f, rule)
      PROVE  TypeOK'
  <2>1. [findings EXCEPT ![f] = DismissedRecord(@)] \in Stores
    BY <1>1, <1>2, <1>5, <1>8, EditType DEF PostDismiss
  <2>2. WithRule(f, rule) \in SUBSET Patterns
    BY WithRuleType
  <2> QED
    BY <1>3, <1>4, <1>8, <2>1, <2>2, SavedType DEF PostDismiss, Kinds
<1>9. ASSUME NEW f \in Ids, PostReopen(t, f)
      PROVE  TypeOK'
  <2>1. [findings EXCEPT ![f] = Moved(@, "open")] \in Stores
    BY <1>1, <1>2, <1>5, <1>9, EditType DEF PostReopen
  <2> QED
    BY <1>9, <2>1 DEF PostReopen, TypeOK
<1>10. ASSUME NEW f \in Ids, NEW note \in BOOLEAN, PostFix(t, f, note)
       PROVE  TypeOK'
  <2> DEFINE moved == Moved(findings[f], "queued")
  <2>1. moved \in FindingRecord /\ Commented(moved, "person") \in FindingRecord
    <3>1. moved \in FindingRecord
      BY <1>1, <1>5, <1>10, EditType DEF PostFix
    <3> QED
      BY <1>5, <3>1 DEF Commented, FindingRecord
  <2>2. [findings EXCEPT ![f] = IF note THEN Commented(Moved(@, "queued"), "person")
                                ELSE Moved(@, "queued")] \in Stores
    BY <1>2, <2>1
  <2> QED
    BY <1>3, <1>4, <1>10, <2>2, SavedType DEF PostFix, Kinds, AgentKinds
<1>11. ASSUME NEW batch \in Batches, PostFixBatch(t, batch)
       PROVE  TypeOK'
  <2>1. [f \in Ids |-> IF f \in Taken(batch) THEN Moved(findings[f], "queued")
                       ELSE findings[f]] \in Stores
    <3>1. \A f \in Taken(batch) : Moved(findings[f], "queued") \in FindingRecord
      BY <1>1, <1>5, EditType DEF Taken
    <3> QED
      BY <1>4, <3>1 DEF Stores
  <2>2. Action("fix_all", Named(batch)) \in Actions
    BY ActionType DEF Named, Taken, Kinds, AgentKinds
  <2> QED
    BY <1>4, <1>11, <2>1, <2>2, SavedType DEF PostFixBatch
<1>12. ASSUME PostRescan(t)
       PROVE  TypeOK'
  <2>1. Action("rescan", {}) \in Actions
    BY ActionType DEF Kinds, AgentKinds
  <2> QED
    BY <1>4, <1>12, <2>1, SavedType DEF PostRescan
<1> QED
  BY <1>6, <1>7, <1>8, <1>9, <1>10, <1>11, <1>12 DEF Request

LEMMA CommandLineType ==
  ASSUME TypeOK, NEW f \in Ids, CommandLine(f)
  PROVE  TypeOK'
<1>1. findings[f] \in FindingRecord /\ findings[f].status # "absent"
  BY DEF CommandLine, Comment, Status, Dismiss, InStore, TypeOK, Stores
<1>2. "person" \in Authors /\ "open" \in Statuses
  BY DEF Authors, Statuses
<1> DEFINE Edited == \E r \in FindingRecord, rules \in SUBSET Patterns :
                       ByHand([findings EXCEPT ![f] = r], rules)
<1>3. Edited
  <2>1. CASE Comment(f)
    BY <1>1, <1>2, <2>1, EditType DEF Comment, TypeOK
  <2>2. ASSUME NEW target \in Targets, Status(f, target)
        PROVE  Edited
    BY <1>1, <1>2, <2>2, EditType, BoardAssumption DEF Status, TypeOK
  <2>3. ASSUME NEW rule \in BOOLEAN, Dismiss(f, rule)
        PROVE  Edited
    BY <1>1, <1>2, <2>3, EditType, WithRuleType DEF Dismiss
  <2> QED
    BY <2>1, <2>2, <2>3 DEF CommandLine
<1> QED
  BY <1>3 DEF ByHand, TypeOK, Stores

LEMMA StepType == TypeOK /\ [Next]_vars => TypeOK'
<1> SUFFICES ASSUME TypeOK, [Next]_vars
             PROVE  TypeOK'
  OBVIOUS
<1>1. ASSUME NEW t \in Threads, Push(t)
      PROVE  TypeOK'
  BY <1>1, NoActionType DEF Push, TypeOK, storeVars
<1>2. ASSUME Crash
      PROVE  TypeOK'
  <2>1. UNION {owed[t].names : t \in Threads} \subseteq Ids
    BY DEF TypeOK, Actions
  <2> QED
    BY <1>2, <2>1, NoActionType DEF Crash, TypeOK, storeVars
<1>3. ASSUME Pull
      PROVE  TypeOK'
  BY <1>3, WithStateKeeps DEF Pull, TypeOK, storeVars
<1>4. ASSUME NEW f \in Ids, Resolve(f)
      PROVE  TypeOK'
  <2>1. FixRecorded(findings[f]) \in FindingRecord
    <3>1. findings[f] \in FindingRecord /\ findings[f].status # "absent"
      BY <1>4 DEF Resolve, InStore, TypeOK, Stores
    <3>2. "person" \in Authors /\ "open" \in Statuses
      BY DEF Authors, Statuses
    <3> QED
      BY <3>1, <3>2, EditType
  <2> QED
    BY <1>4, <2>1 DEF Resolve, TypeOK, Stores
<1>5. ASSUME NEW i \in DOMAIN actions, Close(i)
      PROVE  TypeOK'
  <2>1. PICK state \in {"done", "failed"} : actions' = WithState({i}, state)
    BY <1>5 DEF Close
  <2>2. actions' \in Seq(Actions)
    BY <2>1, WithStateKeeps DEF TypeOK
  <2> QED
    BY <1>5, <2>2 DEF Close, TypeOK, storeVars
<1>6. ASSUME NEW f \in Ids, EditCode(f)
      PROVE  TypeOK'
  BY <1>6, BoardAssumption DEF EditCode, TypeOK, storeVars
<1>7. ASSUME Rescan
      PROVE  TypeOK'
  BY <1>7, MergeType, RescannedType DEF Rescan, TypeOK
<1>8. ASSUME PruneVerified
      PROVE  TypeOK'
  BY <1>8, BlankType DEF PruneVerified, Prune, TypeOK, Stores
<1>9. CASE UNCHANGED vars
  BY <1>9 DEF vars, TypeOK, storeVars
<1>10. ASSUME Clear
       PROVE  TypeOK'
  <2>1. \A i \in DOMAIN actions : actions[i] \in Actions
    BY DEF TypeOK
  <2>2. UNION {actions[i].names : i \in DOMAIN actions} \subseteq Ids
    BY <2>1 DEF Actions
  <2> QED
    BY <1>10, <2>2 DEF Clear, TypeOK, storeVars
<1> QED
  BY <1>1, <1>2, <1>3, <1>4, <1>5, <1>6, <1>7, <1>8, <1>9, <1>10, RequestType,
     CommandLineType DEF Next

LEMMA InitType == Init => TypeOK
  BY RescannedType, NoActionType, BoardAssumption DEF Init, TypeOK

\* Every handler and every command keeps findings, actions and what threads
\* owe within their vocabulary.
THEOREM BoardTypeCorrect == Spec => []TypeOK
  BY InitType, StepType, PTL DEF Spec

(***************************************************************************)
(* How one edit moves a status.                                            *)
(***************************************************************************)

LEMMA EditedStatus ==
  ASSUME NEW r \in FindingRecord, r.status # "absent", NEW target \in Statuses
  PROVE  /\ Commented(r, "person").status = r.status
         /\ Moved(r, target).status \in {r.status, target}
         /\ DismissedRecord(r).status \in {r.status, "dismissed"}
         /\ FixRecorded(r).status \in {r.status, "fixed"}
  BY DEF FindingRecord, Commented, Moved, SetStatus, DismissedRecord, FixRecorded

\* What a dismissal withstands: everything but being opened or confirmed.
LEMMA DismissedStays ==
  ASSUME NEW r \in FindingRecord, r.status = "dismissed"
  PROVE  /\ Commented(r, "person").status = "dismissed"
         /\ Moved(r, "queued").status = "dismissed"
         /\ Commented(Moved(r, "queued"), "person").status = "dismissed"
         /\ DismissedRecord(r).status = "dismissed"
         /\ FixRecorded(r).status = "dismissed"
<1>1. /\ SetStatus("dismissed", "queued") = "dismissed"
      /\ SetStatus("dismissed", "fixed") = "dismissed"
      /\ SetStatus("dismissed", "dismissed") = "dismissed"
  BY DEF SetStatus, CanTransition, LegalTransitions
<1> QED
  BY <1>1 DEF FindingRecord, Commented, Moved, DismissedRecord, FixRecorded

LEMMA RescannedStatus ==
  ASSUME TypeOK, Rescan, NEW f \in Ids
  PROVE  /\ findings'[f].status \in {findings[f].status, "open", "verified"}
         /\ findings[f].status = "dismissed" => findings'[f].status = "dismissed"
<1> DEFINE incoming == [g \in Ids |-> IF g \in present
                                      THEN [Blank EXCEPT !.status = "open"] ELSE Blank]
           after == Merge(findings, incoming, suppressions, Paths)
<1>1. incoming \in Stores /\ incoming[f].status \in {"open", "absent"}
  BY RescannedType
<1>2. findings \in Stores /\ findings' = after
  BY DEF TypeOK, Rescan
<1> HIDE DEF incoming
<1>3. ~InStore(findings, f) => after[f] \in {incoming[f], findings[f]}
  BY <1>1, <1>2, MergeCases
<1>4. InStore(findings, f) =>
        after[f].status \in {findings[f].status} \cup
          IF findings[f].status \in {"fixed", "verified"} THEN {"open", "verified"} ELSE {}
  BY <1>1, <1>2, MergeCases
<1> HIDE DEF after
<1> QED
  BY <1>1, <1>2, <1>3, <1>4 DEF InStore

(***************************************************************************)
(* The store and the queue agree on requests.  The state that would refute *)
(* it is a finding marked queued whose action is gone; marks are made only *)
(* by the handlers that owe the action in the same step, and actions leave *)
(* a thread only for the queue, or for `lost`.                             *)
(***************************************************************************)

AskedFor(f) ==
  \/ \E i \in DOMAIN actions : Asks(actions[i], f)
  \/ \E t \in Threads : Asks(owed[t], f)

\* A step that queues nothing and drops no request.
LEMMA NoneForgotten ==
  ASSUME QueuedWasAsked, lost \subseteq lost',
         \A f \in Ids \ lost' :
           findings'[f].status = "queued" => findings[f].status = "queued" \/ AskedFor(f)',
         \A f \in Ids \ lost' : AskedFor(f) => AskedFor(f)'
  PROVE  QueuedWasAsked'
  BY DEF QueuedWasAsked, AskedFor

\* A handler has nothing to owe when it begins, so what was asked still is.
LEMMA SavedKeepsAsked ==
  ASSUME TypeOK, NEW t \in Threads, NEW records, NEW rules, NEW action,
         Saved(t, records, rules, action)
  PROVE  /\ lost' = lost
         /\ findings' = records
         /\ owed'[t] = action
         /\ \A f : AskedFor(f) => AskedFor(f)'
<1>1. owed' = [owed EXCEPT ![t] = action] /\ actions' = actions
  BY DEF Saved
<1>2. \A f : ~Asks(owed[t], f)
  BY NoActionType DEF Saved, Idle
<1>3. owed'[t] = action /\ \A u \in Threads : u # t => owed'[u] = owed[u]
  BY <1>1 DEF TypeOK
<1> QED
  BY <1>1, <1>2, <1>3 DEF Saved, AskedFor

LEMMA RequestAsked ==
  ASSUME "queued" \notin Targets, TypeOK, QueuedWasAsked, NEW t \in Threads, Request(t)
  PROVE  QueuedWasAsked'
<1>1. ASSUME NEW f \in Ids, InStore(findings, f)
      PROVE  /\ findings[f] \in FindingRecord
             /\ findings[f].status # "absent"
  BY <1>1 DEF TypeOK, Stores, InStore
<1>2. findings \in Stores /\ {"queued", "open"} \subseteq Statuses
  BY DEF TypeOK, Statuses
<1>0. ASSUME NEW f \in Ids, NEW r, NEW rules, NEW action,
              r.status = "queued" => findings[f].status = "queued",
              Saved(t, [findings EXCEPT ![f] = r], rules, action)
       PROVE  QueuedWasAsked'
  <2>1. \A g \in Ids : findings'[g].status = "queued" => findings[g].status = "queued"
    <3>1. findings' = [findings EXCEPT ![f] = r]
      BY <1>0 DEF Saved
    <3> QED
      BY <1>2, <1>0, <3>1 DEF Stores
  <2>2. lost' = lost /\ \A g : AskedFor(g) => AskedFor(g)'
    BY <1>0, SavedKeepsAsked
  <2> QED
    BY <2>1, <2>2, NoneForgotten
<1>3. ASSUME NEW f \in Ids, PostComment(t, f)
      PROVE  QueuedWasAsked'
  <2>1. Commented(findings[f], "person").status = findings[f].status
    BY <1>1, <1>2, <1>3, EditedStatus DEF PostComment
  <2> QED
    BY <1>3, <1>0, <2>1 DEF PostComment
<1>4. ASSUME NEW f \in Ids, NEW target \in Targets, PostStatus(t, f, target)
      PROVE  QueuedWasAsked'
  <2>1. Moved(findings[f], target).status \in {findings[f].status, target}
    BY <1>1, <1>4, EditedStatus, BoardAssumption DEF PostStatus
  <2> QED
    BY <1>4, <1>0, <2>1 DEF PostStatus
<1>5. ASSUME NEW f \in Ids, NEW rule \in BOOLEAN, PostDismiss(t, f, rule)
      PROVE  QueuedWasAsked'
  <2>1. DismissedRecord(findings[f]).status \in {findings[f].status, "dismissed"}
    BY <1>1, <1>2, <1>5, EditedStatus DEF PostDismiss
  <2> QED
    BY <1>5, <1>0, <2>1 DEF PostDismiss
<1>6. ASSUME NEW f \in Ids, PostReopen(t, f)
      PROVE  QueuedWasAsked'
  <2>1. Moved(findings[f], "open").status \in {findings[f].status, "open"}
    BY <1>1, <1>2, <1>6, EditedStatus DEF PostReopen
  <2> QED
    BY <1>2, <1>6, <2>1, NoneForgotten DEF PostReopen, AskedFor, Stores
<1>7. ASSUME NEW f \in Ids, NEW note \in BOOLEAN, PostFix(t, f, note)
      PROVE  QueuedWasAsked'
  <2>1. owed'[t] = Action("fix", {f})
    BY <1>7, SavedKeepsAsked DEF PostFix
  <2>2. AskedFor(f)'
    BY <2>1 DEF AskedFor, Asks, Action
  <2>3. \A g \in Ids : g # f => findings'[g] = findings[g]
    BY <1>2, <1>7 DEF PostFix, Saved, Stores
  <2> QED
    BY <1>7, <2>2, <2>3, SavedKeepsAsked, NoneForgotten DEF PostFix
<1>8. ASSUME NEW batch \in Batches, PostFixBatch(t, batch)
      PROVE  QueuedWasAsked'
  <2>1. owed'[t] = Action("fix_all", Taken(batch))
    BY <1>8, SavedKeepsAsked DEF PostFixBatch, Named
  <2>2. \A g \in Taken(batch) : AskedFor(g)'
    BY <2>1 DEF AskedFor, Asks, Action
  <2>3. \A g \in Ids : g \notin Taken(batch) => findings'[g] = findings[g]
    BY <1>8 DEF PostFixBatch, Saved
  <2> QED
    BY <1>8, <2>2, <2>3, SavedKeepsAsked, NoneForgotten DEF PostFixBatch
<1>9. ASSUME PostRescan(t)
      PROVE  QueuedWasAsked'
  BY <1>9, SavedKeepsAsked, NoneForgotten DEF PostRescan
<1> QED
  BY <1>3, <1>4, <1>5, <1>6, <1>7, <1>8, <1>9 DEF Request

LEMMA CommandLineAsked ==
  ASSUME "queued" \notin Targets, TypeOK, QueuedWasAsked, NEW f \in Ids, CommandLine(f)
  PROVE  QueuedWasAsked'
<1>1. findings[f] \in FindingRecord /\ findings[f].status # "absent"
  BY DEF CommandLine, Comment, Status, Dismiss, InStore, TypeOK, Stores
<1>2. ASSUME NEW r, NEW rules, ByHand([findings EXCEPT ![f] = r], rules),
             r.status = "queued" => findings[f].status = "queued"
      PROVE  QueuedWasAsked'
  <2>1. \A g \in Ids : findings'[g].status = "queued" => findings[g].status = "queued"
    BY <1>2 DEF ByHand, TypeOK, Stores
  <2> QED
    BY <1>2, <2>1, NoneForgotten DEF ByHand, AskedFor
<1>3. CASE Comment(f)
  <2>1. Commented(findings[f], "person").status = findings[f].status
    BY <1>1, EditedStatus DEF Statuses
  <2> QED
    BY <1>2, <1>3, <2>1 DEF Comment
<1>4. ASSUME NEW target \in Targets, Status(f, target)
      PROVE  QueuedWasAsked'
  <2>1. Moved(findings[f], target).status \in {findings[f].status, target}
    BY <1>1, EditedStatus, BoardAssumption
  <2> QED
    BY <1>2, <1>4, <2>1 DEF Status
<1>5. ASSUME NEW rule \in BOOLEAN, Dismiss(f, rule)
      PROVE  QueuedWasAsked'
  <2>1. DismissedRecord(findings[f]).status \in {findings[f].status, "dismissed"}
    BY <1>1, EditedStatus DEF Statuses
  <2> QED
    BY <1>2, <1>5, <2>1 DEF Dismiss
<1> QED
  BY <1>3, <1>4, <1>5 DEF CommandLine

LEMMA StepAsked ==
  ASSUME "queued" \notin Targets, TypeOK, QueuedWasAsked, [Next]_vars
  PROVE  QueuedWasAsked'
<1>1. ASSUME NEW t \in Threads, Push(t)
      PROVE  QueuedWasAsked'
  <2>1. actions' = Append(actions, owed[t]) /\ actions \in Seq(Actions) /\ owed[t] \in Actions
    BY <1>1 DEF Push, TypeOK
  <2>2. /\ DOMAIN actions \subseteq DOMAIN actions'
        /\ \A i \in DOMAIN actions : actions'[i] = actions[i]
        /\ \E i \in DOMAIN actions' : actions'[i] = owed[t]
    <3>1. Len(actions) + 1 \in DOMAIN actions' /\ actions'[Len(actions) + 1] = owed[t]
      BY <2>1
    <3> QED
      BY <2>1, <3>1
  <2>3. \A u \in Threads : u # t => owed'[u] = owed[u]
    BY <1>1 DEF Push, TypeOK
  <2>4. \A f : AskedFor(f) => AskedFor(f)'
    BY <2>2, <2>3 DEF AskedFor
  <2> QED
    BY <1>1, <2>4, NoneForgotten DEF Push, storeVars
<1>2. ASSUME Crash
      PROVE  QueuedWasAsked'
  <2>1. \A f \in Ids \ lost' : \A t \in Threads : ~Asks(owed[t], f)
    BY <1>2 DEF Crash, Asks
  <2>2. \A f \in Ids \ lost' : AskedFor(f) => AskedFor(f)'
    BY <1>2, <2>1 DEF Crash, AskedFor
  <2> QED
    BY <1>2, <2>2, NoneForgotten DEF Crash, storeVars
<1>3. ASSUME NEW which, NEW state \in {"claimed", "done", "failed"},
             actions' = WithState(which, state),
             findings' = findings, owed' = owed, lost' = lost
      PROVE  QueuedWasAsked'
  <2>1. \A f : AskedFor(f) => AskedFor(f)'
    BY <1>3, WithStateKeeps DEF AskedFor, TypeOK
  <2> QED
    BY <1>3, <2>1, NoneForgotten
<1>4. ASSUME Pull
      PROVE  QueuedWasAsked'
  BY <1>3, <1>4 DEF Pull, storeVars
<1>5. ASSUME NEW i \in DOMAIN actions, Close(i)
      PROVE  QueuedWasAsked'
  BY <1>3, <1>5 DEF Close, storeVars
<1>6. ASSUME UNCHANGED <<actions, owed, lost>>,
             \A f \in Ids : findings'[f].status = "queued" => findings[f].status = "queued"
      PROVE  QueuedWasAsked'
  BY <1>6, NoneForgotten DEF AskedFor
<1>7. ASSUME NEW f \in Ids, Resolve(f)
      PROVE  QueuedWasAsked'
  <2>1. FixRecorded(findings[f]).status \in {findings[f].status, "fixed"}
    <3>1. findings[f] \in FindingRecord /\ findings[f].status # "absent"
      BY <1>7 DEF Resolve, InStore, TypeOK, Stores
    <3> QED
      BY <3>1, EditedStatus DEF Statuses
  <2> QED
    BY <1>6, <1>7, <2>1 DEF Resolve, TypeOK, Stores
<1>8. ASSUME NEW f \in Ids, EditCode(f)
      PROVE  QueuedWasAsked'
  BY <1>6, <1>8 DEF EditCode, storeVars
<1>9. ASSUME Rescan
      PROVE  QueuedWasAsked'
  <2>1. \A f \in Ids : findings'[f].status = "queued" => findings[f].status = "queued"
    BY <1>9, RescannedStatus
  <2> QED
    BY <1>6, <1>9, <2>1 DEF Rescan
<1>10. ASSUME PruneVerified
       PROVE  QueuedWasAsked'
  <2>1. \A f \in Ids : findings'[f] \in {findings[f], Blank}
    BY <1>10 DEF PruneVerified, Prune
  <2> QED
    BY <1>6, <1>10, <2>1, BlankType DEF PruneVerified
<1>11. CASE UNCHANGED vars
  BY <1>6, <1>11 DEF vars, storeVars
<1>12. ASSUME Clear
       PROVE  QueuedWasAsked'
  <2>1. \A f \in Ids \ lost' : \A i \in DOMAIN actions : ~Asks(actions[i], f)
    BY <1>12 DEF Clear, Asks
  <2>2. \A f \in Ids \ lost' : AskedFor(f) => AskedFor(f)'
    BY <1>12, <2>1 DEF Clear, AskedFor
  <2> QED
    BY <1>12, <2>2, NoneForgotten DEF Clear, storeVars
<1> QED
  BY <1>1, <1>2, <1>4, <1>5, <1>7, <1>8, <1>9, <1>10, <1>11, <1>12, RequestAsked,
     CommandLineAsked DEF Next

\* post_fix and post_fix_batch: as long as nobody gives "queued" as a plain
\* status, every finding at queued is named by a request in the queue or in
\* the hands of a thread, however requests, commands, rescans, the agent and
\* crashes interleave; what a crash kept back or a clear took is in `lost`.
THEOREM QueuedIsAsked ==
  ASSUME "queued" \notin Targets
  PROVE  Spec => []QueuedWasAsked
<1>1. Init => QueuedWasAsked
  <2>1. [Blank EXCEPT !.status = "open"].status = "open"
    BY DEF Blank
  <2> QED
    BY <2>1, BlankType DEF Init, QueuedWasAsked
<1>2. TypeOK /\ QueuedWasAsked /\ [Next]_vars => QueuedWasAsked'
  BY StepAsked
<1> QED
  BY <1>1, <1>2, BoardTypeCorrect, PTL DEF Spec

(***************************************************************************)
(* A dismissal stands.                                                     *)
(***************************************************************************)

TakesDismissalAway(f) ==
  \/ \E t \in Threads : PostReopen(t, f)
  \/ \E target \in Targets :
       Status(f, target) \/ \E t \in Threads : PostStatus(t, f, target)

\* What a step does to one dismissed finding.
LEMMA OneStands ==
  ASSUME TypeOK, NEW f \in Ids, findings[f].status = "dismissed",
         [Next]_vars, findings'[f].status # "dismissed"
  PROVE  TakesDismissalAway(f)
<1>1. findings \in Stores /\ findings[f] \in FindingRecord
  BY DEF TypeOK, Stores
\* Edits of another finding do not reach this one, and most edits of this one
\* leave it dismissed.
<1>2. ASSUME NEW g \in Ids, NEW r, findings' = [findings EXCEPT ![g] = r],
             g = f => r.status = "dismissed"
      PROVE  FALSE
  BY <1>1, <1>2 DEF Stores
<1>3. ASSUME NEW t \in Threads, Request(t)
      PROVE  TakesDismissalAway(f)
  <2>1. ASSUME NEW g \in Ids, PostComment(t, g)
        PROVE  FALSE
    BY <1>1, <1>2, <2>1, DismissedStays DEF PostComment, Saved
  <2>2. ASSUME NEW g \in Ids, NEW target \in Targets, PostStatus(t, g, target)
        PROVE  TakesDismissalAway(f)
    <3>1. g = f
      BY <1>2, <2>2 DEF PostStatus, Saved
    <3> QED
      BY <2>2, <3>1 DEF TakesDismissalAway
  <2>3. ASSUME NEW g \in Ids, NEW rule \in BOOLEAN, PostDismiss(t, g, rule)
        PROVE  FALSE
    BY <1>1, <1>2, <2>3, DismissedStays DEF PostDismiss, Saved
  <2>4. ASSUME NEW g \in Ids, PostReopen(t, g)
        PROVE  TakesDismissalAway(f)
    <3>1. g = f
      BY <1>2, <2>4 DEF PostReopen
    <3> QED
      BY <2>4, <3>1 DEF TakesDismissalAway
  <2>5. ASSUME NEW g \in Ids, NEW note \in BOOLEAN, PostFix(t, g, note)
        PROVE  FALSE
    <3> DEFINE r == IF note THEN Commented(Moved(findings[g], "queued"), "person")
                    ELSE Moved(findings[g], "queued")
    <3>1. findings' = [findings EXCEPT ![g] = r]
      BY <2>5 DEF PostFix, Saved
    <3>2. g = f => r.status = "dismissed"
      BY <1>1, DismissedStays
    <3> QED
      BY <1>2, <3>1, <3>2
  <2>6. ASSUME NEW batch \in Batches, PostFixBatch(t, batch)
        PROVE  FALSE
    <3>1. findings'[f] \in {findings[f], Moved(findings[f], "queued")}
      BY <2>6 DEF PostFixBatch, Saved
    <3> QED
      BY <1>1, <3>1, DismissedStays
  <2>7. ASSUME PostRescan(t)
        PROVE  FALSE
    BY <2>7 DEF PostRescan, Saved
  <2> QED
    BY <1>3, <2>1, <2>2, <2>3, <2>4, <2>5, <2>6, <2>7 DEF Request
<1>4. ASSUME NEW g \in Ids, Resolve(g)
      PROVE  FALSE
  BY <1>1, <1>2, <1>4, DismissedStays DEF Resolve
<1>5. ASSUME Rescan
      PROVE  FALSE
  BY <1>5, RescannedStatus
<1>6. ASSUME PruneVerified
      PROVE  FALSE
  BY <1>6 DEF PruneVerified, Prune, Prunable
<1>7. ASSUME findings' = findings
      PROVE  FALSE
  BY <1>7
<1>8. ASSUME NEW t \in Threads, Push(t)
      PROVE  FALSE
  BY <1>7, <1>8 DEF Push, storeVars
<1>9. ASSUME Crash \/ Pull \/ Clear
      PROVE  FALSE
  BY <1>7, <1>9 DEF Crash, Pull, Clear, storeVars
<1>10. ASSUME NEW g \in Ids, EditCode(g)
       PROVE  FALSE
  BY <1>7, <1>10 DEF EditCode, storeVars
<1>11. ASSUME NEW i \in DOMAIN actions, Close(i)
       PROVE  FALSE
  BY <1>7, <1>11 DEF Close, storeVars
<1>12. CASE UNCHANGED vars
  BY <1>7, <1>12 DEF vars, storeVars
<1>13. ASSUME NEW g \in Ids, CommandLine(g)
       PROVE  TakesDismissalAway(f)
  <2>1. ASSUME Comment(g) \/ \E rule \in BOOLEAN : Dismiss(g, rule)
        PROVE  FALSE
    BY <1>1, <1>2, <2>1, DismissedStays DEF Comment, Dismiss, ByHand
  <2>2. ASSUME NEW target \in Targets, Status(g, target)
        PROVE  TakesDismissalAway(f)
    <3>1. g = f
      BY <1>2, <2>2 DEF Status, ByHand
    <3> QED
      BY <2>2, <3>1 DEF TakesDismissalAway
  <2> QED
    BY <1>13, <2>1, <2>2 DEF CommandLine
<1> QED
  BY <1>3, <1>4, <1>5, <1>6, <1>8, <1>9, <1>10, <1>11, <1>12, <1>13 DEF Next

\* Requests for a fix made before or after a dismissal, batches, the agent's
\* resolve, scans and prunes all leave it; only a reopening or a status asked
\* for by hand takes it away.
THEOREM DismissalsStand == Spec => DismissalStands
<1>1. TypeOK /\ [Next]_vars =>
        [\A f \in Ids :
           findings[f].status = "dismissed" /\ findings'[f].status # "dismissed" =>
             \/ \E t \in Threads : PostReopen(t, f)
             \/ \E target \in Targets :
                  Status(f, target) \/ \E t \in Threads : PostStatus(t, f, target)]_vars
  BY OneStands DEF TakesDismissalAway
<1> QED
  BY <1>1, BoardTypeCorrect, PTL DEF Spec, DismissalStands

=============================================================================
