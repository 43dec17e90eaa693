------------------------------ MODULE BoardApi ------------------------------
(***************************************************************************)
(* The review board's server (src/engine/redassay/server/): each POST      *)
(* handler edits the store, saves it, and then pushes an action to the     *)
(* queue the agent drains.  The two files are written one after the other, *)
(* so a process that dies in between, or another request that gets in,     *)
(* leaves them telling different stories.                                  *)
(*                                                                         *)
(* Load, edit and save of one handler are one step here: how sessions on   *)
(* the store interfere is the subject of StoreSessions, how the lines of   *)
(* the queue's file do that of ActionQueue.  A handler that answers 400,   *)
(* 403, 404, 405, 409 or 413 changes nothing and has no step; neither has  *)
(* a GET.                                                                  *)
(***************************************************************************)
EXTENDS FindingsStore, Sequences, FiniteSets

CONSTANTS
  Threads,       \* request threads of the server
  Targets,       \* the statuses given by hand: posted to /status or on the command line
  Batches,       \* the id lists posted to /api/fix
  BatchCap,      \* how many ids of a batch are taken: 200 in the code
  Scannable,     \* the defects the audited code may have
  MaxActions,    \* bound on the actions ever pushed
  MaxCrashes     \* bound on deaths of the server

ASSUME BoardAssumption ==
  /\ Targets \subseteq Statuses
  /\ Batches \subseteq Seq(Ids)
  /\ BatchCap \in Nat \ {0}
  /\ Scannable \subseteq Ids
  /\ {MaxActions, MaxCrashes} \subseteq Nat

VARIABLES
  present,       \* external: the defects in the audited code
  findings,      \* data["findings"]
  suppressions,  \* data["suppressions"]
  actions,       \* actions.jsonl
  owed,          \* the action each thread has still to push
  lost,          \* history: findings named by what a crash kept back or a clear took
  crashes

storeVars == <<findings, suppressions>>
vars == <<present, storeVars, actions, owed, lost, crashes>>

AgentKinds == {"fix", "fix_all", "rescan"}

\* comment, status and dismiss actions only say what was done.
Action(kind, names) == [kind |-> kind, names |-> names, state |-> "pending"]
NoAction == Action("none", {})

Idle(t) == owed[t] = NoAction

Init ==
  /\ present \in SUBSET Scannable
  /\ findings = [f \in Ids |->
       IF f \in present THEN [Blank EXCEPT !.status = "open"] ELSE Blank]
  /\ suppressions = {}
  /\ actions = <<>>
  /\ owed = [t \in Threads |-> NoAction]
  /\ lost = {}
  /\ crashes = 0

-----------------------------------------------------------------------------
(* The handlers.                                                           *)

Room == Len(actions) + Cardinality({t \in Threads : ~Idle(t)}) < MaxActions

\* store.save() has returned; queue.push comes next.
Saved(t, records, rules, action) ==
  /\ Idle(t) /\ Room
  /\ findings' = records
  /\ suppressions' = rules
  /\ owed' = [owed EXCEPT ![t] = action]
  /\ UNCHANGED <<present, actions, lost, crashes>>

PostComment(t, f) ==
  /\ InStore(findings, f)
  /\ Saved(t, [findings EXCEPT ![f] = Commented(@, "person")], suppressions,
           Action("comment", {f}))

\* The one handler that looks at what set_status returns.
PostStatus(t, f, target) ==
  /\ InStore(findings, f)
  /\ CanTransition(findings[f].status, target)
  /\ Saved(t, [findings EXCEPT ![f] = Moved(@, target)], suppressions,
           Action("status", {f}))

\* path_glob is a field of the request the page never sets.
WithRule(f, rule) ==
  suppressions \cup IF rule THEN {[rule |-> RuleOf[f], path |-> PathOf[f]]} ELSE {}

PostDismiss(t, f, rule) ==
  /\ InStore(findings, f)
  /\ Saved(t, [findings EXCEPT ![f] = DismissedRecord(@)],
           WithRule(f, rule), Action("dismiss", {f}))

\* Reopening tells the queue nothing.
PostReopen(t, f) ==
  /\ InStore(findings, f)
  /\ Idle(t)
  /\ findings' = [findings EXCEPT ![f] = Moved(@, "open")]
  /\ UNCHANGED <<present, suppressions, actions, owed, lost, crashes>>

\* Whether or not the status may move to queued, the action is pushed.
PostFix(t, f, note) ==
  /\ InStore(findings, f)
  /\ Saved(t,
           [findings EXCEPT ![f] =
              IF note THEN Commented(Moved(@, "queued"), "person")
                      ELSE Moved(@, "queued")],
           suppressions, Action("fix", {f}))

\* The ids of a batch that are taken: the first ones, less the unknown.
Taken(batch) ==
  {f \in Ids : InStore(findings, f) /\ \E i \in DOMAIN batch : i <= BatchCap /\ batch[i] = f}

\* Mutant: only what was not queued before is handed over, yet all is marked.
NamedNewly(batch) == {f \in Taken(batch) : findings[f].status = "open"}

Named(batch) == Taken(batch)

PostFixBatch(t, batch) ==
  /\ batch # <<>>
  /\ Saved(t,
           [f \in Ids |->
              IF f \in Taken(batch) THEN Moved(findings[f], "queued") ELSE findings[f]],
           suppressions, Action("fix_all", Named(batch)))

PostRescan(t) == Saved(t, findings, suppressions, Action("rescan", {}))

\* ActionQueue.push, alone.
Push(t) ==
  /\ ~Idle(t)
  /\ actions' = Append(actions, owed[t])
  /\ owed' = [owed EXCEPT ![t] = NoAction]
  /\ UNCHANGED <<present, storeVars, lost, crashes>>

\* The server is killed: what its threads had not pushed is nowhere.
Crash ==
  /\ crashes < MaxCrashes
  /\ crashes' = crashes + 1
  /\ lost' = lost \cup UNION {owed[t].names : t \in Threads}
  /\ owed' = [t \in Threads |-> NoAction]
  /\ UNCHANGED <<present, storeVars, actions>>

Request(t) ==
  \/ \E f \in Ids : PostComment(t, f) \/ PostReopen(t, f)
  \/ \E f \in Ids, target \in Targets : PostStatus(t, f, target)
  \/ \E f \in Ids, flag \in BOOLEAN : PostDismiss(t, f, flag) \/ PostFix(t, f, flag)
  \/ \E batch \in Batches : PostFixBatch(t, batch)
  \/ PostRescan(t)

-----------------------------------------------------------------------------
(* The agent and the rest of the command line, each command a step.        *)

InState(state) == {i \in DOMAIN actions : actions[i].state = state}

WithState(which, state) ==
  [i \in DOMAIN actions |->
     IF i \in which THEN [actions[i] EXCEPT !.state = state] ELSE actions[i]]

\* Mutant: an agent that takes single fixes and forgets the batches.
WantingSingles ==
  {i \in InState("pending") : actions[i].kind \in AgentKinds \ {"fix_all"}}

Wanting == {i \in InState("pending") : actions[i].kind \in AgentKinds}

\* redassay queue pull
Pull ==
  /\ Wanting # {}
  /\ actions' = WithState(Wanting, "claimed")
  /\ UNCHANGED <<present, storeVars, owed, lost, crashes>>

\* The agent works on a finding it was handed and records a fix, whether
\* the defect is gone or not: redassay resolve.
Resolve(f) ==
  /\ \E i \in InState("claimed") : f \in actions[i].names
  /\ InStore(findings, f)
  /\ findings' = [findings EXCEPT ![f] = FixRecorded(@)]
  /\ present' \in {present, present \ {f}}
  /\ UNCHANGED <<suppressions, actions, owed, lost, crashes>>

\* redassay queue complete, as done or failed.
Close(i) ==
  /\ i \in InState("claimed")
  /\ \E state \in {"done", "failed"} : actions' = WithState({i}, state)
  /\ UNCHANGED <<present, storeVars, owed, lost, crashes>>

\* redassay queue clear: the file is unlinked, whatever waits in it.
Clear ==
  /\ actions # <<>>
  /\ actions' = <<>>
  /\ lost' = lost \cup UNION {actions[i].names : i \in DOMAIN actions}
  /\ UNCHANGED <<present, storeVars, owed, crashes>>

\* redassay status, comment and dismiss: the same edits, and no action.
ByHand(records, rules) ==
  /\ findings' = records
  /\ suppressions' = rules
  /\ UNCHANGED <<present, actions, owed, lost, crashes>>

Comment(f) ==
  /\ InStore(findings, f)
  /\ ByHand([findings EXCEPT ![f] = Commented(@, "person")], suppressions)

Status(f, target) ==
  /\ InStore(findings, f)
  /\ ByHand([findings EXCEPT ![f] = Moved(@, target)], suppressions)

Dismiss(f, rule) ==
  /\ InStore(findings, f)
  /\ ByHand([findings EXCEPT ![f] = DismissedRecord(@)], WithRule(f, rule))

CommandLine(f) ==
  \/ Comment(f)
  \/ \E target \in Targets : Status(f, target)
  \/ \E rule \in BOOLEAN : Dismiss(f, rule)

\* External: somebody edits the audited code.
EditCode(f) ==
  /\ f \in Scannable
  /\ present' = IF f \in present THEN present \ {f} ELSE present \cup {f}
  /\ UNCHANGED <<storeVars, actions, owed, lost, crashes>>

\* redassay scan of everything, on request or not.
Rescan ==
  /\ findings' = Merge(findings,
                       [f \in Ids |-> IF f \in present
                                      THEN [Blank EXCEPT !.status = "open"] ELSE Blank],
                       suppressions, Paths)
  /\ UNCHANGED <<present, suppressions, actions, owed, lost, crashes>>

\* redassay prune --older-than 0
PruneVerified ==
  /\ findings' = Prune(findings, {"verified"}, 0)
  /\ UNCHANGED <<present, suppressions, actions, owed, lost, crashes>>

-----------------------------------------------------------------------------

Next ==
  \/ \E t \in Threads : Request(t) \/ Push(t)
  \/ Crash
  \/ Pull \/ Clear
  \/ \E f \in Ids : Resolve(f) \/ CommandLine(f) \/ EditCode(f)
  \/ \E i \in DOMAIN actions : Close(i)
  \/ Rescan
  \/ PruneVerified

Spec == Init /\ [][Next]_vars

\* A server thread goes on to its push, and there is an agent that drains
\* the queue and, as its instructions say, closes what it was given.
FairSpec ==
  /\ Spec
  /\ \A t \in Threads : WF_vars(Push(t))
  /\ WF_vars(Pull)
  /\ \A i \in 1 .. MaxActions : WF_vars(i \in DOMAIN actions /\ Close(i))

-----------------------------------------------------------------------------
(* Properties.                                                             *)

Kinds == AgentKinds \cup {"none", "comment", "status", "dismiss"}
Actions ==
  [kind : Kinds, names : SUBSET Ids, state : {"pending", "claimed", "done", "failed"}]

TypeOK ==
  /\ present \subseteq Ids
  /\ findings \in Stores
  /\ suppressions \subseteq Patterns
  /\ actions \in Seq(Actions)
  /\ owed \in [Threads -> Actions]
  /\ lost \subseteq Ids
  /\ crashes \in Nat

\* The store and the queue agree on requests: every finding at "queued" is
\* named by a fix action in the queue or by one about to be pushed, unless a
\* crash between save and push (post_fix, post_fix_batch) or a clearing of the
\* queue took one along.
Asks(action, f) == action.kind \in {"fix", "fix_all"} /\ f \in action.names

QueuedWasAsked ==
  \A f \in Ids \ lost :
    findings[f].status = "queued" =>
      \/ \E i \in DOMAIN actions : Asks(actions[i], f)
      \/ \E t \in Threads : Asks(owed[t], f)

\* A dismissal stands: requests for a fix that were made before or after it
\* (post_fix pushes them whatever the status), the agent's resolve and any
\* scan leave it; only somebody asking for another status takes it away.
DismissalStands ==
  [][\A f \in Ids :
       findings[f].status = "dismissed" /\ findings'[f].status # "dismissed" =>
         \/ \E t \in Threads : PostReopen(t, f)
         \/ \E target \in Targets :
              Status(f, target) \/ \E t \in Threads : PostStatus(t, f, target)]_vars

\* Nothing waits for the agent for ever: a finding at "queued" that no crash
\* and no clear touched moves on, or an action that names it is closed.
Answered(f) ==
  \E i \in InState("done") \cup InState("failed") : Asks(actions[i], f)

QueuedIsAnswered ==
  \A f \in Ids :
    findings[f].status = "queued" /\ f \notin lost ~>
      findings[f].status # "queued" \/ Answered(f) \/ f \in lost

=============================================================================
