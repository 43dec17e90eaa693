------------------------------ MODULE BoardPage ------------------------------
(***************************************************************************)
(* The page of the board: server/static/app.js with lib/selection.js and   *)
(* lib/filters.js (src/engine/redassay).  JavaScript runs one handler at a *)
(* time; what interleaves is the answers of the server, which come back in *)
(* any order, with clicks, keys, the poll and what agents do meanwhile.    *)
(*                                                                         *)
(* A reply is a snapshot: what the server knew when it handled the call.   *)
(***************************************************************************)
EXTENDS Integers, SequencesExt

CONSTANTS
  NRows,          \* how many findings there may be, in the order of the ranking
  PageStatuses,   \* statuses findings take
  ShownStatuses,  \* the status filter of the page, when it is on
  Stamps,         \* values of updated_at: saves of one second share one
  MaxPending,     \* bound on the calls under way
  MaxChanges      \* bound on what others change and on calls that are lost

VARIABLES
  server,         \* external: the findings of the store, each with its status
  stamp,          \* external: updated_at of the store
  pending,        \* calls and replies under way, a set of records
  findings,       \* state.findings
  lastSignature,  \* state.lastSignature
  filtered,       \* is the status filter on?
  selection,      \* state.selection.ids
  anchor,         \* state.selection.anchor
  activeId,       \* state.activeId
  pane,           \* the finding the detail pane shows
  changes         \* bounds others' changes and lost calls

pageVars == <<server, stamp, pending, findings, lastSignature, filtered,
              selection, anchor, activeId, pane, changes>>

Nobody == 0                       \* null; rows are counted from 1
RowIds == 1 .. NRows
Nothing == [f \in {} |-> ""]
Stores == UNION {[held -> PageStatuses] : held \in SUBSET RowIds}

Poll == [kind |-> "state", force |-> FALSE, then |-> Nobody]
Forced(next) == [Poll EXCEPT !.force = TRUE, !.then = next]
Detail(f) == [kind |-> "detail", id |-> f]

Send(call) == Cardinality(pending) < MaxPending /\ pending' = pending \cup {call}

-----------------------------------------------------------------------------
(* lib/filters.js and lib/selection.js.                                    *)

\* applyFilters: the positions, in order, of the findings that pass.
VisibleOf(list, on) ==
  {f \in DOMAIN list : on => list[f] \in ShownStatuses}

Visible == VisibleOf(findings, filtered)

Toggled(chosen, f) == IF f \in chosen THEN chosen \ {f} ELSE chosen \cup {f}

\* Shift-click, the anchor being visible or not.
Extended(chosen, f) ==
  IF anchor = Nobody THEN chosen \cup {f}
  ELSE IF anchor \notin Visible THEN chosen \cup {f}
  ELSE chosen \cup {g \in Visible : \/ anchor <= g /\ g <= f
                                    \/ f <= g /\ g <= anchor}

\* Mutant: Selection.prune is forgotten.
RenderWithoutPrune(list, on, chosen, mark, active) ==
  LET seen == VisibleOf(list, on) IN
  /\ findings' = list
  /\ filtered' = on
  /\ selection' = chosen
  /\ anchor' = mark
  /\ activeId' = IF active \in seen THEN active ELSE Nobody

\* renderList, after whatever changed: the selection is pruned to what is
\* visible, and so is the active finding.
RenderList(list, on, chosen, mark, active) ==
  LET seen == VisibleOf(list, on) IN
  /\ findings' = list
  /\ filtered' = on
  /\ selection' = chosen \cap seen
  /\ anchor' = IF mark \in seen THEN mark ELSE Nobody
  /\ activeId' = IF active \in seen THEN active ELSE Nobody

\* renderList(null) clears the pane of a finding that is gone.
PaneAfter(active, shown) == IF active # Nobody /\ activeId' = Nobody THEN Nobody ELSE shown

PageInit ==
  /\ server \in Stores
  /\ stamp \in Stamps
  /\ pending = {Forced(Nobody)}
  /\ findings = Nothing
  /\ lastSignature = <<>>
  /\ filtered = TRUE
  /\ selection = {}
  /\ anchor = Nobody
  /\ activeId = Nobody
  /\ pane = Nobody
  /\ changes = 0

-----------------------------------------------------------------------------
(* The server.  A call waits, is handled, and its reply travels.           *)

Handled(call) == "statuses" \in DOMAIN call

\* Only a state reply is read; that a post has moved something is found out by
\* the refresh that follows.
Answered(call) ==
  [k \in DOMAIN call \cup {"statuses", "stamp"} |->
     CASE k = "statuses" -> IF call.kind = "state" THEN server ELSE Nothing
       [] k = "stamp" -> IF call.kind = "state" THEN stamp ELSE 0
       [] OTHER -> call[k]]

\* get_finding and the posts about one finding answer 404 for one the store no
\* longer holds; a batch passes over those (post_fix_batch).
Refused(call) ==
  \/ call.kind = "detail" /\ call.id \notin DOMAIN server
  \/ call.kind = "post" /\ ~call.batch /\ ~(call.ids \subseteq DOMAIN server)

\* updated_at does not run backwards.
Saved == stamp' \in {later \in Stamps : later >= stamp}

\* A post may give those it names a status.
Moves(call) ==
  /\ \E status \in PageStatuses, moved \in SUBSET (call.ids \cap DOMAIN server) :
       server' = [f \in DOMAIN server |-> IF f \in moved THEN status ELSE server[f]]
  /\ Saved

\* get_state, get_finding and the posts; a reply holds what the store holds
\* then.  A refusal is a toast to the page, which stays as it is.
Serve(call) ==
  /\ call \in pending /\ ~Handled(call)
  /\ IF call.kind = "post" /\ ~Refused(call)
     THEN Moves(call) ELSE UNCHANGED <<server, stamp>>
  /\ pending' = (pending \ {call}) \cup
                  (IF Refused(call) THEN {} ELSE {Answered(call)})
  /\ UNCHANGED <<findings, lastSignature, filtered, selection, anchor, activeId,
                 pane, changes>>

\* An agent, another page or a command: a finding changes status or is first
\* seen, or a prune takes it away.
OthersChange ==
  /\ changes < MaxChanges
  /\ changes' = changes + 1
  /\ \E f \in RowIds :
       \/ \E status \in PageStatuses :
            server' = [g \in DOMAIN server \cup {f} |-> IF g = f THEN status ELSE server[g]]
       \/ server' = [g \in DOMAIN server \ {f} |-> server[g]]
  /\ Saved
  /\ UNCHANGED <<pending, findings, lastSignature, filtered, selection, anchor,
                 activeId, pane>>

-----------------------------------------------------------------------------
(* The page.                                                               *)

\* Mutant: updated_at is taken to tell every store from the next.
StampAlone(reply) == <<reply.stamp>>

\* The statuses joined, in the order of the rows: no finding is named.
StatusesOf(list) ==
  LET order == SetToSortSeq(DOMAIN list, <)
  IN  [k \in 1 .. Len(order) |-> list[order[k]]]

\* store.stats() with its updated_at, and the statuses.
SignatureOf(reply) == <<reply.stamp, StatusesOf(reply.statuses)>>

\* refresh, from its await on.  After a post that was about one finding, act
\* goes on to fetch that finding if it is still the active one.
Refreshed(reply) ==
  /\ reply \in pending /\ Handled(reply) /\ reply.kind = "state"
  /\ IF ~reply.force /\ SignatureOf(reply) = lastSignature
     THEN /\ pending' = pending \ {reply}
          /\ UNCHANGED <<findings, lastSignature, selection, anchor, activeId, pane>>
     ELSE /\ lastSignature' = SignatureOf(reply)
          /\ RenderList(reply.statuses, filtered, selection, anchor, activeId)
          /\ pane' = PaneAfter(activeId, pane)
          /\ pending' = (pending \ {reply}) \cup
               (IF reply.then # Nobody /\ reply.then = activeId'
                THEN {Detail(reply.then)} ELSE {})
  /\ UNCHANGED <<server, stamp, filtered, changes>>

\* setInterval: a poll under way does not keep the next one from starting, but
\* two of them that nothing tells apart are one here.
StartPoll ==
  /\ Send(Poll)
  /\ UNCHANGED <<server, stamp, findings, lastSignature, filtered, selection,
                 anchor, activeId, pane, changes>>

\* Search, chips and the address bar: all change what is visible.
ChangeFilter ==
  /\ RenderList(findings, ~filtered, selection, anchor, activeId)
  /\ pane' = PaneAfter(activeId, pane)
  /\ UNCHANGED <<server, stamp, pending, lastSignature, changes>>

\* A click on a check box, with and without shift; the key x.
Check(f, shift) ==
  /\ f \in Visible
  /\ LET chosen == IF shift THEN Extended(selection, f) ELSE Toggled(selection, f)
         mark == IF shift /\ anchor \in Visible \cup {Nobody} THEN anchor ELSE f
     IN  RenderList(findings, filtered, chosen, mark, activeId)
  /\ UNCHANGED <<server, stamp, pending, lastSignature, pane, changes>>

SelectAll(on) ==
  /\ RenderList(findings, filtered, IF on THEN selection \cup Visible ELSE {},
                IF on THEN anchor ELSE Nobody, activeId)
  /\ UNCHANGED <<server, stamp, pending, lastSignature, pane, changes>>

\* openFinding, up to its await: the finding is the active one at once.
OpenFinding(f) ==
  /\ f \in Visible
  /\ Send(Detail(f))
  /\ RenderList(findings, filtered, selection, anchor, f)
  /\ UNCHANGED <<server, stamp, lastSignature, pane, changes>>

\* And from there: what came last is shown, whatever is active by now.
ShowDetail(reply) ==
  /\ reply \in pending /\ Handled(reply) /\ reply.kind = "detail"
  /\ pending' = pending \ {reply}
  /\ pane' = reply.id
  /\ UNCHANGED <<server, stamp, findings, lastSignature, filtered, selection, anchor,
                 activeId, changes>>

\* The buttons and forms of the pane, and fixSelected: act on the active
\* finding or on all that are selected.
Approve(ids, batch) ==
  /\ ids # {}
  /\ Send([kind |-> "post", ids |-> ids, batch |-> batch])
  /\ UNCHANGED <<server, stamp, findings, lastSignature, filtered, selection, anchor,
                 activeId, pane, changes>>

Act ==
  /\ activeId # Nobody /\ pane # Nobody
  /\ Approve({activeId}, FALSE)

FixSelected == Approve(selection, TRUE)

\* The post has been answered: a batch clears the selection, and a forced
\* refresh starts.
Posted(reply) ==
  /\ reply \in pending /\ Handled(reply) /\ reply.kind = "post"
  /\ pending' = (pending \ {reply}) \cup
       {Forced(IF reply.batch THEN Nobody ELSE CHOOSE f \in reply.ids : TRUE)}
  /\ IF reply.batch THEN selection' = {} /\ anchor' = Nobody
                    ELSE UNCHANGED <<selection, anchor>>
  /\ UNCHANGED <<server, stamp, findings, lastSignature, filtered, activeId, pane,
                 changes>>

\* fetch fails: refresh and openFinding leave everything as it was (a toast).
Lost(call) ==
  /\ call \in pending
  /\ changes < MaxChanges
  /\ changes' = changes + 1
  /\ pending' = pending \ {call}
  /\ UNCHANGED <<server, stamp, findings, lastSignature, filtered, selection, anchor,
                 activeId, pane>>

PageNext ==
  \/ OthersChange
  \/ \E call \in pending : Serve(call) \/ Refreshed(call) \/ ShowDetail(call)
                           \/ Posted(call) \/ Lost(call)
  \/ StartPoll
  \/ ChangeFilter
  \/ \E f \in RowIds : OpenFinding(f) \/ \E shift \in BOOLEAN : Check(f, shift)
  \/ \E on \in BOOLEAN : SelectAll(on)
  \/ Act
  \/ FixSelected

PageSpec == PageInit /\ [][PageNext]_pageVars

\* The timer and the browser go on, and so does the server; a full set of
\* calls is the bound's doing, not the page's.
PageFairness ==
  /\ SF_pageVars(StartPoll)
  /\ WF_pageVars(\E call \in pending : call.kind = "state" /\ Serve(call))
  /\ WF_pageVars(\E call \in pending : call.kind # "state" /\ Serve(call))
  /\ WF_pageVars(\E call \in pending : Refreshed(call))
  /\ WF_pageVars(\E call \in pending : ShowDetail(call) \/ Posted(call))

-----------------------------------------------------------------------------

\* "never hand the server an id that is no longer visible" (lib/selection.js):
\* what a batch or a key acts on is among the findings the filters let
\* through, whenever replies arrive, filters change and ranges are picked.
SelectionVisible ==
  /\ selection \subseteq Visible
  /\ {activeId, anchor} \subseteq Visible \cup {Nobody}

\* One finding took the place of another of the same status within the second
\* of the last save: no poll tells the two stores apart.
RowsSwapped ==
  /\ DOMAIN findings # DOMAIN server
  /\ lastSignature = <<stamp, StatusesOf(server)>>

\* Once the store is quiet the page comes to show it and goes on showing it,
\* with replies out of order, calls lost, findings that come and go and saves
\* within one second: the signature refresh() compares hides no status from
\* the reviewer, and no finding but one that replaced its like.
PageCatchesUp ==
  <>[][server' = server]_server => <>[](findings = server \/ RowsSwapped)

\* "Nothing is fixed until somebody approves it" (README.md): what the pane
\* showed when its button was pressed is what the approval names.
ApprovesWhatIsShown == [][Act => pane = activeId]_pageVars

=============================================================================
