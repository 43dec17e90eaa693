----------------------------- MODULE ActionQueue -----------------------------
(***************************************************************************)
(* ActionQueue of src/engine/redassay/queue.py: .redassay/actions.jsonl,   *)
(* to which the board's request threads and `queue push` append a line     *)
(* each and which the agent's `queue pull` and `queue complete` read whole *)
(* and replace whole.  No lock is taken by any of them.                    *)
(*                                                                         *)
(* A step is one system call on the file, or a read of all of it.  A line  *)
(* keeps the request, its number and its state.  An appender's descriptor  *)
(* stays with the inode, so a line written after the name was given to     *)
(* another file, or removed, is in no file any more.                       *)
(***************************************************************************)
EXTENDS Naturals, Sequences, FiniteSets, FiniteSetsExt

CONSTANTS
  Requests,      \* one call of push each
  AgentRequests, \* those of a kind in AGENT_KINDS
  Agents,        \* agents that drain the queue
  OneAgent,      \* the one of them that works where only one does
  CrowdRequests, \* the requests where several do
  Crowds,        \* whether several do: a set of Booleans
  PullLimits,    \* the --limit values given to pull; 0 is none
  MaxReleases,   \* bound on calls of release; no command makes one
  MaxCrashes     \* bound on agents and appenders that die half way

ASSUME QueueAssumption ==
  /\ IsFiniteSet(Requests)
  /\ AgentRequests \subseteq Requests
  /\ CrowdRequests \subseteq Requests
  /\ OneAgent \in Agents
  /\ Crowds \subseteq BOOLEAN
  /\ PullLimits \subseteq Nat
  /\ {MaxReleases, MaxCrashes} \subseteq Nat

VARIABLES
  crowd,     \* several agents, overlapping appends and `queue clear`, or one
             \* agent, appends one at a time and no clearing
  file,      \* the lines of actions.jsonl; none when it does not exist
  stage,     \* how far each push is
  number,    \* Action.seq of each request once numbered
  linked,    \* the descriptor of the append is on the file of that name
  plan,      \* what an agent's command is about to write, or Nothing
  hand,      \* the lines each agent was given and has not closed
  releases,
  crashes

appendVars == <<stage, number, linked>>
agentVars == <<plan, hand>>
boundVars == <<releases, crashes>>
vars == <<crowd, file, appendVars, agentVars, boundVars>>

States == {"pending", "claimed", "done", "failed"}
Numbers == 1 .. Cardinality(Requests)
Lines == [request : Requests, seq : Numbers, state : States]
Tickets == [request : Requests, seq : Numbers]

Underway == {"numbered", "opened"}

Nothing == [busy |-> FALSE, lines |-> <<>>, take |-> {}, drop |-> {}]

Init ==
  /\ crowd \in Crowds
  /\ file = <<>>
  /\ stage = [r \in Requests |-> "unsent"]
  /\ number = [r \in Requests |-> 0]
  /\ linked = [r \in Requests |-> FALSE]
  /\ plan = [a \in Agents |-> Nothing]
  /\ hand = [a \in Agents |-> {}]
  /\ releases = 0
  /\ crashes = 0

-----------------------------------------------------------------------------
(* append: number the action, open the file with mode "a", write the line. *)

SeqsOf(lines) == {lines[i].seq : i \in DOMAIN lines}

\* Mutant: only the pending actions are looked at.
NextSeqOfPending(lines) ==
  Max({lines[i].seq : i \in {j \in DOMAIN lines : lines[j].state = "pending"}} \cup {0}) + 1

NextSeq(lines) == Max(SeqsOf(lines) \cup {0}) + 1

Number(r) ==
  /\ stage[r] = "unsent"
  /\ crowd \/ \A s \in Requests : stage[s] \notin Underway
  /\ stage' = [stage EXCEPT ![r] = "numbered"]
  /\ number' = [number EXCEPT ![r] = NextSeq(file)]
  /\ UNCHANGED <<file, linked, agentVars, boundVars>>

OpenAppend(r) ==
  /\ stage[r] = "numbered"
  /\ stage' = [stage EXCEPT ![r] = "opened"]
  /\ linked' = [linked EXCEPT ![r] = TRUE]
  /\ UNCHANGED <<file, number, agentVars, boundVars>>

NewLine(r) == [request |-> r, seq |-> number[r], state |-> "pending"]

WriteLine(r) ==
  /\ stage[r] = "opened"
  /\ stage' = [stage EXCEPT ![r] = "sent"]
  /\ file' = IF linked[r] THEN Append(file, NewLine(r)) ELSE file
  /\ UNCHANGED <<number, linked, agentVars, boundVars>>

-----------------------------------------------------------------------------
(* claim, complete and release: all() reads the file into a list, the list *)
(* is changed, _rewrite writes it to a file of its own and os.replace      *)
(* gives that file the name.                                               *)

Idle(a) == ~plan[a].busy

Ticket(line) == [request |-> line.request, seq |-> line.seq]

\* Mutant: an action that was closed can be claimed.
OpenToClaimAny(lines) ==
  {i \in DOMAIN lines : /\ lines[i].state # "claimed"
                        /\ lines[i].request \in AgentRequests}

OpenToClaim(lines) ==
  {i \in DOMAIN lines : /\ lines[i].state = "pending"
                        /\ lines[i].request \in AgentRequests}

\* Mutant: the loop ends after its first line.
ClaimedFirstLine(lines, limit) == OpenToClaim(lines) \cap {1}

\* The first `limit` of them, in the order of the file.
Claimed(lines, limit) ==
  {i \in OpenToClaim(lines) :
     \/ limit = 0
     \/ Cardinality({j \in OpenToClaim(lines) : j <= i}) <= limit}

\* Mutant: the state is set on copies.
MarkedElsewhere(lines, at, state) == lines

Marked(lines, at, state) ==
  [i \in DOMAIN lines |->
     IF i \in at THEN [lines[i] EXCEPT !.state = state] ELSE lines[i]]

\* A claim that finds nothing writes nothing.
Pull(a, limit) ==
  LET at == Claimed(file, limit) IN
  /\ Idle(a)
  /\ at # {}
  /\ plan' = [plan EXCEPT ![a] =
                [busy |-> TRUE, lines |-> Marked(file, at, "claimed"),
                 take |-> {Ticket(file[i]) : i \in at}, drop |-> {}]]
  /\ UNCHANGED <<file, appendVars, hand, boundVars>>

\* Mutant: only an action nobody has claimed is found.
FirstPendingWith(seq, ok) ==
  LET having == {i \in DOMAIN file : file[i].seq = seq /\ file[i].state = "pending"}
  IN  {i \in having : \A j \in having : i <= j}

\* The first line that has the number.
FirstWith(seq, ok) ==
  LET having == {i \in DOMAIN file : file[i].seq = seq /\ file[i].state \in ok}
  IN  {i \in having : \A j \in having : i <= j}

\* complete asks for the number only, not for the state.  With no such
\* number the agent is told so and nothing is written.
Complete(a, ticket, state) ==
  LET at == FirstWith(ticket.seq, States) IN
  /\ Idle(a)
  /\ ticket \in hand[a]
  /\ IF at # {}
     THEN /\ plan' = [plan EXCEPT ![a] =
                        [busy |-> TRUE, lines |-> Marked(file, at, state),
                         take |-> {}, drop |-> {ticket}]]
          /\ UNCHANGED hand
     ELSE /\ hand' = [hand EXCEPT ![a] = @ \ {ticket}]
          /\ UNCHANGED plan
  /\ UNCHANGED <<file, appendVars, boundVars>>

Release(a, ticket) ==
  LET at == FirstWith(ticket.seq, {"claimed"}) IN
  /\ releases < MaxReleases
  /\ Idle(a)
  /\ ticket \in hand[a]
  /\ at # {}
  /\ plan' = [plan EXCEPT ![a] =
                [busy |-> TRUE, lines |-> Marked(file, at, "pending"),
                 take |-> {}, drop |-> {ticket}]]
  /\ releases' = releases + 1
  /\ UNCHANGED <<file, appendVars, hand, crashes>>

\* Every descriptor that was open is now on a file without a name.
Unlinked == [r \in Requests |-> FALSE]

Handed(a) == hand' = [hand EXCEPT ![a] = (@ \cup plan[a].take) \ plan[a].drop]

\* Mutant: the list is appended to the file instead of replacing it.
RewriteAppending(a) ==
  /\ plan[a].busy
  /\ file' = file \o plan[a].lines
  /\ Handed(a)
  /\ plan' = [plan EXCEPT ![a] = Nothing]
  /\ UNCHANGED <<appendVars, boundVars>>

\* os.replace, and the command returns what it claimed or closed.
Rewrite(a) ==
  /\ plan[a].busy
  /\ file' = plan[a].lines
  /\ linked' = Unlinked
  /\ Handed(a)
  /\ plan' = [plan EXCEPT ![a] = Nothing]
  /\ UNCHANGED <<stage, number, boundVars>>

-----------------------------------------------------------------------------
(* clear, and the environment.                                             *)

Clear ==
  /\ crowd
  /\ file # <<>>
  /\ file' = <<>>
  /\ linked' = Unlinked
  /\ UNCHANGED <<stage, number, agentVars, boundVars>>

\* An agent dies and what it held is in nobody's hand; the next session of
\* that agent starts with nothing.
AgentCrash(a) ==
  /\ crashes < MaxCrashes
  /\ plan[a].busy \/ hand[a] # {}
  /\ crashes' = crashes + 1
  /\ plan' = [plan EXCEPT ![a] = Nothing]
  /\ hand' = [hand EXCEPT ![a] = {}]
  /\ UNCHANGED <<file, appendVars, releases>>

\* The board is killed in the middle of a push.
AppendCrash(r) ==
  /\ crashes < MaxCrashes
  /\ stage[r] \in Underway
  /\ crashes' = crashes + 1
  /\ stage' = [stage EXCEPT ![r] = "died"]
  /\ linked' = [linked EXCEPT ![r] = FALSE]
  /\ UNCHANGED <<file, number, agentVars, releases>>

-----------------------------------------------------------------------------

Push(r) == Number(r) \/ OpenAppend(r) \/ WriteLine(r)
PullStep(a) == \E limit \in PullLimits : Pull(a, limit)
CompleteStep(a) ==
  \E ticket \in hand[a], state \in {"done", "failed"} : Complete(a, ticket, state)
ReleaseStep(a) == \E ticket \in hand[a] : Release(a, ticket)

Sent == IF crowd THEN CrowdRequests ELSE Requests
Working == IF crowd THEN Agents ELSE {OneAgent}

Next ==
  /\ crowd' = crowd
  /\ \/ \E r \in Sent : Push(r) \/ AppendCrash(r)
     \/ \E a \in Working :
          \/ PullStep(a)
          \/ CompleteStep(a)
          \/ ReleaseStep(a)
          \/ Rewrite(a)
          \/ AgentCrash(a)
     \/ Clear

Spec == Init /\ [][Next]_vars

\* The agent drains the queue and closes every action it was given
\* (skills/redassay-triage/SKILL.md); a push that began runs on.
FairSpec ==
  /\ Spec
  /\ \A r \in Requests : WF_vars(r \in Sent /\ Push(r) /\ crowd' = crowd)
  /\ LET Runs(A) == A /\ crowd' = crowd IN
     /\ WF_vars(Runs(PullStep(OneAgent)))
     /\ WF_vars(Runs(CompleteStep(OneAgent)))
     /\ WF_vars(Runs(Rewrite(OneAgent)))

-----------------------------------------------------------------------------
(* Properties.                                                             *)

Plans == [busy : BOOLEAN, lines : Seq(Lines), take : SUBSET Tickets, drop : SUBSET Tickets]

TypeOK ==
  /\ crowd \in BOOLEAN
  /\ file \in Seq(Lines)
  /\ stage \in [Requests -> {"unsent", "sent", "died"} \cup Underway]
  /\ number \in [Requests -> {0} \cup Numbers]
  /\ linked \in [Requests -> BOOLEAN]
  /\ plan \in [Agents -> Plans]
  /\ hand \in [Agents -> SUBSET Tickets]
  /\ releases \in 0 .. MaxReleases
  /\ crashes \in 0 .. MaxCrashes

\* No request is in the file twice, and none that was not pushed, however
\* appends, rewrites and clears interleave.
OncePerRequest ==
  /\ \A i, j \in DOMAIN file : file[i].request = file[j].request => i = j
  /\ \A i \in DOMAIN file : stage[file[i].request] = "sent"

\* With one agent and pushes one at a time, what the agent holds is in the
\* file, claimed, under the number it was given: no push takes the number,
\* no lost line takes the claim along, and nothing it holds is offered again.
HeldIsClaimed ==
  ~crowd => \A t \in hand[OneAgent] :
    \E i \in DOMAIN file : Ticket(file[i]) = t /\ file[i].state = "claimed"

\* Numbers increase along the file, so that each names one action
\* (tests/test_queue.py, test_push_assigns_increasing_sequence_numbers).
IncreasingSeqs ==
  ~crowd => \A i, j \in DOMAIN file : i < j => file[i].seq < file[j].seq

\* The promise.
StateOf(r) ==
  IF \E i \in DOMAIN file : file[i].request = r
  THEN LET i == CHOOSE i \in DOMAIN file : file[i].request = r
       IN  IF file[i].state \in {"done", "failed"} THEN "settled"
           ELSE file[i].state
  ELSE IF stage[r] = "sent" THEN "lost" ELSE "unsent"

Promise == INSTANCE RequestPromise WITH
  status <- [r \in Requests |-> StateOf(r)], bound <- ~crowd

ImplementsPromise == Promise!Spec

\* A request for the agent does not wait in the file for ever, agents that
\* crash or give up included.
PendingIsServed ==
  ~crowd => \A r \in AgentRequests : StateOf(r) = "pending" ~> StateOf(r) # "pending"

\* A claimed action is closed or offered again, however claims, pushes and
\* releases interleave with the closing, if the agent lives to do it.
ClaimedIsSettled ==
  ~crowd /\ []<>(crashes = 0) =>
    \A r \in AgentRequests : StateOf(r) = "claimed" ~> StateOf(r) # "claimed"

\* An action is not left claimed for ever (SKILL.md), not even when the agent
\* crashes, for then nothing is lost (architecture.md).
CrashLosesNothing ==
  ~crowd => \A r \in AgentRequests : StateOf(r) = "claimed" ~> StateOf(r) # "claimed"

=============================================================================
