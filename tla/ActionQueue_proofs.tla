------------------------- MODULE ActionQueue_proofs --------------------------
(***************************************************************************)
(* The action queue, for any number of requests and agents: the file says  *)
(* nothing twice, an agent's claim stands, and each request moves as       *)
(* RequestPromise says.                                                    *)
(***************************************************************************)
EXTENDS ActionQueue, FiniteSetTheorems, SequenceTheorems, WellFoundedInduction, TLAPS

-----------------------------------------------------------------------------
(***************************************************************************)
(* Numbers.                                                                *)
(***************************************************************************)

\* Finitely many numbers and zero have a largest.
LEMMA LargestNumber ==
  ASSUME NEW n \in Nat, NEW s \in [1 .. n -> Nat]
  PROVE  \E m \in {s[i] : i \in 1 .. n} \cup {0} :
           \A x \in {s[i] : i \in 1 .. n} \cup {0} : m >= x
<1> DEFINE Upto(k) == {s[i] : i \in 1 .. k} \cup {0}
           Fails == {k \in 0 .. n : ~ \E m \in Upto(k) : \A x \in Upto(k) : m >= x}
<1>1. SUFFICES ASSUME Fails # {}
               PROVE  FALSE
  <2>1. n \notin Fails
    BY <1>1
  <2> QED
    BY <2>1
<1>2. PICK k \in Fails : \A j \in Fails : ~(j < k)
  <2>1. Fails \subseteq Nat
    OBVIOUS
  <2> HIDE DEF Fails
  <2>2. PICK k \in Fails : \A j \in Fails : <<j, k>> \notin OpToRel(<, Nat)
    BY <1>1, <2>1, NatLessThanWellFounded, WFMin
  <2>3. \A j \in Fails : ~(j < k)
    BY <2>1, <2>2, Zenon DEF OpToRel
  <2> QED
    BY <2>3
<1>3. k # 0
  <2>1. Upto(0) = {0}
    OBVIOUS
  <2> QED
    BY <2>1
<1>4. k - 1 \notin Fails /\ k - 1 \in 0 .. n
  <2>1. k - 1 \in 0 .. n /\ k - 1 < k
    BY <1>3
  <2> HIDE DEF Fails
  <2> QED
    BY <1>2, <2>1
<1>5. PICK m \in Upto(k - 1) : \A x \in Upto(k - 1) : m >= x
  BY <1>4
<1>6. Upto(k) = Upto(k - 1) \cup {s[k]} /\ s[k] \in Nat
  BY <1>3
<1>7. Upto(k - 1) \subseteq Nat
  OBVIOUS
<1>8. \E top \in Upto(k) : \A x \in Upto(k) : top >= x
  <2> HIDE DEF Upto
  <2>1. CASE m >= s[k]
    BY <1>5, <1>6, <2>1
  <2>2. CASE ~(m >= s[k])
    <3>1. \A x \in Upto(k) : s[k] >= x
      BY <1>5, <1>6, <1>7, <2>2
    <3> QED
      BY <1>6, <3>1
  <2> QED
    BY <2>1, <2>2
<1> QED
  BY <1>8

\* A new number is above all others.
LEMMA NextSeqIsNew ==
  ASSUME NEW lines \in Seq(Lines)
  PROVE  /\ NextSeq(lines) \in Nat \ {0}
         /\ \A i \in DOMAIN lines : lines[i].seq < NextSeq(lines)
         /\ \/ NextSeq(lines) = 1
            \/ \E i \in DOMAIN lines : NextSeq(lines) = lines[i].seq + 1
<1> DEFINE n == Len(lines)
           s == [i \in 1 .. n |-> lines[i].seq]
           all == SeqsOf(lines) \cup {0}
<1>1. n \in Nat /\ DOMAIN lines = 1 .. n /\ \A i \in 1 .. n : lines[i] \in Lines
  OBVIOUS
<1>2. s \in [1 .. n -> Nat]
  BY <1>1 DEF Lines, Numbers
<1>3. all = {s[i] : i \in 1 .. n} \cup {0}
  BY <1>1 DEF SeqsOf
<1>4. Max(all) \in all /\ \A x \in all : Max(all) >= x
  <2>1. \E m \in all : \A x \in all : m >= x
    BY <1>1, <1>2, <1>3, LargestNumber
  <2> QED
    BY <2>1 DEF Max
<1>5. all \subseteq Nat /\ \A i \in 1 .. n : lines[i].seq \in all
  BY <1>1, <1>2, <1>3
<1>6. Max(all) = 0 \/ \E i \in 1 .. n : Max(all) = lines[i].seq
  BY <1>1, <1>4 DEF SeqsOf
<1> HIDE DEF all
<1>7. NextSeq(lines) = Max(all) + 1
  BY DEF NextSeq, all
<1>8. Max(all) \in Nat
  BY <1>4, <1>5
<1>9. \A i \in 1 .. n : lines[i].seq \in Nat /\ Max(all) >= lines[i].seq
  BY <1>4, <1>5
<1> HIDE DEF n
<1> QED
  BY <1>1, <1>6, <1>7, <1>8, <1>9

-----------------------------------------------------------------------------
(***************************************************************************)
(* The inductive invariant, part by part.                                  *)
(***************************************************************************)

\* Only so many numbers are in use as there are requests that took one.
Numbered == {r \in Requests : number[r] # 0}
Counts ==
  \A r \in Requests :
    /\ stage[r] = "unsent" <=> number[r] = 0
    /\ number[r] <= Cardinality(Numbered)

\* Lines that say nothing twice, under the number of each request.
Sound(lines) ==
  /\ \A i, j \in DOMAIN lines : lines[i].request = lines[j].request => i = j
  /\ \A i \in DOMAIN lines : /\ stage[lines[i].request] = "sent"
                            /\ lines[i].seq = number[lines[i].request]

AllSound == Sound(file) /\ \A a \in Agents : plan[a].busy => Sound(plan[a].lines)

Increasing(lines) == \A i, j \in DOMAIN lines : i < j => lines[i].seq < lines[j].seq

Held(lines, t) ==
  \E i \in DOMAIN lines : Ticket(lines[i]) = t /\ lines[i].state = "claimed"

AgentMoves ==
  {<<"pending", "claimed">>, <<"claimed", "pending">>, <<"claimed", "done">>,
   <<"claimed", "failed">>}

\* What an agent is about to write is the file as it was read, moved on; a
\* push may have added lines since.
Follows(lines) ==
  /\ Len(lines) <= Len(file)
  /\ \A i \in DOMAIN lines :
       /\ Ticket(lines[i]) = Ticket(file[i])
       /\ \/ lines[i].state = file[i].state
          \/ <<file[i].state, lines[i].state>> \in AgentMoves
  /\ \A i \in DOMAIN file : i > Len(lines) => file[i].state = "pending"

\* With one agent and pushes one at a time.
Alone ==
  /\ \A a \in Agents : a # OneAgent => ~plan[a].busy /\ hand[a] = {}
  /\ \A r, s \in Requests : stage[r] \in Underway /\ stage[s] \in Underway => r = s
Ordered ==
  /\ Increasing(file)
  /\ \A r \in Requests, i \in DOMAIN file :
       stage[r] \in Underway => file[i].seq < number[r]
Claims ==
  LET p == plan[OneAgent] IN
  /\ \A t \in hand[OneAgent] : Held(file, t)
  /\ p.busy =>
       /\ Follows(p.lines)
       /\ \A t \in (hand[OneAgent] \cup p.take) \ p.drop : Held(p.lines, t)

QueueInv ==
  /\ TypeOK
  /\ Counts
  /\ AllSound
  /\ ~crowd => Alone /\ Ordered /\ Claims

-----------------------------------------------------------------------------
(***************************************************************************)
(* What the operators on lines do.                                         *)
(***************************************************************************)

LEMMA LinesOfSeq ==
  ASSUME NEW lines \in Seq(Lines)
  PROVE  /\ Len(lines) \in Nat
         /\ DOMAIN lines = 1 .. Len(lines)
         /\ \A i \in DOMAIN lines : lines[i] \in Lines
OBVIOUS

LEMMA FunctionIsSeq ==
  ASSUME NEW S, NEW n \in Nat, NEW f, f = [i \in 1 .. n |-> f[i]],
         \A i \in 1 .. n : f[i] \in S
  PROVE  f \in Seq(S) /\ Len(f) = n
<1>1. f \in [1 .. n -> S]
  OBVIOUS
<1>2. f \in Seq(S)
  BY <1>1
<1>3. DOMAIN f = 1 .. n /\ DOMAIN f = 1 .. Len(f) /\ Len(f) \in Nat
  BY <1>1, <1>2
<1> QED
  BY <1>2, <1>3

\* Marking lines changes the state of those, and nothing else.
LEMMA MarkedIs ==
  ASSUME NEW lines \in Seq(Lines), NEW at, NEW state \in States
  PROVE  /\ Marked(lines, at, state) \in Seq(Lines)
         /\ Len(Marked(lines, at, state)) = Len(lines)
         /\ DOMAIN Marked(lines, at, state) = DOMAIN lines
         /\ \A i \in DOMAIN lines :
              LET line == Marked(lines, at, state)[i] IN
              /\ line.request = lines[i].request
              /\ line.seq = lines[i].seq
              /\ line.state = IF i \in at THEN state ELSE lines[i].state
<1> DEFINE marked == Marked(lines, at, state)
<1>1. \A i \in DOMAIN lines : lines[i] \in Lines
  OBVIOUS
<1>2. \A line \in Lines : /\ [line EXCEPT !.state = state] \in Lines
                          /\ [line EXCEPT !.state = state].request = line.request
                          /\ [line EXCEPT !.state = state].seq = line.seq
                          /\ [line EXCEPT !.state = state].state = state
  BY DEF Lines
<1>3. /\ DOMAIN marked = DOMAIN lines
      /\ \A i \in DOMAIN lines :
           marked[i] = IF i \in at THEN [lines[i] EXCEPT !.state = state] ELSE lines[i]
  BY DEF Marked
<1>4. \A i \in DOMAIN lines :
        /\ marked[i] \in Lines
        /\ marked[i].request = lines[i].request
        /\ marked[i].seq = lines[i].seq
        /\ marked[i].state = IF i \in at THEN state ELSE lines[i].state
  BY <1>1, <1>2, <1>3
<1>5. marked = [i \in 1 .. Len(lines) |-> marked[i]] /\ Len(lines) \in Nat
  BY DEF Marked
<1>6. marked \in Seq(Lines) /\ Len(marked) = Len(lines)
  BY <1>3, <1>4, <1>5, FunctionIsSeq
<1> QED
  BY <1>3, <1>4, <1>6

LEMMA SoundMarked ==
  ASSUME NEW lines \in Seq(Lines), NEW at, NEW state \in States, Sound(lines)
  PROVE  Sound(Marked(lines, at, state))
BY MarkedIs DEF Sound

\* The file after an append.
LEMMA AppendedIs ==
  ASSUME TypeOK, NEW r \in Requests, number[r] \in Numbers
  PROVE  /\ Append(file, NewLine(r)) \in Seq(Lines)
         /\ Len(Append(file, NewLine(r))) = Len(file) + 1
         /\ DOMAIN Append(file, NewLine(r)) = DOMAIN file \cup {Len(file) + 1}
         /\ \A i \in DOMAIN file : Append(file, NewLine(r))[i] = file[i]
         /\ Append(file, NewLine(r))[Len(file) + 1] = NewLine(r)
<1>1. file \in Seq(Lines) /\ NewLine(r) \in Lines
  BY DEF TypeOK, NewLine, Lines, States
<1> HIDE DEF NewLine
<1>2. /\ Append(file, NewLine(r)) \in Seq(Lines)
      /\ Len(Append(file, NewLine(r))) = Len(file) + 1
      /\ \A i \in 1 .. Len(file) : Append(file, NewLine(r))[i] = file[i]
      /\ Append(file, NewLine(r))[Len(file) + 1] = NewLine(r)
  BY <1>1, AppendProperties
<1> QED
  BY <1>1, <1>2, LinesOfSeq

-----------------------------------------------------------------------------
(***************************************************************************)
(* Steps by what they touch.                                               *)
(***************************************************************************)

\* A command has read the file and knows what to write.
Plan(a, at, state, take, drop) ==
  /\ ~plan[a].busy
  /\ plan' = [plan EXCEPT ![a] =
                [busy |-> TRUE, lines |-> Marked(file, at, state),
                 take |-> take, drop |-> drop]]
  /\ UNCHANGED <<file, stage, number, linked, hand>>

\* complete has not found the number.
Drops(a, ticket) ==
  /\ hand' = [hand EXCEPT ![a] = @ \ {ticket}]
  /\ UNCHANGED <<file, stage, number, linked, plan>>

AgentKinds(a) ==
  \/ \E at \in SUBSET DOMAIN file :
        /\ at \subseteq OpenToClaim(file)
        /\ Plan(a, at, "claimed", {Ticket(file[i]) : i \in at}, {})
  \/ \E ticket \in hand[a], state \in {"done", "failed"} :
        Plan(a, FirstWith(ticket.seq, States), state, {}, {ticket})
  \/ \E ticket \in hand[a] :
        Plan(a, FirstWith(ticket.seq, {"claimed"}), "pending", {}, {ticket})
  \/ \E ticket \in hand[a] : Drops(a, ticket)

LEMMA AgentStepKinds ==
  ASSUME TypeOK, NEW a \in Agents,
         PullStep(a) \/ CompleteStep(a) \/ ReleaseStep(a)
  PROVE  AgentKinds(a) /\ crashes' = crashes /\ releases' \in 0 .. MaxReleases
<1>1. ASSUME NEW limit \in PullLimits, Pull(a, limit)
      PROVE  AgentKinds(a) /\ crashes' = crashes /\ releases' \in 0 .. MaxReleases
  <2>1. Claimed(file, limit) \subseteq OpenToClaim(file)
    BY DEF Claimed
  <2>2. Claimed(file, limit) \in SUBSET DOMAIN file
    BY <2>1 DEF OpenToClaim
  <2>3. Plan(a, Claimed(file, limit), "claimed",
             {Ticket(file[i]) : i \in Claimed(file, limit)}, {})
    BY <1>1 DEF Pull, Plan, Idle, appendVars, boundVars
  <2> QED
    BY <1>1, <2>1, <2>2, <2>3 DEF AgentKinds, Pull, boundVars, TypeOK
<1>2. ASSUME NEW ticket \in hand[a], NEW state \in {"done", "failed"},
             Complete(a, ticket, state)
      PROVE  AgentKinds(a) /\ crashes' = crashes /\ releases' \in 0 .. MaxReleases
  <2>1. CASE FirstWith(ticket.seq, States) # {}
    <3>1. Plan(a, FirstWith(ticket.seq, States), state, {}, {ticket})
      BY <1>2, <2>1 DEF Complete, Plan, Idle, appendVars, boundVars
    <3> QED
      BY <1>2, <3>1 DEF AgentKinds, Complete, boundVars, TypeOK
  <2>2. CASE FirstWith(ticket.seq, States) = {}
    <3>1. Drops(a, ticket)
      BY <1>2, <2>2 DEF Complete, Drops, appendVars, boundVars
    <3> QED
      BY <1>2, <3>1 DEF AgentKinds, Complete, boundVars, TypeOK
  <2> QED
    BY <2>1, <2>2
<1>3. ASSUME NEW ticket \in hand[a], Release(a, ticket)
      PROVE  AgentKinds(a) /\ crashes' = crashes /\ releases' \in 0 .. MaxReleases
  <2>1. Plan(a, FirstWith(ticket.seq, {"claimed"}), "pending", {}, {ticket})
    BY <1>3 DEF Release, Plan, Idle, appendVars
  <2>2. releases' \in 0 .. MaxReleases
    BY <1>3, QueueAssumption DEF Release, TypeOK
  <2> QED
    BY <1>3, <2>1, <2>2 DEF AgentKinds, Release
<1> QED
  BY <1>1, <1>2, <1>3 DEF PullStep, CompleteStep, ReleaseStep

LEMMA NextKinds ==
  ASSUME TypeOK, [Next]_vars
  PROVE  /\ crowd' = crowd
         /\ \/ \E r \in Requests :
                 Number(r) \/ OpenAppend(r) \/ WriteLine(r) \/ AppendCrash(r)
            \/ \E a \in Agents :
                 /\ crowd \/ a = OneAgent
                 /\ \/ PullStep(a) \/ CompleteStep(a) \/ ReleaseStep(a)
                    \/ Rewrite(a) \/ AgentCrash(a)
            \/ Clear
            \/ UNCHANGED vars
<1>1. ASSUME NEW r \in Sent, Push(r) \/ AppendCrash(r)
      PROVE  r \in Requests /\ (Number(r) \/ OpenAppend(r) \/ WriteLine(r) \/ AppendCrash(r))
  BY <1>1, QueueAssumption DEF Sent, Push
<1>2. \A a \in Working : a \in Agents /\ (crowd \/ a = OneAgent)
  BY QueueAssumption DEF Working
<1> QED
  BY <1>1, <1>2 DEF Next, vars

-----------------------------------------------------------------------------
(***************************************************************************)
(* Types, numbers and lines.                                               *)
(***************************************************************************)

LEMMA NumberFits ==
  ASSUME TypeOK, Counts, AllSound, NEW r \in Requests, stage[r] = "unsent"
  PROVE  /\ Cardinality(Numbered) \in Nat
         /\ Cardinality(Numbered \cup {r}) = Cardinality(Numbered) + 1
         /\ NextSeq(file) \in 1 .. Cardinality(Numbered) + 1
         /\ NextSeq(file) \in Numbers
<1>1. /\ IsFiniteSet(Requests) /\ Numbered \subseteq Requests
      /\ r \notin Numbered
  BY QueueAssumption DEF Numbered, Counts
<1>2. /\ IsFiniteSet(Numbered)
      /\ Cardinality(Numbered) \in Nat
      /\ Cardinality(Numbered \cup {r}) = Cardinality(Numbered) + 1
      /\ Cardinality(Requests) \in Nat
      /\ Cardinality(Numbered \cup {r}) <= Cardinality(Requests)
  <2>1. IsFiniteSet(Numbered)
    BY <1>1, FS_Subset
  <2>2. /\ Cardinality(Numbered) \in Nat
        /\ Cardinality(Requests) \in Nat
    BY <1>1, <2>1, FS_CardinalityType
  <2>3. Cardinality(Numbered \cup {r}) = Cardinality(Numbered) + 1
    BY <1>1, <2>1, FS_AddElement
  <2>4. Numbered \cup {r} \in SUBSET Requests
    BY <1>1
  <2>5. Cardinality(Numbered \cup {r}) <= Cardinality(Requests)
    BY <1>1, <2>4, FS_Subset
  <2> QED
    BY <2>1, <2>2, <2>3, <2>5
<1>3. file \in Seq(Lines) /\ \A i \in DOMAIN file : file[i] \in Lines
  BY DEF TypeOK
<1>4. \A i \in DOMAIN file :
        file[i].seq \in Nat /\ file[i].seq <= Cardinality(Numbered)
  BY <1>3 DEF AllSound, Sound, Counts, Lines, Numbers
<1>5. /\ NextSeq(file) \in Nat \ {0}
      /\ NextSeq(file) = 1 \/ \E i \in DOMAIN file : NextSeq(file) = file[i].seq + 1
  BY <1>3, NextSeqIsNew
<1>6. NextSeq(file) \in 1 .. Cardinality(Numbered) + 1
  BY <1>2, <1>4, <1>5
<1> QED
  BY <1>2, <1>6 DEF Numbers

LEMMA CountsStep ==
  ASSUME TypeOK, Counts, AllSound, [Next]_vars
  PROVE  Counts'
<1> USE DEF TypeOK, Counts
<1>1. ASSUME NEW r \in Requests, Number(r)
      PROVE  Counts'
  <2>0. stage[r] = "unsent"
    BY <1>1 DEF Number
  <2>1. Numbered' = Numbered \cup {r}
    <3>1. NextSeq(file) # 0
      <4> /\ NextSeq(file) \in 1 .. Cardinality(Numbered) + 1
          /\ Cardinality(Numbered) \in Nat
        BY <2>0, NumberFits
      <4> HIDE DEF TypeOK, Counts
      <4> QED
        OBVIOUS
    <3>2. number' = [number EXCEPT ![r] = NextSeq(file)]
      BY <1>1 DEF Number
    <3> QED
      BY <3>1, <3>2 DEF Numbered
  <2>2. Cardinality(Numbered)' = Cardinality(Numbered) + 1
    BY <1>1, <2>1, NumberFits DEF Number
  <2>3. /\ NextSeq(file) \in 1 .. Cardinality(Numbered) + 1
        /\ Cardinality(Numbered) \in Nat
    BY <1>1, NumberFits DEF Number
  <2>4. \A s \in Requests : number[s] \in Nat
    BY DEF Numbers
  <2>5. /\ number' = [number EXCEPT ![r] = NextSeq(file)]
        /\ stage' = [stage EXCEPT ![r] = "numbered"]
    BY <1>1 DEF Number
  <2> HIDE DEF Numbered
  <2> QED
    BY <2>2, <2>3, <2>4, <2>5
<1>2. ASSUME UNCHANGED number,
             \A r \in Requests : stage'[r] = "unsent" <=> stage[r] = "unsent"
      PROVE  Counts'
  BY <1>2 DEF Numbered
<1>3. ASSUME NEW r \in Requests, OpenAppend(r) \/ WriteLine(r) \/ AppendCrash(r)
      PROVE  Counts'
  <2>1. UNCHANGED number /\ \A s \in Requests : stage'[s] = "unsent" <=> stage[s] = "unsent"
    BY <1>3 DEF OpenAppend, WriteLine, AppendCrash, Underway
  <2> QED
    BY <1>2, <2>1
<1>4. ASSUME NEW a \in Agents,
             \/ PullStep(a) \/ CompleteStep(a) \/ ReleaseStep(a)
             \/ Rewrite(a) \/ AgentCrash(a)
      PROVE  Counts'
  <2>1. UNCHANGED <<number, stage>>
    BY <1>4, AgentStepKinds
       DEF AgentKinds, Plan, Drops, Rewrite, AgentCrash, appendVars
  <2> QED
    BY <1>2, <2>1
<1>5. ASSUME Clear \/ UNCHANGED vars
      PROVE  Counts'
  <2>1. UNCHANGED <<number, stage>>
    BY <1>5 DEF Clear, vars, appendVars
  <2> QED
    BY <1>2, <2>1
<1> QED
  BY <1>1, <1>3, <1>4, <1>5, NextKinds

LEMMA PlanType ==
  ASSUME TypeOK, NEW a \in Agents, NEW at, NEW state \in States,
         NEW take \in SUBSET Tickets, NEW drop \in SUBSET Tickets,
         Plan(a, at, state, take, drop)
  PROVE  plan' \in [Agents -> Plans]
<1>1. Marked(file, at, state) \in Seq(Lines)
  BY MarkedIs DEF TypeOK
<1>2. [busy |-> TRUE, lines |-> Marked(file, at, state), take |-> take, drop |-> drop]
        \in Plans
  BY <1>1 DEF Plans
<1> QED
  BY <1>2 DEF Plan, TypeOK

LEMMA AgentKindsType ==
  ASSUME TypeOK, NEW a \in Agents, AgentKinds(a)
  PROVE  /\ plan' \in [Agents -> Plans]
         /\ hand' \in [Agents -> SUBSET Tickets]
         /\ UNCHANGED <<file, stage, number, linked>>
<1>1. \A i \in DOMAIN file : Ticket(file[i]) \in Tickets
  <2>1. \A i \in DOMAIN file : file[i] \in Lines
    BY LinesOfSeq DEF TypeOK
  <2> QED
    BY <2>1 DEF Lines, Tickets, Ticket
<1>2. \A t \in hand[a] : t \in Tickets
  BY DEF TypeOK
<1>3. ASSUME NEW at \in SUBSET DOMAIN file,
             Plan(a, at, "claimed", {Ticket(file[i]) : i \in at}, {})
      PROVE  plan' \in [Agents -> Plans]
  <2>1. {Ticket(file[i]) : i \in at} \in SUBSET Tickets
    BY <1>1
  <2> QED
    BY <1>3, <2>1, PlanType DEF States
<1>4. ASSUME NEW t \in hand[a], NEW state \in {"done", "failed"},
             Plan(a, FirstWith(t.seq, States), state, {}, {t})
      PROVE  plan' \in [Agents -> Plans]
  <2>1. {t} \in SUBSET Tickets /\ {} \in SUBSET Tickets /\ state \in States
    BY <1>2 DEF States
  <2> QED
    BY <1>4, <2>1, PlanType
<1>5. ASSUME NEW t \in hand[a],
             Plan(a, FirstWith(t.seq, {"claimed"}), "pending", {}, {t})
      PROVE  plan' \in [Agents -> Plans]
  <2>1. {t} \in SUBSET Tickets /\ {} \in SUBSET Tickets /\ "pending" \in States
    BY <1>2 DEF States
  <2> QED
    BY <1>5, <2>1, PlanType
<1>6. plan' \in [Agents -> Plans]
  BY <1>3, <1>4, <1>5 DEF AgentKinds, Drops, TypeOK
<1>7. hand' \in [Agents -> SUBSET Tickets] /\ UNCHANGED <<file, stage, number, linked>>
  BY DEF AgentKinds, Plan, Drops, TypeOK
<1> QED
  BY <1>6, <1>7

LEMMA NothingType == Nothing \in Plans /\ ~Nothing.busy
BY DEF Nothing, Plans

LEMMA QueueTypeStep ==
  ASSUME TypeOK, Counts, AllSound, [Next]_vars
  PROVE  TypeOK'
<1> crowd' = crowd
  BY NextKinds
<1> USE QueueAssumption DEF TypeOK, boundVars, agentVars, appendVars, Underway
<1>1. ASSUME NEW r \in Requests, Number(r)
      PROVE  TypeOK'
  <2>1. NextSeq(file) \in Numbers
    BY <1>1, NumberFits DEF Number
  <2> QED
    BY <1>1, <2>1 DEF Number
<1>2. ASSUME NEW r \in Requests, OpenAppend(r) \/ AppendCrash(r)
      PROVE  TypeOK'
  <2>1. crashes' \in 0 .. MaxCrashes
    BY <1>2 DEF OpenAppend, AppendCrash
  <2> QED
    BY <1>2, <2>1 DEF OpenAppend, AppendCrash
<1>3. ASSUME NEW r \in Requests, WriteLine(r)
      PROVE  TypeOK'
  <2>1. number[r] \in Numbers
    BY <1>3 DEF WriteLine, Counts
  <2>2. file' \in Seq(Lines)
    BY <1>3, <2>1, AppendedIs DEF WriteLine
  <2> QED
    BY <1>3, <2>2 DEF WriteLine
<1>4. ASSUME NEW a \in Agents, PullStep(a) \/ CompleteStep(a) \/ ReleaseStep(a)
      PROVE  TypeOK'
  <2>1. AgentKinds(a) /\ crashes' = crashes /\ releases' \in 0 .. MaxReleases
    BY <1>4, AgentStepKinds
  <2> QED
    BY <2>1, AgentKindsType
<1>5. ASSUME NEW a \in Agents, Rewrite(a)
      PROVE  TypeOK'
  <2>1. plan[a] \in Plans
    OBVIOUS
  <2>2. /\ file' \in Seq(Lines)
        /\ hand' \in [Agents -> SUBSET Tickets]
    BY <1>5, <2>1 DEF Rewrite, Handed, Plans
  <2>3. linked' \in [Requests -> BOOLEAN]
    BY <1>5, Zenon DEF Rewrite, Unlinked
  <2> QED
    BY <1>5, <2>2, <2>3, NothingType DEF Rewrite
<1>6. ASSUME NEW a \in Agents, AgentCrash(a)
      PROVE  TypeOK'
  BY <1>6, NothingType DEF AgentCrash
<1>7. ASSUME Clear
      PROVE  TypeOK'
  <2>1. linked' \in [Requests -> BOOLEAN]
    BY <1>7, Zenon DEF Clear, Unlinked
  <2> QED
    BY <1>7, <2>1 DEF Clear
<1>8. ASSUME UNCHANGED vars
      PROVE  TypeOK'
  BY <1>8 DEF vars
<1> QED
  BY <1>1, <1>2, <1>3, <1>4, <1>5, <1>6, <1>7, <1>8, NextKinds

\* Lines stay sound while requests get their numbers and are sent.
LEMMA SoundStays ==
  ASSUME TypeOK, Counts, NEW lines \in Seq(Lines), Sound(lines),
         \A r \in Requests : stage[r] = "sent" =>
           stage'[r] = "sent" /\ number'[r] = number[r]
  PROVE  /\ \A i, j \in DOMAIN lines : lines[i].request = lines[j].request => i = j
         /\ \A i \in DOMAIN lines : /\ stage'[lines[i].request] = "sent"
                                   /\ lines[i].seq = number'[lines[i].request]
<1>1. \A i \in DOMAIN lines : lines[i].request \in Requests
  BY LinesOfSeq DEF Lines
<1> QED
  BY <1>1 DEF Sound

\* A list without a request that was sent a moment ago.
LEMMA SoundNot ==
  ASSUME NEW lines, Sound(lines), NEW r, stage[r] # "sent"
  PROVE  \A i \in DOMAIN lines : lines[i].request # r
BY DEF Sound

LEMMA SoundStep ==
  ASSUME TypeOK, Counts, AllSound, [Next]_vars
  PROVE  AllSound'
<1>0. /\ file \in Seq(Lines)
      /\ \A a \in Agents : plan[a] \in Plans /\ plan[a].lines \in Seq(Lines)
  BY DEF TypeOK, Plans
<1>1. ASSUME \A r \in Requests : stage[r] = "sent" =>
               stage'[r] = "sent" /\ number'[r] = number[r],
             file' = file \/ file' = <<>>,
             \A a \in Agents : plan'[a] = plan[a] \/ ~plan'[a].busy
      PROVE  AllSound'
  <2>1. Sound(file)'
    <3>1. CASE file' = file
      BY <1>0, <1>1, <3>1, SoundStays DEF AllSound, Sound
    <3>2. CASE file' = <<>>
      BY <3>2 DEF Sound
    <3> QED
      BY <1>1, <3>1, <3>2
  <2>2. ASSUME NEW a \in Agents, plan'[a].busy
        PROVE  Sound(plan[a].lines)'
    <3>1. plan'[a] = plan[a] /\ Sound(plan[a].lines)
      BY <1>1, <2>2 DEF AllSound
    <3> QED
      BY <1>0, <1>1, <3>1, SoundStays DEF Sound
  <2> QED
    BY <2>1, <2>2 DEF AllSound
<1>2. ASSUME NEW r \in Requests, Number(r) \/ OpenAppend(r) \/ AppendCrash(r)
      PROVE  AllSound'
  <2>1. \A s \in Requests : stage[s] = "sent" =>
          stage'[s] = "sent" /\ number'[s] = number[s]
    BY <1>2 DEF Number, OpenAppend, AppendCrash, Underway, TypeOK
  <2>2. UNCHANGED <<file, plan>>
    BY <1>2 DEF Number, OpenAppend, AppendCrash, agentVars
  <2> QED
    BY <1>1, <2>1, <2>2
<1>3. ASSUME NEW r \in Requests, WriteLine(r)
      PROVE  AllSound'
  <2>1. /\ \A s \in Requests : stage[s] = "sent" =>
             stage'[s] = "sent" /\ number'[s] = number[s]
        /\ UNCHANGED <<plan, number>>
        /\ stage[r] = "opened" /\ stage'[r] = "sent"
        /\ file' = file \/ file' = Append(file, NewLine(r))
    BY <1>3 DEF WriteLine, TypeOK, agentVars
  <2>2. CASE file' = file
    BY <1>1, <2>1, <2>2
  <2>3. CASE file' = Append(file, NewLine(r))
    <3>1. number[r] \in Numbers
      BY <2>1 DEF TypeOK, Counts
    <3>2. /\ DOMAIN file' = DOMAIN file \cup {Len(file) + 1}
          /\ \A i \in DOMAIN file : file'[i] = file[i]
          /\ file'[Len(file) + 1] = NewLine(r)
      BY <2>3, <3>1, AppendedIs
    <3>3. /\ NewLine(r).request = r
          /\ NewLine(r).seq = number[r]
      BY DEF NewLine
    <3>4. \A i \in DOMAIN file : file[i].request # r
      BY <2>1, SoundNot DEF AllSound
    <3>5. /\ \A i, j \in DOMAIN file : file[i].request = file[j].request => i = j
          /\ \A i \in DOMAIN file : /\ stage'[file[i].request] = "sent"
                                   /\ file[i].seq = number'[file[i].request]
      BY <1>0, <2>1, SoundStays DEF AllSound
    <3>6. Sound(file)'
      BY <2>1, <3>2, <3>3, <3>4, <3>5 DEF Sound
    <3>7. ASSUME NEW a \in Agents, plan'[a].busy
          PROVE  Sound(plan[a].lines)'
      BY <1>0, <2>1, <3>7, SoundStays DEF AllSound, Sound
    <3> QED
      BY <3>6, <3>7 DEF AllSound
  <2> QED
    BY <2>1, <2>2, <2>3
<1>4. ASSUME NEW a \in Agents, PullStep(a) \/ CompleteStep(a) \/ ReleaseStep(a)
      PROVE  AllSound'
  <2>1. AgentKinds(a) /\ UNCHANGED <<file, stage, number>>
    BY <1>4, AgentStepKinds, AgentKindsType
  <2>2. CASE \E ticket \in hand[a] : Drops(a, ticket)
    BY <1>1, <2>1, <2>2 DEF Drops
  <2>3. ASSUME NEW at, NEW state \in States, NEW take, NEW drop,
               Plan(a, at, state, take, drop)
        PROVE  AllSound'
    <3>2. Sound(Marked(file, at, state)) /\ Marked(file, at, state) \in Seq(Lines)
      BY <1>0, SoundMarked, MarkedIs DEF AllSound
    <3>3. /\ plan'[a].lines = Marked(file, at, state)
          /\ \A b \in Agents : b # a => plan'[b] = plan[b]
      BY <2>3 DEF Plan, TypeOK
    <3>4. ASSUME NEW b \in Agents, plan'[b].busy
          PROVE  Sound(plan'[b].lines)
      BY <3>2, <3>3, <3>4 DEF AllSound
    <3> QED
      BY <2>1, <3>4 DEF AllSound, Sound
  <2>4. {"claimed", "pending", "done", "failed"} \subseteq States
    BY DEF States
  <2> QED
    BY <2>1, <2>2, <2>3, <2>4 DEF AgentKinds
<1>5. ASSUME NEW a \in Agents, Rewrite(a)
      PROVE  AllSound'
  <2>1. /\ UNCHANGED <<stage, number>>
        /\ plan[a].busy
        /\ file' = plan[a].lines
        /\ \A b \in Agents : b # a => plan'[b] = plan[b]
        /\ ~plan'[a].busy
    BY <1>5, NothingType DEF Rewrite, TypeOK
  <2> QED
    BY <2>1 DEF AllSound, Sound
<1>6. ASSUME NEW a \in Agents, AgentCrash(a)
      PROVE  AllSound'
  <2>1. /\ UNCHANGED <<file, stage, number>>
        /\ \A b \in Agents : b # a => plan'[b] = plan[b]
        /\ ~plan'[a].busy
    BY <1>6, NothingType DEF AgentCrash, TypeOK, appendVars
  <2> QED
    BY <1>1, <2>1
<1>7. ASSUME Clear \/ UNCHANGED vars
      PROVE  AllSound'
  <2>1. /\ UNCHANGED <<stage, number, plan>>
        /\ file' = file \/ file' = <<>>
    BY <1>7 DEF Clear, vars, appendVars, agentVars
  <2> QED
    BY <1>1, <2>1
<1> QED
  BY <1>2, <1>3, <1>4, <1>5, <1>6, <1>7, NextKinds

-----------------------------------------------------------------------------
(***************************************************************************)
(* One agent, and pushes one at a time.                                    *)
(***************************************************************************)

LEMMA TicketFields ==
  ASSUME NEW line, NEW other, Ticket(line) = Ticket(other)
  PROVE  line.request = other.request /\ line.seq = other.seq
BY DEF Ticket

LEMMA AloneStep ==
  ASSUME TypeOK, ~crowd, Alone, [Next]_vars
  PROVE  Alone'
<1> USE DEF TypeOK, Alone
<1>1. ASSUME NEW r \in Requests,
             Number(r) \/ OpenAppend(r) \/ WriteLine(r) \/ AppendCrash(r)
      PROVE  Alone'
  <2>1. UNCHANGED <<plan, hand>>
    BY <1>1 DEF Number, OpenAppend, WriteLine, AppendCrash, agentVars
  <2>2. CASE Number(r)
    BY <2>1, <2>2 DEF Number, Underway
  <2>3. CASE OpenAppend(r)
    BY <2>1, <2>3 DEF OpenAppend, Underway
  <2>4. CASE WriteLine(r) \/ AppendCrash(r)
    <3>1. \A s \in Requests : stage'[s] \in Underway => stage[s] \in Underway
      BY <2>4 DEF WriteLine, AppendCrash, Underway
    <3> QED
      BY <2>1, <3>1
  <2> QED
    BY <1>1, <2>2, <2>3, <2>4
<1>2. ASSUME PullStep(OneAgent) \/ CompleteStep(OneAgent) \/ ReleaseStep(OneAgent)
      PROVE  Alone'
  <2>1. OneAgent \in Agents /\ AgentKinds(OneAgent)
    BY <1>2, AgentStepKinds, QueueAssumption
  <2>2. /\ stage' = stage
        /\ \A a \in Agents : a # OneAgent => plan'[a] = plan[a] /\ hand'[a] = hand[a]
    BY <2>1 DEF AgentKinds, Plan, Drops
  <2> QED
    BY <2>2
<1>3. ASSUME Rewrite(OneAgent) \/ AgentCrash(OneAgent)
      PROVE  Alone'
  BY <1>3 DEF Rewrite, Handed, AgentCrash, appendVars
<1>4. ASSUME UNCHANGED vars
      PROVE  Alone'
  BY <1>4 DEF vars, appendVars, agentVars
<1> QED
  BY <1>1, <1>2, <1>3, <1>4, NextKinds DEF Clear

LEMMA OrderedStep ==
  ASSUME TypeOK, Counts, ~crowd, Alone, Ordered, Claims, [Next]_vars
  PROVE  Ordered'
<1>0. file \in Seq(Lines) /\ Len(file) \in Nat /\ DOMAIN file = 1 .. Len(file)
  BY LinesOfSeq DEF TypeOK
<1>1. ASSUME NEW r \in Requests, Number(r)
      PROVE  Ordered'
  <2>1. \A i \in DOMAIN file : file[i].seq < NextSeq(file)
    BY <1>0, NextSeqIsNew
  <2>2. /\ number' = [number EXCEPT ![r] = NextSeq(file)]
        /\ stage' = [stage EXCEPT ![r] = "numbered"]
        /\ \A s \in Requests : stage[s] \notin Underway
        /\ file' = file
    BY <1>1 DEF Number
  <2> QED
    BY <2>1, <2>2 DEF Ordered, Increasing, TypeOK
<1>2. ASSUME NEW r \in Requests, OpenAppend(r) \/ AppendCrash(r)
      PROVE  Ordered'
  <2>1. /\ UNCHANGED <<file, number>>
        /\ \A s \in Requests : stage'[s] \in Underway => stage[s] \in Underway
    BY <1>2 DEF OpenAppend, AppendCrash, Underway, TypeOK
  <2> QED
    BY <2>1 DEF Ordered, Increasing
<1>3. ASSUME NEW r \in Requests, WriteLine(r)
      PROVE  Ordered'
  <2>1. /\ stage[r] = "opened" /\ stage'[r] = "sent"
        /\ number' = number
        /\ \A s \in Requests : stage'[s] \notin Underway
        /\ file' = file \/ file' = Append(file, NewLine(r))
    BY <1>3 DEF WriteLine, Alone, Underway, TypeOK
  <2>2. CASE file' = file
    BY <2>1, <2>2 DEF Ordered, Increasing
  <2>3. CASE file' = Append(file, NewLine(r))
    <3>1. number[r] \in Numbers
      BY <2>1 DEF TypeOK, Counts
    <3>2. /\ DOMAIN file' = DOMAIN file \cup {Len(file) + 1}
          /\ \A i \in DOMAIN file : file'[i] = file[i]
          /\ file'[Len(file) + 1].seq = number[r]
      BY <2>3, <3>1, AppendedIs DEF NewLine
    <3>3. \A i \in DOMAIN file : file[i].seq < number[r]
      BY <2>1 DEF Ordered, Underway
    <3>4. Increasing(file')
      BY <1>0, <3>2, <3>3 DEF Ordered, Increasing
    <3> QED
      BY <2>1, <3>4 DEF Ordered
  <2> QED
    BY <2>1, <2>2, <2>3
<1>4. ASSUME PullStep(OneAgent) \/ CompleteStep(OneAgent) \/ ReleaseStep(OneAgent)
      PROVE  Ordered'
  <2>1. UNCHANGED <<file, stage, number>>
    BY <1>4, AgentStepKinds, AgentKindsType, QueueAssumption
  <2> QED
    BY <2>1 DEF Ordered, Increasing
<1>5. ASSUME Rewrite(OneAgent)
      PROVE  Ordered'
  <2>1. /\ file' = plan[OneAgent].lines
        /\ Follows(plan[OneAgent].lines)
        /\ UNCHANGED <<stage, number>>
    BY <1>5 DEF Rewrite, Claims
  <2>2. /\ file' \in Seq(Lines) /\ Len(file') \in Nat
        /\ DOMAIN file' = 1 .. Len(file')
    BY <2>1, LinesOfSeq, QueueAssumption DEF TypeOK, Plans
  <2>3. \A i \in DOMAIN file' : file'[i].seq = file[i].seq
    BY <2>1, TicketFields DEF Follows
  <2>4. DOMAIN file' \subseteq DOMAIN file
    BY <1>0, <2>1, <2>2 DEF Follows
  <2> QED
    BY <2>1, <2>3, <2>4 DEF Ordered, Increasing
<1>6. ASSUME AgentCrash(OneAgent) \/ UNCHANGED vars
      PROVE  Ordered'
  <2>1. UNCHANGED <<file, stage, number>>
    BY <1>6 DEF AgentCrash, vars, appendVars
  <2> QED
    BY <2>1 DEF Ordered, Increasing
<1> QED
  BY <1>1, <1>2, <1>3, <1>4, <1>5, <1>6, NextKinds DEF Clear

\* A line that is held survives as long as it is neither marked nor cut off.
LEMMA HeldMarked ==
  ASSUME TypeOK, NEW at, NEW state \in States, NEW t, Held(file, t),
         \A i \in at : i \in DOMAIN file /\ Ticket(file[i]) = t => state = "claimed"
  PROVE  Held(Marked(file, at, state), t)
<1>1. PICK i \in DOMAIN file : Ticket(file[i]) = t /\ file[i].state = "claimed"
  BY DEF Held
<1>2. /\ i \in DOMAIN Marked(file, at, state)
      /\ Ticket(Marked(file, at, state)[i]) = t
      /\ Marked(file, at, state)[i].state = "claimed"
  BY <1>1, MarkedIs DEF Ticket, TypeOK
<1> QED
  BY <1>2 DEF Held

\* In a file with increasing numbers only the line an agent holds has the
\* number of its ticket.
LEMMA HeldOnce ==
  ASSUME TypeOK, Increasing(file), NEW t, Held(file, t), NEW ok,
         NEW i \in FirstWith(t.seq, ok)
  PROVE  i \in DOMAIN file /\ Ticket(file[i]) = t /\ file[i].state = "claimed"
<1>1. PICK j \in DOMAIN file : Ticket(file[j]) = t /\ file[j].state = "claimed"
  BY DEF Held
<1>2. file[j].seq = t.seq
  BY <1>1 DEF Ticket
<1>3. i \in DOMAIN file /\ file[i].seq = t.seq
  BY DEF FirstWith
<1>4. /\ DOMAIN file \subseteq Nat
      /\ file[i].seq \in Nat /\ file[j].seq \in Nat
  <2>1. /\ DOMAIN file = 1 .. Len(file) /\ Len(file) \in Nat
        /\ file[i] \in Lines /\ file[j] \in Lines
    BY <1>1, <1>3, LinesOfSeq DEF TypeOK
  <2> QED
    BY <2>1 DEF Lines, Numbers
<1>5. i = j
  BY <1>2, <1>3, <1>4 DEF Increasing
<1> QED
  BY <1>1, <1>5

\* A new plan follows the file if it moves lines as agents do.
LEMMA FollowsMarked ==
  ASSUME TypeOK, NEW at, NEW state \in States,
         \A i \in at : i \in DOMAIN file /\ <<file[i].state, state>> \in AgentMoves
  PROVE  Follows(Marked(file, at, state))
<1>1. /\ Len(file) \in Nat /\ DOMAIN file = 1 .. Len(file)
      /\ file \in Seq(Lines)
  BY LinesOfSeq DEF TypeOK
<1>2. /\ Len(Marked(file, at, state)) = Len(file)
      /\ DOMAIN Marked(file, at, state) = DOMAIN file
      /\ \A i \in DOMAIN file :
           LET line == Marked(file, at, state)[i] IN
           /\ Ticket(line) = Ticket(file[i])
           /\ line.state = IF i \in at THEN state ELSE file[i].state
  BY <1>1, MarkedIs DEF Ticket
<1> QED
  BY <1>1, <1>2 DEF Follows

LEMMA ClaimsStep ==
  ASSUME TypeOK, Counts, ~crowd, Alone, Ordered, Claims, [Next]_vars
  PROVE  Claims'
<1> DEFINE A == OneAgent
           p == plan[A]
<1>0. /\ A \in Agents
      /\ file \in Seq(Lines) /\ Len(file) \in Nat /\ DOMAIN file = 1 .. Len(file)
  BY QueueAssumption, LinesOfSeq DEF TypeOK
<1>1. ASSUME UNCHANGED <<file, plan, hand>>
      PROVE  Claims'
  BY <1>1 DEF Claims, Held, Follows
<1>2. ASSUME NEW r \in Requests, Number(r) \/ OpenAppend(r) \/ AppendCrash(r)
      PROVE  Claims'
  BY <1>1, <1>2 DEF Number, OpenAppend, AppendCrash, agentVars
<1>3. ASSUME NEW r \in Requests, WriteLine(r)
      PROVE  Claims'
  <2>1. /\ stage[r] = "opened"
        /\ UNCHANGED <<plan, hand>>
        /\ file' = file \/ file' = Append(file, NewLine(r))
    BY <1>3 DEF WriteLine, agentVars
  <2>2. CASE file' = file
    BY <1>1, <2>1, <2>2
  <2>3. CASE file' = Append(file, NewLine(r))
    <3>1. number[r] \in Numbers
      BY <2>1 DEF TypeOK, Counts
    <3>2. /\ DOMAIN file' = DOMAIN file \cup {Len(file) + 1}
          /\ Len(file') = Len(file) + 1
          /\ \A i \in DOMAIN file : file'[i] = file[i]
          /\ file'[Len(file) + 1].state = "pending"
      BY <2>3, <3>1, AppendedIs DEF NewLine
    <3>3. \A t \in hand[A] : Held(file', t)
      BY <3>2 DEF Claims, Held
    <3>4. ASSUME p.busy
          PROVE  Follows(p.lines)'
      <4>1. /\ p.lines \in Seq(Lines) /\ Len(p.lines) \in Nat
            /\ DOMAIN p.lines = 1 .. Len(p.lines)
        BY <1>0, LinesOfSeq DEF TypeOK, Plans
      <4>2. Follows(p.lines) /\ plan' = plan
        BY <2>1, <3>4 DEF Claims
      <4>3. DOMAIN p.lines \subseteq DOMAIN file
        BY <1>0, <4>1, <4>2 DEF Follows
      <4> HIDE DEF p
      <4>4. Len(p.lines) <= Len(file')
        BY <1>0, <3>2, <4>1, <4>2 DEF Follows
      <4>5. \A i \in DOMAIN p.lines : file'[i] = file[i]
        BY <3>2, <4>3
      <4>6. \A i \in DOMAIN file' : i > Len(p.lines) => file'[i].state = "pending"
        BY <1>0, <3>2, <4>2 DEF Follows
      <4>7. p' = p
        BY <4>2 DEF p
      <4> QED
        BY <4>2, <4>4, <4>5, <4>6, <4>7 DEF Follows
    <3> QED
      BY <2>1, <3>3, <3>4 DEF Claims, Held
  <2> QED
    BY <2>1, <2>2, <2>3
<1>4. ASSUME NEW at, NEW state \in States, NEW take, NEW drop,
             Plan(A, at, state, take, drop),
             \A i \in at : i \in DOMAIN file /\ <<file[i].state, state>> \in AgentMoves,
             \A t \in (hand[A] \cup take) \ drop : Held(Marked(file, at, state), t)
      PROVE  Claims'
  <2>1. Follows(Marked(file, at, state))
    BY <1>4, FollowsMarked
  <2>2. /\ plan'[A] = [busy |-> TRUE, lines |-> Marked(file, at, state),
                       take |-> take, drop |-> drop]
        /\ UNCHANGED <<file, hand>>
    BY <1>0, <1>4 DEF Plan, TypeOK
  <2>3. /\ plan'[A].lines = Marked(file, at, state)
        /\ plan'[A].take = take /\ plan'[A].drop = drop
    BY <2>2
  <2> QED
    BY <1>4, <2>1, <2>2, <2>3 DEF Claims, Held, Follows
<1>5. ASSUME NEW at \in SUBSET DOMAIN file, at \subseteq OpenToClaim(file),
             Plan(A, at, "claimed", {Ticket(file[i]) : i \in at}, {})
      PROVE  Claims'
  <2>1. \A i \in at : i \in DOMAIN file /\ <<file[i].state, "claimed">> \in AgentMoves
    BY <1>5 DEF OpenToClaim, AgentMoves
  <2>2. ASSUME NEW t \in hand[A]
        PROVE  Held(Marked(file, at, "claimed"), t)
    BY <2>2, HeldMarked DEF Claims, States
  <2>3. ASSUME NEW i \in at
        PROVE  Held(Marked(file, at, "claimed"), Ticket(file[i]))
    <3>1. /\ i \in DOMAIN Marked(file, at, "claimed")
          /\ Marked(file, at, "claimed")[i].request = file[i].request
          /\ Marked(file, at, "claimed")[i].seq = file[i].seq
          /\ Marked(file, at, "claimed")[i].state = "claimed"
      BY <1>0, <1>5, <2>3, MarkedIs DEF States
    <3> QED
      BY <3>1 DEF Held, Ticket
  <2> QED
    BY <1>4, <1>5, <2>1, <2>2, <2>3 DEF States
<1>6. ASSUME NEW ticket \in hand[A], NEW state \in {"done", "failed", "pending"}, NEW ok,
             Plan(A, FirstWith(ticket.seq, ok), state, {}, {ticket})
      PROVE  Claims'
  <2> DEFINE at == FirstWith(ticket.seq, ok)
  <2>1. \A i \in at : /\ i \in DOMAIN file /\ Ticket(file[i]) = ticket
                      /\ file[i].state = "claimed"
    BY HeldOnce DEF Claims, Ordered
  <2>2. \A i \in at : i \in DOMAIN file /\ <<file[i].state, state>> \in AgentMoves
    BY <2>1 DEF AgentMoves
  <2>3. ASSUME NEW t \in hand[A], t # ticket
        PROVE  Held(Marked(file, at, state), t)
    BY <2>1, <2>3, HeldMarked DEF Claims, States
  <2> QED
    BY <1>4, <1>6, <2>2, <2>3 DEF States
<1>7. ASSUME NEW ticket \in hand[A], Drops(A, ticket)
      PROVE  Claims'
  <2>1. /\ UNCHANGED <<file, plan>>
        /\ hand'[A] = hand[A] \ {ticket}
    BY <1>0, <1>7 DEF Drops, TypeOK
  <2> QED
    BY <2>1 DEF Claims, Held, Follows
<1>8. ASSUME PullStep(A) \/ CompleteStep(A) \/ ReleaseStep(A)
      PROVE  Claims'
  <2>1. AgentKinds(A)
    BY <1>0, <1>8, AgentStepKinds
  <2> QED
    BY <1>5, <1>6, <1>7, <2>1 DEF AgentKinds
<1>9. ASSUME Rewrite(A)
      PROVE  Claims'
  <2>1. /\ p.busy
        /\ file' = p.lines
        /\ hand'[A] = (hand[A] \cup p.take) \ p.drop
        /\ ~plan'[A].busy
    BY <1>0, <1>9, NothingType DEF Rewrite, Handed, TypeOK
  <2> QED
    BY <2>1 DEF Claims, Held
<1>10. ASSUME AgentCrash(A)
       PROVE  Claims'
  <2>1. hand'[A] = {} /\ ~plan'[A].busy
    BY <1>0, <1>10, NothingType DEF AgentCrash, TypeOK
  <2> QED
    BY <2>1 DEF Claims
<1>11. ASSUME UNCHANGED vars
       PROVE  Claims'
  BY <1>1, <1>11 DEF vars, agentVars
<1> QED
  BY <1>2, <1>3, <1>8, <1>9, <1>10, <1>11, NextKinds DEF Clear

-----------------------------------------------------------------------------
(***************************************************************************)
(* The theorems about the file and the agent's hands.                      *)
(***************************************************************************)

LEMMA QueueInit ==
  ASSUME Init
  PROVE  QueueInv
<1> USE QueueAssumption DEF Init
<1>1. TypeOK
  <2>1. /\ linked \in [Requests -> BOOLEAN]
        /\ crowd \in BOOLEAN
    BY Zenon
  <2>2. /\ file \in Seq(Lines)
        /\ plan \in [Agents -> Plans]
    BY NothingType
  <2>3. /\ stage \in [Requests -> {"unsent", "sent", "died"} \cup Underway]
        /\ number \in [Requests -> {0} \cup Numbers]
        /\ hand \in [Agents -> SUBSET Tickets]
        /\ releases \in 0 .. MaxReleases
        /\ crashes \in 0 .. MaxCrashes
    OBVIOUS
  <2> QED
    BY <2>1, <2>2, <2>3 DEF TypeOK
<1>2. Counts
  <2>1. Numbered = {}
    BY DEF Numbered
  <2>2. Cardinality(Numbered) = 0
    BY <2>1, FS_EmptySet
  <2> QED
    BY <2>2 DEF Counts
<1>3. AllSound
  BY NothingType DEF AllSound, Sound
<1>4. Alone /\ Ordered /\ Claims
  BY NothingType DEF Alone, Ordered, Increasing, Claims, Underway
<1> QED
  BY <1>1, <1>2, <1>3, <1>4 DEF QueueInv

LEMMA QueueStep ==
  ASSUME QueueInv, [Next]_vars
  PROVE  QueueInv'
<1>1. TypeOK' /\ Counts' /\ AllSound'
  BY QueueTypeStep, CountsStep, SoundStep DEF QueueInv
<1>2. ASSUME ~crowd
      PROVE  Alone' /\ Ordered' /\ Claims'
  BY <1>2, AloneStep, OrderedStep, ClaimsStep DEF QueueInv
<1>3. crowd' = crowd
  BY NextKinds DEF QueueInv
<1> QED
  BY <1>1, <1>2, <1>3 DEF QueueInv

THEOREM QueueInductive == Spec => []QueueInv
BY QueueInit, QueueStep, PTL DEF Spec

\* Lines, numbers, plans and hands have their types: in particular there are
\* never more numbers than requests.
THEOREM QueueTypeCorrect == Spec => []TypeOK
<1>1. QueueInv => TypeOK
  BY DEF QueueInv
<1> QED
  BY <1>1, QueueInductive, PTL

\* No request is in actions.jsonl twice, and none whose push did not get that
\* far, however any number of pushes, rewrites and clears interleave.
THEOREM OnceOnly == Spec => []OncePerRequest
<1>1. QueueInv => OncePerRequest
  BY DEF QueueInv, AllSound, Sound, OncePerRequest
<1> QED
  BY <1>1, QueueInductive, PTL

\* With pushes one at a time each number names one action, in the order in
\* which the actions were pushed.
THEOREM SeqsIncrease == Spec => []IncreasingSeqs
<1>1. QueueInv => IncreasingSeqs
  BY DEF QueueInv, Ordered, Increasing, IncreasingSeqs
<1> QED
  BY <1>1, QueueInductive, PTL

\* What the only agent holds stays claimed in the file, under the number the
\* agent was given.
THEOREM HandsAreBacked == Spec => []HeldIsClaimed
<1>1. QueueInv => HeldIsClaimed
  BY DEF QueueInv, Claims, Held, HeldIsClaimed
<1> QED
  BY <1>1, QueueInductive, PTL

-----------------------------------------------------------------------------
(***************************************************************************)
(* The queue implements RequestPromise.                                    *)
(***************************************************************************)

Settled(state) == IF state \in {"done", "failed"} THEN "settled" ELSE state

\* StateOf in terms of any line of the request: there is only one.
StateKnown ==
  \A r \in Requests :
    /\ \A i \in DOMAIN file :
         file[i].request = r => StateOf(r) = Settled(file[i].state)
    /\ (\A i \in DOMAIN file : file[i].request # r) =>
         StateOf(r) = IF stage[r] = "sent" THEN "lost" ELSE "unsent"

LEMMA StatesKnown == QueueInv => StateKnown
<1> SUFFICES ASSUME QueueInv, NEW r \in Requests
             PROVE  /\ \A i \in DOMAIN file :
                         file[i].request = r => StateOf(r) = Settled(file[i].state)
                    /\ (\A i \in DOMAIN file : file[i].request # r) =>
                         StateOf(r) = IF stage[r] = "sent" THEN "lost" ELSE "unsent"
  BY DEF StateKnown
<1>1. ASSUME NEW i \in DOMAIN file, file[i].request = r
      PROVE  StateOf(r) = Settled(file[i].state)
  <2>1. \A j \in DOMAIN file : file[j].request = r => j = i
    BY <1>1 DEF QueueInv, AllSound, Sound
  <2>2. (CHOOSE j \in DOMAIN file : file[j].request = r) = i
    BY <1>1, <2>1
  <2> QED
    BY <1>1, <2>2 DEF StateOf, Settled
<1>2. ASSUME \A i \in DOMAIN file : file[i].request # r
      PROVE  StateOf(r) = IF stage[r] = "sent" THEN "lost" ELSE "unsent"
  BY <1>2 DEF StateOf
<1> QED
  BY <1>1, <1>2

LEMMA StatesTyped == QueueInv => \A r \in Requests : StateOf(r) \in Promise!Progress
<1> SUFFICES ASSUME QueueInv, NEW r \in Requests
             PROVE  StateOf(r) \in Promise!Progress
  OBVIOUS
<1>1. StateKnown
  BY StatesKnown
<1>2. \A i \in DOMAIN file : file[i].state \in States
  <2>1. \A i \in DOMAIN file : file[i] \in Lines
    BY LinesOfSeq DEF QueueInv, TypeOK
  <2> QED
    BY <2>1 DEF Lines
<1> QED
  BY <1>1, <1>2 DEF StateKnown, Settled, States, Promise!Progress

\* One step, as one request sees it.
LEMMA RequestMoves ==
  ASSUME QueueInv, StateKnown, StateKnown', ~crowd, [Next]_vars, NEW s \in Requests
  PROVE  StateOf(s)' = StateOf(s) \/ <<StateOf(s), StateOf(s)'>> \in Promise!Moves
<1>0. /\ TypeOK /\ Counts /\ AllSound /\ Alone /\ Ordered /\ Claims
      /\ file \in Seq(Lines) /\ Len(file) \in Nat /\ DOMAIN file = 1 .. Len(file)
      /\ OneAgent \in Agents
  BY LinesOfSeq, QueueAssumption DEF QueueInv, TypeOK
<1>1. ASSUME file' = file, stage'[s] = "sent" <=> stage[s] = "sent"
      PROVE  StateOf(s)' = StateOf(s)
  BY <1>1 DEF StateOf
<1>2. ASSUME NEW r \in Requests, Number(r) \/ OpenAppend(r) \/ AppendCrash(r)
      PROVE  StateOf(s)' = StateOf(s)
  <2>1. file' = file /\ (stage'[s] = "sent" <=> stage[s] = "sent")
    BY <1>0, <1>2 DEF Number, OpenAppend, AppendCrash, TypeOK, Underway
  <2> QED
    BY <1>1, <2>1
<1>3. ASSUME NEW r \in Requests, WriteLine(r)
      PROVE  StateOf(s)' = StateOf(s) \/ <<StateOf(s), StateOf(s)'>> \in Promise!Moves
  <2>1. /\ stage[r] = "opened" /\ stage' = [stage EXCEPT ![r] = "sent"]
        /\ file' = file \/ file' = Append(file, NewLine(r))
    BY <1>3 DEF WriteLine
  <2>2. number[r] \in Numbers
    BY <1>0, <2>1 DEF TypeOK, Counts
  <2>3. \A i \in DOMAIN file : file[i].request # r
    BY <1>0, <2>1, SoundNot DEF AllSound
  <2>4. StateOf(r) = "unsent" /\ stage'[r] = "sent"
    BY <1>0, <2>1, <2>3 DEF StateKnown, TypeOK
  <2>5. CASE file' = file
    <3>1. CASE s = r
      <4>1. StateOf(r)' = "lost"
        BY <2>3, <2>4, <2>5 DEF StateKnown
      <4> QED
        BY <2>4, <3>1, <4>1 DEF Promise!Moves
    <3>2. CASE s # r
      BY <1>0, <1>1, <2>1, <2>5, <3>2 DEF TypeOK
    <3> QED
      BY <3>1, <3>2
  <2>6. CASE file' = Append(file, NewLine(r))
    <3>1. /\ DOMAIN file' = DOMAIN file \cup {Len(file) + 1}
          /\ \A i \in DOMAIN file : file'[i] = file[i]
          /\ file'[Len(file) + 1].request = r
          /\ file'[Len(file) + 1].state = "pending"
      BY <1>0, <2>2, <2>6, AppendedIs DEF NewLine
    <3>2. CASE s = r
      <4>1. StateOf(r)' = "pending"
        BY <3>1 DEF StateKnown, Settled
      <4> QED
        BY <2>4, <3>2, <4>1 DEF Promise!Moves
    <3>3. CASE s # r /\ \E i \in DOMAIN file : file[i].request = s
      <4>1. PICK i \in DOMAIN file : file[i].request = s
        BY <3>3
      <4>2. i \in DOMAIN file' /\ file'[i] = file[i]
        BY <3>1
      <4> QED
        BY <4>1, <4>2 DEF StateKnown
    <3>4. CASE s # r /\ \A i \in DOMAIN file : file[i].request # s
      <4>1. \A i \in DOMAIN file' : file'[i].request # s
        BY <3>1, <3>4
      <4>2. stage'[s] = stage[s]
        BY <1>0, <2>1, <3>4 DEF TypeOK
      <4> QED
        BY <3>4, <4>1, <4>2 DEF StateKnown
    <3> QED
      BY <3>2, <3>3, <3>4
  <2> QED
    BY <2>1, <2>5, <2>6
<1>4. ASSUME PullStep(OneAgent) \/ CompleteStep(OneAgent) \/ ReleaseStep(OneAgent)
      PROVE  StateOf(s)' = StateOf(s)
  <2>1. UNCHANGED <<file, stage>>
    BY <1>0, <1>4, AgentStepKinds, AgentKindsType
  <2> QED
    BY <1>1, <2>1
<1>5. ASSUME Rewrite(OneAgent)
      PROVE  StateOf(s)' = StateOf(s) \/ <<StateOf(s), StateOf(s)'>> \in Promise!Moves
  <2>1. /\ file' = plan[OneAgent].lines
        /\ Follows(plan[OneAgent].lines)
        /\ stage' = stage
    BY <1>0, <1>5 DEF Rewrite, Claims
  <2>2. /\ Len(file') \in Nat
        /\ DOMAIN file' = 1 .. Len(file')
    BY <1>0, <2>1, LinesOfSeq DEF TypeOK, Plans
  <2>3. /\ DOMAIN file' \subseteq DOMAIN file
        /\ \A i \in DOMAIN file : i > Len(file') => file[i].state = "pending"
    BY <1>0, <2>1, <2>2 DEF Follows
  <2>4. \A i \in DOMAIN file' : file'[i].request = file[i].request
    BY <2>1, TicketFields DEF Follows
  <2>5. CASE \A i \in DOMAIN file : file[i].request # s
    <3>1. \A i \in DOMAIN file' : file'[i].request # s
      BY <2>3, <2>4, <2>5
    <3> QED
      BY <2>1, <2>5, <3>1 DEF StateKnown
  <2>6. ASSUME NEW i \in DOMAIN file, file[i].request = s, i \in DOMAIN file'
        PROVE  StateOf(s)' = StateOf(s) \/ <<StateOf(s), StateOf(s)'>> \in Promise!Moves
    <3>1. StateOf(s) = Settled(file[i].state) /\ StateOf(s)' = Settled(file'[i].state)
      BY <2>4, <2>6 DEF StateKnown
    <3>2. \/ file'[i].state = file[i].state
          \/ <<file[i].state, file'[i].state>> \in AgentMoves
      BY <2>1, <2>6 DEF Follows
    <3> QED
      BY <3>1, <3>2 DEF Settled, AgentMoves, Promise!Moves
  <2>7. ASSUME NEW i \in DOMAIN file, file[i].request = s, i \notin DOMAIN file'
        PROVE  <<StateOf(s), StateOf(s)'>> \in Promise!Moves
    <3>1. StateOf(s) = "pending"
      BY <1>0, <2>2, <2>3, <2>7 DEF StateKnown, Settled
    <3>2. \A j \in DOMAIN file' : file'[j].request # s
      BY <1>0, <2>3, <2>4, <2>7 DEF AllSound, Sound
    <3>3. stage'[s] = "sent"
      BY <1>0, <2>1, <2>7 DEF AllSound, Sound
    <3> QED
      BY <3>1, <3>2, <3>3 DEF StateKnown, Promise!Moves
  <2> QED
    BY <2>5, <2>6, <2>7
<1>6. ASSUME AgentCrash(OneAgent) \/ UNCHANGED vars
      PROVE  StateOf(s)' = StateOf(s)
  <2>1. UNCHANGED <<file, stage>>
    BY <1>6 DEF AgentCrash, vars, appendVars
  <2> QED
    BY <1>1, <2>1
<1> QED
  BY <1>0, <1>2, <1>3, <1>4, <1>5, <1>6, NextKinds DEF Clear

\* Every request moves as RequestPromise says: one that an agent was handed is
\* neither lost nor handed out again before it is released, and settled is
\* final.
THEOREM KeepsPromise == Spec => ImplementsPromise
<1> DEFINE status == [r \in Requests |-> StateOf(r)]
<1>1. Init => Promise!Init
  <2> SUFFICES ASSUME Init
               PROVE  Promise!Init
    OBVIOUS
  <2>1. \A r \in Requests : StateOf(r) = "unsent"
    BY DEF Init, StateOf
  <2>2. crowd \in BOOLEAN
    BY QueueAssumption DEF Init
  <2> QED
    BY <2>1, <2>2 DEF Promise!Init
<1>2. QueueInv /\ QueueInv' /\ [Next]_vars => [Promise!Next]_<<status, ~crowd>>
  <2> SUFFICES ASSUME QueueInv, QueueInv', [Next]_vars
               PROVE  Promise!Next
    OBVIOUS
  <2>1. StateKnown /\ StateKnown'
    BY StatesKnown, PTL
  <2>2. \A r \in Requests : StateOf(r)' \in Promise!Progress
    <3>1. (\A r \in Requests : StateOf(r) \in Promise!Progress)'
      BY StatesTyped, PTL
    <3> QED
      BY <3>1
  <2>3. crowd' = crowd
    BY NextKinds DEF QueueInv
  <2>4. ~crowd => \A r \in Requests :
          StateOf(r)' = StateOf(r) \/ <<StateOf(r), StateOf(r)'>> \in Promise!Moves
    BY <2>1, RequestMoves
  <2> QED
    BY <2>2, <2>3, <2>4 DEF Promise!Next
<1> QED
  BY <1>1, <1>2, QueueInductive, PTL DEF Spec, ImplementsPromise, Promise!Spec

=============================================================================
