------------------------ MODULE StoreSessions_proofs -------------------------
(***************************************************************************)
(* Sessions on one store, for any number of clients in any number of       *)
(* processes: what is on disk is whole, and what a session was told is     *)
(* saved has been saved.                                                   *)
(***************************************************************************)
EXTENDS StoreSessions, TLAPS

(***************************************************************************)
(* The steps of the lock, as the sessions see them: what changes is where  *)
(* one client stands.                                                      *)
(***************************************************************************)

LockMoves(c) ==
  \/ L!Enter(c) \/ L!Create(c) \/ L!CreateRefused(c) \/ L!WritePid(c)
  \/ L!WritePidFails(c) \/ L!CheckAge(c) \/ L!Break(c) \/ L!Retry(c)
  \/ L!Deadline(c) \/ L!GiveUp(c) \/ L!Exit(c)

LEMMA LockMoveType ==
  ASSUME L!TypeOK, NEW c \in Client, LockMoves(c)
  PROVE  L!TypeOK' /\ everOld' = everOld
<1> USE SessionAssumption DEF L!TypeOK, L!Places, L!Goto
<1>1. ASSUME L!Enter(c)
      PROVE  L!TypeOK' /\ everOld' = everOld
  BY <1>1 DEF L!Enter
<1>2. ASSUME L!Create(c) \/ L!CreateRefused(c) \/ L!WritePid(c)
      PROVE  L!TypeOK' /\ everOld' = everOld
  BY <1>2 DEF L!Create, L!CreateRefused, L!WritePid
<1>3. ASSUME L!WritePidFails(c)
      PROVE  L!TypeOK' /\ everOld' = everOld
  BY <1>3 DEF L!WritePidFails
<1>4. ASSUME L!CheckAge(c) \/ L!Break(c)
      PROVE  L!TypeOK' /\ everOld' = everOld
  BY <1>4 DEF L!CheckAge, L!Break, L!IsStale
<1>5. ASSUME L!Retry(c) \/ L!GiveUp(c) \/ L!Exit(c)
      PROVE  L!TypeOK' /\ everOld' = everOld
  BY <1>5 DEF L!Retry, L!GiveUp, L!Exit
<1>6. ASSUME L!Deadline(c)
      PROVE  L!TypeOK' /\ everOld' = everOld
  BY <1>6 DEF L!Deadline
<1> QED
  BY <1>1, <1>2, <1>3, <1>4, <1>5, <1>6 DEF LockMoves

LEMMA LockMoveOwned ==
  ASSUME L!TypeOK, L!Owned, NEW c \in Client, LockMoves(c)
  PROVE  /\ L!Owned'
         /\ \A d \in Client : d # c => pc'[d] = pc[d]
<1> USE SessionAssumption DEF L!TypeOK, L!Owned, L!Inside, L!Places, L!Goto
<1> DEFINE Goal == /\ L!Owned'
                   /\ \A d \in Client : d # c => pc'[d] = pc[d]
<1>1. ASSUME L!Enter(c)
      PROVE  Goal
  BY <1>1 DEF L!Enter
<1>2. ASSUME L!Create(c)
      PROVE  Goal
  BY <1>2 DEF L!Create, Inodes
<1>3. ASSUME L!CreateRefused(c) \/ L!WritePid(c)
      PROVE  Goal
  BY <1>3 DEF L!CreateRefused, L!WritePid
<1>4. ASSUME L!WritePidFails(c)
      PROVE  Goal
  BY <1>4 DEF L!WritePidFails
<1>5. ASSUME L!CheckAge(c)
      PROVE  Goal
  BY <1>5 DEF L!CheckAge, L!IsStale
<1>6. ASSUME L!Break(c)
      PROVE  Goal
  BY <1>6 DEF L!Break
<1>7. ASSUME L!Retry(c) \/ L!GiveUp(c)
      PROVE  Goal
  BY <1>7 DEF L!Retry, L!GiveUp
<1>8. ASSUME L!Exit(c)
      PROVE  Goal
  BY <1>8 DEF L!Exit
<1>9. ASSUME L!Deadline(c)
      PROVE  Goal
  BY <1>9 DEF L!Deadline
<1> QED
  BY <1>1, <1>2, <1>3, <1>4, <1>5, <1>6, <1>7, <1>8, <1>9 DEF LockMoves

-----------------------------------------------------------------------------
(***************************************************************************)
(* The inductive invariant, part by part.                                  *)
(***************************************************************************)

\* Inside Store.save with the lock.
Saves(c) ==
  /\ stage[c] \in {"saving", "opened", "closed", "replaced", "broken"}
  /\ pc[c] = "hold"

\* Who has opened the temporary file has the lock, and sessions that do not
\* overlap are one at a time.  A save that has made its payload holds no dict.
Turns ==
  /\ L!Owned
  /\ \A c \in Client :
       stage[c] \in {"opened", "closed", "replaced", "broken"} => pc[c] = "hold"
  /\ \A c \in holders : stage[c] = "saving"
  /\ ~overlap => \A c, d \in Client :
       stage[c] \in Underway /\ stage[d] \in Underway => c = d

\* A process writes files of its own, findings.json is none of those that
\* are being written by name, and a client that has opened nothing has made
\* none.
Files ==
  /\ \A p \in Processes :
       tmp[p] # NoOne => /\ tmp[p] \in Client
                         /\ procOf[tmp[p]] = p
                         /\ tmp[p] # file
  /\ \A c \in Client :
       /\ stage[c] = "opened" => fd[c] \in Client /\ procOf[fd[c]] = procOf[c]
       /\ stage[c] \in {"idle", "loaded", "decided", "saving"} =>
            file # c /\ \A p \in Processes : tmp[p] # c

\* Nobody of its own process can be in the middle of a save as well.
Guarded(c) == HasOwnProcess(c) \/ ~everOld \/ ~overlap

\* What a guarded client is writing is what it will find under that name.
Writes(c) ==
  Guarded(c) =>
    /\ stage[c] = "opened" =>
         fd[c] = tmp[procOf[c]] /\ content[fd[c]] = Truncated
    /\ stage[c] = "closed" =>
         /\ tmp[procOf[c]] # NoOne
         /\ content[tmp[procOf[c]]] = [whole |-> TRUE, has |-> payload[c]]

\* Nobody else changes the copy it works on or puts another in its place.
Keeps(c) ==
  HasOwnProcess(c) \/ ~overlap =>
    /\ stage[c] \in {"loaded", "decided", "saving"} =>
         base[c] \subseteq memory[procOf[c]]
    /\ stage[c] \in {"decided", "saving"} => c \in memory[procOf[c]]
    /\ stage[c] = "saving" => c \in holders
    /\ stage[c] \in {"opened", "closed"} =>
         base[c] \subseteq payload[c] /\ c \in payload[c]

Acked(c) ==
  HasOwnProcess(c) /\ stage[c] \in {"replaced", "done"} => c \in written

Solo ==
  ~overlap => \A c \in Client :
    /\ stage[c] \in {"loaded", "decided", "saving", "opened", "closed"} =>
         content[file].has \subseteq base[c]
    /\ stage[c] \in {"replaced", "done"} => c \in content[file].has

SessionsInv ==
  /\ TypeOK
  /\ Turns
  /\ Files
  /\ \A c \in Client : Writes(c) /\ Keeps(c) /\ Acked(c)
  /\ FileWhole
  /\ Solo

-----------------------------------------------------------------------------
(***************************************************************************)
(* Types.                                                                  *)
(***************************************************************************)

LEMMA ProcessOf ==
  ASSUME procOf \in Layouts, NEW c \in Client
  PROVE  procOf[c] \in Processes
BY SessionAssumption DEF Processes

LEMMA TypeStep ==
  ASSUME TypeOK, [Next]_vars
  PROVE  TypeOK'
<1> USE SessionAssumption DEF TypeOK, Goto, Stages, Inodes, Contents
<1>1. ASSUME NEW c \in Client, Step(c)
      PROVE  TypeOK'
  <2> procOf[c] \in Processes
    BY ProcessOf
  <2>1. CASE Load(c)
    BY <2>1 DEF Load, LeftWith, lockVars, diskVars, L!TypeOK
  <2>2. CASE LoadFails(c)
    BY <2>2 DEF LoadFails, lockVars, diskVars, sessionVars, workVars, L!TypeOK
  <2>3. CASE Decide(c)
    BY <2>3 DEF Decide, lockVars, diskVars, L!TypeOK
  <2>4. CASE BeginSave(c)
    <3>1. L!TypeOK'
      BY <2>4, LockMoveType DEF BeginSave, LockMoves
    <3> QED
      BY <2>4, <3>1 DEF BeginSave, diskVars, sessionVars, workVars
  <2>5. CASE LockStep(c)
    <3>1. L!TypeOK'
      BY <2>5, LockMoveType DEF LockStep, LockMoves
    <3> QED
      BY <2>5, <3>1 DEF LockStep, diskVars, sessionVars, workVars
  <2>6. CASE LockFails(c)
    <3>1. L!TypeOK'
      BY <2>6, LockMoveType DEF LockFails, LockMoves
    <3> QED
      BY <2>6, <3>1 DEF LockFails, diskVars, sessionVars, workVars
  <2>7. CASE OpenTmp(c)
    BY <2>7 DEF OpenTmp, Dumps, Truncated, lockVars, L!TypeOK
  <2>8. CASE WriteTmp(c)
    <3>1. PICK whole \in BOOLEAN :
            content' = [content EXCEPT ![fd[c]] = [whole |-> whole, has |-> payload[c]]]
      BY <2>8 DEF WriteTmp
    <3>2. content' \in [Inodes -> Contents]
      BY <3>1
    <3> QED
      BY <2>8, <3>2 DEF WriteTmp, lockVars, sessionVars, workVars, L!TypeOK
  <2>9. CASE Replace(c)
    BY <2>9 DEF Replace, lockVars, sessionVars, workVars, L!TypeOK
  <2>10. CASE ReplaceFails(c)
    BY <2>10 DEF ReplaceFails, lockVars, diskVars, sessionVars, workVars, L!TypeOK
  <2>11. CASE Finish(c) \/ FinishBroken(c)
    <3>1. L!TypeOK'
      BY <2>11, LockMoveType DEF Finish, FinishBroken, LockMoves
    <3> QED
      BY <2>11, <3>1 DEF Finish, FinishBroken, diskVars, sessionVars, workVars
  <2> QED
    BY <1>1, <2>1, <2>2, <2>3, <2>4, <2>5, <2>6, <2>7, <2>8, <2>9, <2>10, <2>11
       DEF Step
<1>2. ASSUME NEW p \in Processes, Crash(p)
      PROVE  TypeOK'
  <2>1. L!TypeOK'
    BY <1>2 DEF Crash, L!TypeOK, L!Places
  <2> QED
    BY <1>2, <2>1 DEF Crash, sessionVars, workVars
<1>3. ASSUME GrowOld
      PROVE  TypeOK'
  <2>1. L!TypeOK'
    BY <1>3 DEF GrowOld, L!GrowOld, L!TypeOK
  <2> QED
    BY <1>3, <2>1 DEF GrowOld, diskVars, sessionVars, workVars
<1>4. ASSUME UNCHANGED vars
      PROVE  TypeOK'
  BY <1>4 DEF vars, lockVars, diskVars, sessionVars, workVars, L!TypeOK
<1> QED
  BY <1>1, <1>2, <1>3, <1>4 DEF Next

-----------------------------------------------------------------------------
(***************************************************************************)
(* Steps by what they touch.                                               *)
(***************************************************************************)

\* One client goes on, and neither the disk nor the memory changes.
Quiet(c) ==
  /\ UNCHANGED <<diskVars, workVars, everOld>>
  /\ \A d \in Client : d # c => (d \in holders' <=> d \in holders)
  /\ stage'[c] = "saving" /\ (c \in holders \/ stage[c] = "decided") => c \in holders'
  /\ c \in holders' /\ stage'[c] # "saving" => c \in holders /\ stage[c] # "saving"
  /\ \A d \in Client : d # c => stage'[d] = stage[d] /\ pc'[d] = pc[d]
  /\ \/ stage'[c] = stage[c] /\ stage[c] = "saving"
     \/ stage[c] = "decided" /\ stage'[c] = "saving"
     \/ stage[c] = "closed" /\ stage'[c] = "broken" /\ pc'[c] = pc[c]
     \/ stage[c] = "replaced" /\ stage'[c] = "done"
     \/ stage'[c] = "failed"

LEMMA StepKinds ==
  ASSUME TypeOK, L!Owned, NEW c \in Client, Step(c)
  PROVE  /\ L!Owned'
         /\ \/ Quiet(c)
            \/ Load(c) \/ Decide(c) \/ OpenTmp(c) \/ WriteTmp(c) \/ Replace(c)
<1> L!TypeOK
  BY DEF TypeOK
<1>1. ASSUME LoadFails(c) \/ ReplaceFails(c)
      PROVE  L!Owned' /\ Quiet(c)
  BY <1>1 DEF LoadFails, ReplaceFails, Quiet, Goto, TypeOK, L!Owned, lockVars, sessionVars
<1>2. ASSUME BeginSave(c)
      PROVE  L!Owned' /\ Quiet(c)
  <2> LockMoves(c)
    BY <1>2 DEF BeginSave, LockMoves
  <2> QED
    BY <1>2, LockMoveType, LockMoveOwned DEF BeginSave, Quiet, Goto, TypeOK
<1>3. ASSUME LockStep(c)
      PROVE  L!Owned' /\ Quiet(c)
  <2> LockMoves(c)
    BY <1>3 DEF LockStep, LockMoves
  <2> QED
    BY <1>3, LockMoveType, LockMoveOwned DEF LockStep, Quiet, TypeOK, sessionVars
<1>4. ASSUME LockFails(c)
      PROVE  L!Owned' /\ Quiet(c)
  <2> LockMoves(c)
    BY <1>4 DEF LockFails, LockMoves
  <2> QED
    BY <1>4, LockMoveType, LockMoveOwned DEF LockFails, Quiet, Goto, TypeOK
<1>5. ASSUME Finish(c) \/ FinishBroken(c)
      PROVE  L!Owned' /\ Quiet(c)
  <2> LockMoves(c)
    BY <1>5 DEF Finish, FinishBroken, LockMoves
  <2> QED
    BY <1>5, LockMoveType, LockMoveOwned
       DEF Finish, FinishBroken, Quiet, Goto, TypeOK, sessionVars
<1>6. ASSUME Load(c) \/ Decide(c) \/ OpenTmp(c) \/ WriteTmp(c) \/ Replace(c)
      PROVE  L!Owned'
  BY <1>6 DEF Load, Decide, OpenTmp, WriteTmp, Replace, lockVars, L!Owned
<1> QED
  BY <1>1, <1>2, <1>3, <1>4, <1>5, <1>6 DEF Step

\* Time goes by, or nothing happens.
Pause ==
  /\ UNCHANGED <<stage, pc, diskVars, sessionVars>>
  /\ everOld => everOld'

LEMMA PauseStep ==
  ASSUME TypeOK, GrowOld \/ UNCHANGED vars
  PROVE  Pause /\ (L!Owned => L!Owned')
BY DEF TypeOK, GrowOld, L!GrowOld, vars, lockVars, diskVars, sessionVars, workVars, Pause,
       L!Owned

\* What only grows, and what never changes.
LEMMA Monotone ==
  ASSUME TypeOK, L!Owned, [Next]_vars
  PROVE  /\ procOf' = procOf
         /\ everOld => everOld'
         /\ overlap => overlap'
         /\ \A c \in Client : /\ HasOwnProcess(c)' <=> HasOwnProcess(c)
                              /\ Guarded(c)' => Guarded(c)
<1>1. /\ procOf' = procOf
      /\ everOld => everOld'
      /\ overlap => overlap'
  <2>1. ASSUME NEW c \in Client, Step(c)
        PROVE  /\ procOf' = procOf
               /\ everOld => everOld'
               /\ overlap => overlap'
    BY <2>1, StepKinds
       DEF Quiet, Load, Decide, OpenTmp, WriteTmp, Replace, lockVars, diskVars,
           sessionVars, workVars
  <2>2. ASSUME NEW p \in Processes, Crash(p)
        PROVE  /\ procOf' = procOf
               /\ everOld => everOld'
               /\ overlap => overlap'
    BY <2>2 DEF Crash, sessionVars, workVars
  <2>3. ASSUME GrowOld \/ UNCHANGED vars
        PROVE  /\ procOf' = procOf
               /\ everOld => everOld'
               /\ overlap => overlap'
    <3> Pause
      BY <2>3, PauseStep
    <3> QED
      BY DEF Pause, sessionVars, workVars
  <2> QED
    BY <2>1, <2>2, <2>3 DEF Next
<1> QED
  BY <1>1 DEF HasOwnProcess, Guarded

-----------------------------------------------------------------------------
(***************************************************************************)
(* Each part of the invariant survives each step.                          *)
(***************************************************************************)

LEMMA TurnsStep ==
  ASSUME TypeOK, Turns, [Next]_vars
  PROVE  Turns'
<1> USE DEF TypeOK, Turns, Goto, Underway
<1>1. ASSUME NEW c \in Client, Step(c)
      PROVE  Turns'
  <2>1. L!Owned'
    BY <1>1, StepKinds
  <2>2. CASE Quiet(c)
    <3>0. holders' \subseteq Client
      BY TypeStep
    <3>1. ASSUME NEW d \in holders'
          PROVE  stage'[d] = "saving"
      BY <2>2, <3>0 DEF Quiet
    <3> QED
      BY <2>1, <2>2, <3>1 DEF Quiet, workVars
  <2>3. CASE Load(c)
    BY <2>1, <2>3 DEF Load, LeftWith, lockVars
  <2>4. CASE Decide(c)
    BY <2>1, <2>4 DEF Decide, lockVars
  <2>5. CASE OpenTmp(c)
    BY <2>1, <2>5 DEF OpenTmp, Dumps, lockVars
  <2>6. CASE WriteTmp(c)
    BY <2>1, <2>6 DEF WriteTmp, lockVars, sessionVars, workVars
  <2>7. CASE Replace(c)
    BY <2>1, <2>7 DEF Replace, lockVars, sessionVars, workVars
  <2> QED
    BY <1>1, <2>2, <2>3, <2>4, <2>5, <2>6, <2>7, StepKinds
<1>2. ASSUME NEW p \in Processes, Crash(p)
      PROVE  Turns'
  <2>1. L!Owned'
    BY <1>2 DEF Crash, L!Owned, L!TypeOK, L!Inside
  <2>2. \A c \in Client : \/ stage'[c] = "crashed"
                          \/ stage'[c] = stage[c] /\ pc'[c] = pc[c]
    BY <1>2 DEF Crash
  <2>3. overlap' = overlap
    BY <1>2 DEF Crash, sessionVars, workVars
  <2>4. \A c \in holders' : c \in holders /\ stage'[c] = stage[c]
    BY <1>2 DEF Crash
  <2> QED
    BY <2>1, <2>2, <2>3, <2>4
<1>3. ASSUME GrowOld \/ UNCHANGED vars
      PROVE  Turns'
  <2> Pause /\ L!Owned'
    BY <1>3, PauseStep
  <2> QED
    BY DEF Pause, sessionVars, workVars
<1> QED
  BY <1>1, <1>2, <1>3 DEF Next

LEMMA FilesStep ==
  ASSUME TypeOK, Turns, Files, [Next]_vars
  PROVE  Files'
<1> USE SessionAssumption DEF TypeOK, Files, Goto, Inodes
<1> L!Owned
  BY DEF Turns
<1>1. ASSUME NEW c \in Client, Step(c)
      PROVE  Files'
  <2> procOf[c] \in Processes
    BY ProcessOf
  <2>1. CASE Quiet(c)
    BY <2>1 DEF Quiet, diskVars, sessionVars, workVars
  <2>2. CASE Load(c)
    BY <2>2 DEF Load, diskVars
  <2>3. CASE Decide(c)
    BY <2>3 DEF Decide, diskVars
  <2>4. CASE OpenTmp(c)
    BY <2>4 DEF OpenTmp
  <2>5. CASE WriteTmp(c)
    BY <2>5 DEF WriteTmp, sessionVars, workVars
  <2>6. CASE Replace(c)
    BY <2>6 DEF Replace, sessionVars, workVars
  <2> QED
    BY <1>1, <2>1, <2>2, <2>3, <2>4, <2>5, <2>6, StepKinds
<1>2. ASSUME NEW p \in Processes, Crash(p)
      PROVE  Files'
  <2>1. \A c \in Client : \/ stage'[c] = "crashed"
                          \/ stage'[c] = stage[c] /\ fd'[c] = fd[c]
    BY <1>2 DEF Crash
  <2> QED
    BY <1>2, <2>1 DEF Crash, sessionVars, workVars
<1>3. ASSUME GrowOld \/ UNCHANGED vars
      PROVE  Files'
  <2> Pause
    BY <1>3, PauseStep
  <2> QED
    BY DEF Pause, diskVars, sessionVars, workVars
<1> QED
  BY <1>1, <1>2, <1>3 DEF Next

\* Of the clients of one process a guarded one saves alone.
LEMMA SavesAlone ==
  ASSUME TypeOK, Turns, NEW c \in Client, NEW d \in Client,
         Guarded(c), Saves(c), Saves(d), procOf[c] = procOf[d]
  PROVE  c = d
<1>1. CASE HasOwnProcess(c)
  BY <1>1 DEF HasOwnProcess
<1>2. CASE ~everOld
  BY <1>2 DEF Saves, Turns, L!Owned, L!Inside
<1>3. CASE ~overlap
  BY <1>3 DEF Saves, Turns, Underway
<1> QED
  BY <1>1, <1>2, <1>3 DEF Guarded

LEMMA WritesStep ==
  ASSUME TypeOK, Turns, Files, [Next]_vars, NEW d \in Client, Writes(d)
  PROVE  Writes(d)'
<1> SUFFICES ASSUME Guarded(d)', stage'[d] \in {"opened", "closed"}
             PROVE  Writes(d)'
  BY DEF Writes
<1> L!Owned
  BY DEF Turns
<1> /\ Guarded(d)
   /\ procOf' = procOf
  BY Monotone
<1> procOf[d] \in Processes
  BY ProcessOf DEF TypeOK
<1> USE SessionAssumption DEF TypeOK, Writes, Goto, Inodes, Truncated
<1>1. ASSUME NEW c \in Client, Step(c)
      PROVE  Writes(d)'
  <2> procOf[c] \in Processes
    BY ProcessOf
  <2>1. CASE Quiet(c)
    BY <2>1 DEF Quiet, diskVars, sessionVars, workVars
  <2>2. CASE Load(c)
    <3>1. stage[d] \in {"opened", "closed"} /\ d \notin holders
      BY <2>2 DEF Load, Turns
    <3> QED
      BY <2>2, <3>1 DEF Load, LeftWith, diskVars
  <2>3. CASE Decide(c)
    BY <2>3 DEF Decide, diskVars
  <2>4. CASE c = d /\ OpenTmp(c)
    BY <2>4 DEF OpenTmp, Files
  <2>5. CASE c = d /\ WriteTmp(c)
    BY <2>5 DEF WriteTmp, Files, sessionVars, workVars
  <2>6. CASE c = d /\ Replace(c)
    BY <2>6 DEF Replace
  <2>7. CASE c # d /\ (OpenTmp(c) \/ WriteTmp(c) \/ Replace(c))
    <3>1. stage[d] \in {"opened", "closed"} /\ stage'[d] = stage[d]
      BY <2>7 DEF OpenTmp, WriteTmp, Replace
    <3>2. Saves(c) /\ Saves(d)
      BY <2>7, <3>1 DEF OpenTmp, WriteTmp, Replace, Saves, Turns
    <3>3. procOf[c] # procOf[d]
      BY <2>7, <3>2, SavesAlone
    <3>4. CASE OpenTmp(c)
      <4>1. PICK i \in Client :
              /\ procOf[i] = procOf[c]
              /\ tmp' = [tmp EXCEPT ![procOf[c]] = i]
              /\ fd' = [fd EXCEPT ![c] = i]
              /\ content' = [content EXCEPT ![i] = Truncated]
        BY <3>4 DEF OpenTmp, Files
      <4>2. /\ tmp'[procOf[d]] = tmp[procOf[d]]
            /\ fd'[d] = fd[d]
            /\ payload'[d] = payload[d]
        BY <2>7, <3>3, <3>4, <4>1 DEF OpenTmp, Dumps
      <4>3. tmp[procOf[d]] # NoOne => tmp[procOf[d]] # i
        BY <3>3, <4>1 DEF Files
      <4>4. tmp[procOf[d]] # NoOne => content'[tmp[procOf[d]]] = content[tmp[procOf[d]]]
        BY <4>1, <4>3
      <4>5. stage[d] = "opened" => fd[d] # NoOne
        BY DEF Turns, Files
      <4> QED
        BY <3>1, <4>2, <4>4, <4>5
    <3>5. CASE WriteTmp(c)
      BY <2>7, <3>1, <3>3, <3>5 DEF WriteTmp, Files, sessionVars, workVars
    <3>6. CASE Replace(c)
      BY <2>7, <3>1, <3>3, <3>6 DEF Replace, Files, sessionVars, workVars
    <3> QED
      BY <2>7, <3>4, <3>5, <3>6
  <2> QED
    BY <1>1, <2>1, <2>2, <2>3, <2>4, <2>5, <2>6, <2>7, StepKinds
<1>2. ASSUME NEW p \in Processes, Crash(p)
      PROVE  Writes(d)'
  <2>1. stage'[d] = stage[d] /\ fd'[d] = fd[d]
    BY <1>2 DEF Crash
  <2> QED
    BY <1>2, <2>1 DEF Crash, sessionVars, workVars
<1>3. ASSUME GrowOld \/ UNCHANGED vars
      PROVE  Writes(d)'
  <2> Pause
    BY <1>3, PauseStep
  <2> QED
    BY DEF Pause, diskVars, sessionVars, workVars
<1> QED
  BY <1>1, <1>2, <1>3 DEF Next

LEMMA KeepsStep ==
  ASSUME TypeOK, Turns, [Next]_vars, NEW d \in Client, Keeps(d)
  PROVE  Keeps(d)'
<1> SUFFICES ASSUME (HasOwnProcess(d) \/ ~overlap)'
             PROVE  Keeps(d)'
  BY DEF Keeps
<1> L!Owned
  BY DEF Turns
<1> /\ HasOwnProcess(d) \/ ~overlap
   /\ procOf' = procOf
  BY Monotone
<1> procOf[d] \in Processes
  BY ProcessOf DEF TypeOK
<1> USE SessionAssumption DEF TypeOK, Keeps, Goto
<1>1. ASSUME NEW c \in Client, Step(c)
      PROVE  Keeps(d)'
  <2> procOf[c] \in Processes
    BY ProcessOf
  <2>1. CASE Quiet(c)
    BY <2>1 DEF Quiet, diskVars, sessionVars, workVars
  <2>2. CASE c = d /\ Load(c)
    BY <2>2 DEF Load
  <2>3. CASE c # d /\ Load(c)
    <3>1. stage'[d] = stage[d]
      BY <2>3 DEF Load
    <3>2. CASE procOf[c] # procOf[d]
      BY <2>3, <3>1, <3>2 DEF Load, LeftWith
    <3>3. CASE procOf[c] = procOf[d]
      <4>1. ~overlap'
        BY <2>3, <3>3, Monotone DEF HasOwnProcess
      <4>2. stage[d] \notin Underway
        BY <2>3, <4>1 DEF Load
      <4> QED
        BY <3>1, <4>2 DEF Underway
    <3> QED
      BY <3>2, <3>3
  <2>4. CASE c = d /\ Decide(c)
    BY <2>4 DEF Decide
  <2>5. CASE c # d /\ Decide(c)
    <3>1. stage'[d] = stage[d]
      BY <2>5 DEF Decide
    <3>2. CASE procOf[c] # procOf[d]
      BY <2>5, <3>1, <3>2 DEF Decide
    <3>3. CASE procOf[c] = procOf[d]
      <4>1. ~overlap
        BY <2>5, <3>3 DEF HasOwnProcess
      <4>2. stage[d] \notin Underway
        BY <2>5, <4>1 DEF Decide, Turns, Underway
      <4> QED
        BY <3>1, <4>2 DEF Underway
    <3> QED
      BY <3>2, <3>3
  <2>6. CASE c = d /\ OpenTmp(c)
    BY <2>6 DEF OpenTmp, Dumps
  <2>7. CASE c # d /\ OpenTmp(c)
    BY <2>7 DEF OpenTmp, Dumps
  <2>8. CASE WriteTmp(c) \/ Replace(c)
    <3>1. UNCHANGED <<memory, holders, payload, base>>
      BY <2>8 DEF WriteTmp, Replace, sessionVars, workVars
    <3>2. \/ stage'[d] = stage[d]
          \/ stage[d] = "opened" /\ stage'[d] = "closed"
          \/ stage'[d] = "replaced"
      BY <2>8 DEF WriteTmp, Replace
    <3> QED
      BY <3>1, <3>2
  <2> QED
    BY <1>1, <2>1, <2>2, <2>3, <2>4, <2>5, <2>6, <2>7, <2>8, StepKinds
<1>2. ASSUME NEW p \in Processes, Crash(p)
      PROVE  Keeps(d)'
  BY <1>2 DEF Crash, sessionVars, workVars
<1>3. ASSUME GrowOld \/ UNCHANGED vars
      PROVE  Keeps(d)'
  <2> Pause
    BY <1>3, PauseStep
  <2> QED
    BY DEF Pause, diskVars, sessionVars, workVars
<1> QED
  BY <1>1, <1>2, <1>3 DEF Next

LEMMA AckedStep ==
  ASSUME TypeOK, Turns, [Next]_vars, NEW d \in Client,
         Writes(d), Keeps(d), Acked(d)
  PROVE  Acked(d)'
<1> SUFFICES ASSUME HasOwnProcess(d)', stage'[d] \in {"replaced", "done"}
             PROVE  d \in written'
  BY DEF Acked
<1> L!Owned
  BY DEF Turns
<1> HasOwnProcess(d)
  BY Monotone
<1> USE DEF TypeOK, Goto
<1>1. ASSUME NEW c \in Client, Step(c)
      PROVE  d \in written'
  <2>1. CASE Quiet(c)
    BY <2>1 DEF Quiet, Acked, diskVars
  <2>2. CASE Load(c) \/ Decide(c) \/ OpenTmp(c) \/ WriteTmp(c)
    <3>1. stage'[d] = stage[d] /\ written' = written
      BY <2>2 DEF Load, Decide, OpenTmp, WriteTmp, diskVars
    <3> QED
      BY <3>1 DEF Acked
  <2>3. CASE c # d /\ Replace(c)
    BY <2>3 DEF Replace, Acked
  <2>4. CASE c = d /\ Replace(c)
    <3>1. content[tmp[procOf[d]]].has = payload[d]
      BY <2>4 DEF Replace, Writes, Guarded
    <3>2. d \in payload[d]
      BY <2>4 DEF Replace, Keeps
    <3> QED
      BY <2>4, <3>1, <3>2 DEF Replace
  <2> QED
    BY <1>1, <2>1, <2>2, <2>3, <2>4, StepKinds
<1>2. ASSUME NEW p \in Processes, Crash(p)
      PROVE  d \in written'
  BY <1>2 DEF Crash, sessionVars, workVars, Acked
<1>3. ASSUME GrowOld \/ UNCHANGED vars
      PROVE  d \in written'
  <2> Pause
    BY <1>3, PauseStep
  <2> QED
    BY DEF Pause, diskVars, Acked
<1> QED
  BY <1>1, <1>2, <1>3 DEF Next

\* Only the rename changes what findings.json holds, as long as the clients
\* that write are guarded.
LEMMA FileStays ==
  ASSUME TypeOK, Files, NEW c \in Client,
         \/ OpenTmp(c)
         \/ Guarded(c) /\ Writes(c) /\ WriteTmp(c)
  PROVE  file' = file /\ content'[file] = content[file]
<1> procOf[c] \in Processes
  BY ProcessOf DEF TypeOK
<1>1. CASE OpenTmp(c)
  BY <1>1 DEF OpenTmp, TypeOK, Files, Goto
<1>2. CASE Guarded(c) /\ Writes(c) /\ WriteTmp(c)
  <2>1. fd[c] # file
    BY <1>2, SessionAssumption DEF WriteTmp, Writes, Files, Goto, Inodes, TypeOK
  <2> QED
    BY <1>2, <2>1 DEF WriteTmp, TypeOK
<1> QED
  BY <1>1, <1>2

LEMMA WholeStep ==
  ASSUME TypeOK, Turns, Files, \A c \in Client : Writes(c), FileWhole, [Next]_vars
  PROVE  FileWhole'
<1> SUFFICES ASSUME ((\A c \in Client : HasOwnProcess(c)) \/ ~everOld)'
             PROVE  content'[file'].whole
  BY DEF FileWhole
<1> L!Owned
  BY DEF Turns
<1>0. /\ \A c \in Client : Guarded(c)
      /\ content[file].whole
  <2>1. (\A c \in Client : HasOwnProcess(c)) \/ ~everOld
    BY Monotone
  <2> QED
    BY <2>1 DEF Guarded, FileWhole
<1>1. ASSUME NEW c \in Client, Step(c)
      PROVE  content'[file'].whole
  <2>1. CASE Quiet(c)
    BY <1>0, <2>1 DEF Quiet, diskVars
  <2>2. CASE Load(c) \/ Decide(c)
    BY <1>0, <2>2 DEF Load, Decide, diskVars
  <2>3. CASE OpenTmp(c) \/ WriteTmp(c)
    BY <1>0, <2>3, FileStays
  <2>4. CASE Replace(c)
    <3>1. content'[file'] = content[tmp[procOf[c]]]
      BY <2>4 DEF Replace, lockVars, sessionVars, workVars
    <3>2. Guarded(c) /\ Writes(c)
      BY <1>0
    <3>3. content[tmp[procOf[c]]] = [whole |-> TRUE, has |-> payload[c]]
      BY <2>4, <3>2 DEF Replace, Writes, Goto
    <3> QED
      BY <3>1, <3>3
  <2> QED
    BY <1>1, <2>1, <2>2, <2>3, <2>4, StepKinds
<1>2. ASSUME NEW p \in Processes, Crash(p)
      PROVE  content'[file'].whole
  BY <1>0, <1>2 DEF Crash
<1>3. ASSUME GrowOld \/ UNCHANGED vars
      PROVE  content'[file'].whole
  <2> Pause
    BY <1>3, PauseStep
  <2> QED
    BY <1>0 DEF Pause, diskVars
<1> QED
  BY <1>1, <1>2, <1>3 DEF Next

LEMMA SoloStep ==
  ASSUME TypeOK, Turns, Files, \A c \in Client : Writes(c) /\ Keeps(c), Solo,
         [Next]_vars
  PROVE  Solo'
<1> SUFFICES ASSUME ~overlap'
             PROVE  Solo'
  BY DEF Solo
<1> L!Owned
  BY DEF Turns
<1> ~overlap
  BY Monotone
<1> USE DEF TypeOK, Solo, Goto
<1>1. ASSUME NEW c \in Client, Step(c)
      PROVE  Solo'
  <2>1. CASE Quiet(c)
    BY <2>1 DEF Quiet, diskVars, sessionVars, workVars
  <2>2. CASE Load(c)
    <3>1. \A d \in Client : stage[d] \notin Underway
      BY <2>2 DEF Load
    <3> QED
      BY <2>2, <3>1 DEF Load, diskVars, Underway
  <2>3. CASE Decide(c)
    BY <2>3 DEF Decide, diskVars
  <2>4. CASE OpenTmp(c) \/ WriteTmp(c)
    <3>1. content'[file'] = content[file]
      BY <2>4, FileStays DEF Guarded
    <3>2. base' = base
      BY <2>4 DEF OpenTmp, WriteTmp, sessionVars, workVars
    <3>3. \A d \in Client :
            \/ stage'[d] = stage[d]
            \/ /\ stage[d] \in {"saving", "opened"}
               /\ stage'[d] \in {"opened", "closed"}
      <4>1. CASE OpenTmp(c)
        BY <4>1 DEF OpenTmp
      <4>2. CASE WriteTmp(c)
        BY <4>2 DEF WriteTmp
      <4> QED
        BY <2>4, <4>1, <4>2
    <3> QED
      BY <3>1, <3>2, <3>3
  <2>5. CASE Replace(c)
    <3>0. Guarded(c) /\ Writes(c) /\ Keeps(c)
      BY DEF Guarded
    <3>1. content'[file'].has = payload[c]
      BY <2>5, <3>0 DEF Replace, Writes, lockVars, sessionVars, workVars
    <3>2. /\ content[file].has \subseteq payload[c]
          /\ c \in payload[c]
      BY <2>5, <3>0 DEF Replace, Keeps
    <3>3. \A d \in Client : d # c => stage[d] \notin Underway /\ stage'[d] = stage[d]
      BY <2>5 DEF Replace, Turns, Underway
    <3>4. stage'[c] = "replaced"
      BY <2>5 DEF Replace
    <3> QED
      BY <3>1, <3>2, <3>3, <3>4 DEF Underway
  <2> QED
    BY <1>1, <2>1, <2>2, <2>3, <2>4, <2>5, StepKinds
<1>2. ASSUME NEW p \in Processes, Crash(p)
      PROVE  Solo'
  <2>1. \A d \in Client : stage'[d] = "crashed" \/ stage'[d] = stage[d]
    BY <1>2 DEF Crash
  <2> QED
    BY <1>2, <2>1 DEF Crash, sessionVars, workVars
<1>3. ASSUME GrowOld \/ UNCHANGED vars
      PROVE  Solo'
  <2> Pause
    BY <1>3, PauseStep
  <2> QED
    BY DEF Pause, diskVars, sessionVars, workVars
<1> QED
  BY <1>1, <1>2, <1>3 DEF Next

-----------------------------------------------------------------------------
(***************************************************************************)
(* The theorems.                                                           *)
(***************************************************************************)

LEMMA SessionsInit ==
  ASSUME Init
  PROVE  SessionsInv
<1> USE SessionAssumption DEF Init, L!Init
<1>1. TypeOK
  <2>1. L!TypeOK
    <3>1. pc \in [Client -> L!Places] /\ failures \in 0 .. MaxFailures
      BY DEF L!Places
    <3>2. late \in [Client -> BOOLEAN] /\ old \in BOOLEAN /\ everOld \in BOOLEAN
      BY Zenon
    <3> QED
      BY <3>1, <3>2 DEF L!TypeOK
  <2>2. content \in [Inodes -> Contents]
    BY DEF Contents
  <2> QED
    BY <2>1, <2>2 DEF TypeOK, Stages, Inodes
<1>2. Turns /\ Files
  BY DEF Turns, L!Owned, L!Inside, Files, Underway, Inodes
<1>3. \A c \in Client : Writes(c) /\ Keeps(c) /\ Acked(c)
  BY DEF Writes, Keeps, Acked
<1>4. FileWhole /\ Solo
  BY DEF FileWhole, Solo, Inodes
<1> QED
  BY <1>1, <1>2, <1>3, <1>4 DEF SessionsInv

LEMMA SessionsStep ==
  ASSUME SessionsInv, [Next]_vars
  PROVE  SessionsInv'
<1>1. TypeOK' /\ Turns' /\ Files'
  BY TypeStep, TurnsStep, FilesStep DEF SessionsInv
<1>2. ASSUME NEW c \in Client
      PROVE  Writes(c)' /\ Keeps(c)' /\ Acked(c)'
  BY <1>2, WritesStep, KeepsStep, AckedStep DEF SessionsInv
<1>3. FileWhole' /\ Solo'
  BY WholeStep, SoloStep DEF SessionsInv
<1> QED
  BY <1>1, <1>2, <1>3 DEF SessionsInv

THEOREM SessionsInductive == Spec => []SessionsInv
BY SessionsInit, SessionsStep, PTL DEF Spec

\* Every variable of the sessions has its type.
THEOREM SessionsTypeCorrect == Spec => []TypeOK
<1>1. SessionsInv => TypeOK
  BY DEF SessionsInv
<1> QED
  BY <1>1, SessionsInductive, PTL

\* findings.json is a whole document at every moment, crashes in the middle
\* of Store.save included: with any number of commands, and with the threads
\* of a board among them until a lock file grows old.
THEOREM FileStaysWhole == Spec => []FileWhole
<1>1. SessionsInv => FileWhole
  BY DEF SessionsInv
<1> QED
  BY <1>1, SessionsInductive, PTL

\* A command that reports success had its decision in findings.json.
THEOREM SuccessWasWritten == Spec => []AckedWasWritten
<1>1. SessionsInv => AckedWasWritten
  BY DEF SessionsInv, AckedWasWritten, Acked
<1> QED
  BY <1>1, SessionsInductive, PTL

\* The save of a command puts back all that its load had found.
THEOREM LoadedIsKept == Spec => KeepsWhatItLoaded
<1>1. ASSUME SessionsInv, [Next]_vars, NEW c \in Client,
             HasOwnProcess(c), stage[c] = "closed", stage'[c] = "replaced"
      PROVE  base[c] \subseteq content'[file'].has
  <2> L!Owned
    BY <1>1 DEF SessionsInv, Turns
  <2> TypeOK
    BY <1>1 DEF SessionsInv
  <2>1. Replace(c)
    <3>1. ASSUME NEW d \in Client, Step(d)
          PROVE  Replace(c)
      BY <1>1, <3>1, StepKinds
         DEF Quiet, Load, Decide, OpenTmp, WriteTmp, Replace, Goto, TypeOK
    <3>2. ASSUME NEW p \in Processes, Crash(p)
          PROVE  FALSE
      BY <1>1, <3>2 DEF Crash
    <3>3. ASSUME GrowOld \/ UNCHANGED vars
          PROVE  FALSE
      BY <1>1, <3>3, PauseStep DEF Pause
    <3> QED
      BY <1>1, <3>1, <3>2, <3>3 DEF Next
  <2>2. Writes(c) /\ Keeps(c)
    BY <1>1 DEF SessionsInv
  <2>3. content'[file'].has = payload[c]
    BY <1>1, <2>1, <2>2 DEF Replace, Writes, Guarded
  <2> QED
    BY <1>1, <2>2, <2>3 DEF Keeps
<1>2. SessionsInv /\ [Next]_vars =>
        [\A c \in Client :
           HasOwnProcess(c) /\ stage[c] = "closed" /\ stage'[c] = "replaced" =>
             base[c] \subseteq content'[file'].has]_vars
  BY <1>1
<1> QED
  BY <1>2, SessionsInductive, PTL DEF Spec, KeepsWhatItLoaded

\* Sessions that do not overlap lose nothing, with crashes, timeouts and
\* abandoned lock files between them.
THEOREM SoloLosesNothing == Spec => []SoloSessionsKeep
<1>1. SessionsInv => SoloSessionsKeep
  BY DEF SessionsInv, SoloSessionsKeep, Solo
<1> QED
  BY <1>1, SessionsInductive, PTL

=============================================================================
