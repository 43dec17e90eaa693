-------------------------- MODULE FileLock_proofs ----------------------------
(***************************************************************************)
(* The lock file excludes, for any number of processes and of failures, as *)
(* long as no lock file has grown old; and it implements Mutex.            *)
(***************************************************************************)
EXTENDS FileLock, TLAPS

LEMMA InitInv == Init => LockInv
<1> SUFFICES ASSUME Init
             PROVE  LockInv
  OBVIOUS
<1>1. failures \in 0 .. MaxFailures
  BY LockAssumption DEF Init
<1>2. TypeOK
  BY <1>1 DEF Init, TypeOK, Places
<1>3. Owned
  BY DEF Init, Owned, Inside
<1> QED
  BY <1>2, <1>3 DEF LockInv

\* LockInv is inductive: a process gets inside only by creating the file, and
\* only the one inside removes it before some file is old.
LEMMA StepInv == LockInv /\ [Next]_lockVars => LockInv'
<1> SUFFICES ASSUME LockInv, [Next]_lockVars
             PROVE  LockInv'
  OBVIOUS
<1> USE LockAssumption DEF LockInv, TypeOK, Owned, Places, Inside, Goto
<1>1. ASSUME NEW p \in Proc, Enter(p)
      PROVE  LockInv'
  BY <1>1 DEF Enter
<1>2. ASSUME NEW p \in Proc, Create(p)
      PROVE  LockInv'
  BY <1>2 DEF Create
<1>3. ASSUME NEW p \in Proc, CreateRefused(p)
      PROVE  LockInv'
  BY <1>3 DEF CreateRefused
<1>4. ASSUME NEW p \in Proc, WritePid(p)
      PROVE  LockInv'
  BY <1>4 DEF WritePid
<1>5. ASSUME NEW p \in Proc, WritePidFails(p)
      PROVE  LockInv'
  BY <1>5 DEF WritePidFails
<1>6. ASSUME NEW p \in Proc, CheckAge(p)
      PROVE  LockInv'
  BY <1>6 DEF CheckAge, IsStale
<1>7. ASSUME NEW p \in Proc, Break(p)
      PROVE  LockInv'
  BY <1>7 DEF Break
<1>8. ASSUME NEW p \in Proc, GiveUp(p)
      PROVE  LockInv'
  BY <1>8 DEF GiveUp
<1>9. ASSUME NEW p \in Proc, Retry(p)
      PROVE  LockInv'
  BY <1>9 DEF Retry
<1>10. ASSUME NEW p \in Proc, Exit(p)
       PROVE  LockInv'
  BY <1>10 DEF Exit
<1>11. ASSUME NEW p \in Proc, Deadline(p)
       PROVE  LockInv'
  BY <1>11 DEF Deadline
<1>12. ASSUME GrowOld
       PROVE  LockInv'
  BY <1>12 DEF GrowOld
<1>13. ASSUME NEW p \in Proc, Crash(p)
       PROVE  LockInv'
  BY <1>13 DEF Crash
<1>14. CASE UNCHANGED lockVars
  BY <1>14 DEF lockVars
<1> QED
  BY <1>1, <1>2, <1>3, <1>4, <1>5, <1>6, <1>7, <1>8, <1>9, <1>10, <1>11,
     <1>12, <1>13, <1>14 DEF Next, Step

\* Whoever is inside owns the file, until a file grows old.
THEOREM LockInvariant == Spec => []LockInv
  BY InitInv, StepInv, PTL DEF Spec

\* "Writes take a lock": one process at a time is inside, however many
\* crash, fail to write their pid or give up, until a lock file grows old.
THEOREM ExclusionHolds == Spec => []ExclusionUntilOld
<1>1. LockInv => ExclusionUntilOld
  BY DEF LockInv, Owned, ExclusionUntilOld, Exclusion
<1> QED
  BY <1>1, LockInvariant, PTL

\* Until a lock file grows old, no process removes the lock of another.
THEOREM OwnFileOnlyHolds == Spec => OwnFileOnly
<1> DEFINE A(p) == lock = p /\ lock' # p /\ ~everOld
                     => pc[p] = "hold" /\ pc'[p] = "out"
<1>1. LockInv /\ [Next]_lockVars => [\A p \in Proc : A(p)]_lockVars
  <2> SUFFICES ASSUME LockInv, Next, NEW p \in Proc, lock = p, lock' # p, ~everOld
               PROVE  pc[p] = "hold" /\ pc'[p] = "out"
    BY DEF lockVars
  <2>1. PICK q \in Proc : Break(q) \/ Exit(q)
    BY LockAssumption DEF Next, Step, Enter, Create, CreateRefused, WritePid,
       WritePidFails, CheckAge, GiveUp, Retry, Deadline, GrowOld, Crash
  <2>2. Exit(q)
    BY <2>1 DEF Break, Goto, LockInv, Owned
  <2>3. q = p
    BY <2>2 DEF Exit, Goto, LockInv, Owned, Inside
  <2> QED
    BY <2>2, <2>3 DEF Exit, Goto, LockInv, TypeOK
<1> QED
  BY <1>1, LockInvariant, PTL DEF Spec, OwnFileOnly

\* The lock file implements Mutex: processes get inside and leave as the
\* abstract lock is taken and given up, unless a lock file has grown old.
THEOREM Refinement == Spec => ImplementsMutex
<1>1. Init => Lock!Init
  BY DEF Init, Lock!Init, Holder, Holders, Inside
<1>2. LockInv /\ [Next]_lockVars => [Lock!Next]_<<Holder, everOld>>
  <2> SUFFICES ASSUME LockInv, [Next]_lockVars, ~(Holder' = Holder /\ everOld' = everOld)
               PROVE  Lock!Next
    OBVIOUS
  <2>1. CASE everOld'
    BY <2>1 DEF Lock!Next, Lock!CallOff
  <2>2. CASE ~everOld'
    <3> USE LockAssumption DEF Goto
    <3>1. everOld' = everOld /\ ~everOld
      BY <2>2 DEF LockInv, TypeOK, lockVars, Next, Step, Enter, Create,
         CreateRefused, WritePid, WritePidFails, CheckAge, Break, GiveUp, Retry,
         Exit, Deadline, GrowOld, Crash
    <3>2. \A p \in Holders : Holders = {p}
      BY <3>1 DEF Holders, LockInv, Owned
    <3>3. Holders' # Holders
      <4> SUFFICES ASSUME Holders' = Holders
                   PROVE  Holder' = Holder
        BY <3>1
      <4>1. CASE Holders = {}
        BY <4>1 DEF Holder
      <4>2. CASE Holders # {}
        <5>1. PICK p \in Holders : Holders = {p}
          BY <4>2, <3>2
        <5>2. Holder = p
          BY <5>1 DEF Holder
        <5>3. Holder' = p
          BY <5>1 DEF Holder
        <5> QED
          BY <5>2, <5>3
      <4> QED
        BY <4>1, <4>2
    <3>4. PICK q \in Proc : Create(q) \/ WritePidFails(q) \/ Exit(q) \/ Crash(q)
      <4>1. Next
        BY <3>3 DEF lockVars, Holders
      <4>2. pc' = pc => Holders' = Holders
        BY DEF Holders
      <4>3. ASSUME NEW q \in Proc, Enter(q) \/ CreateRefused(q) \/ WritePid(q)
                     \/ CheckAge(q) \/ Break(q) \/ GiveUp(q) \/ Retry(q)
            PROVE  Holders' = Holders
        BY <4>3 DEF Enter, CreateRefused, WritePid, CheckAge, Break, GiveUp, Retry,
           Holders, Inside, LockInv, TypeOK
      <4> QED
        BY <4>1, <4>2, <4>3, <3>3 DEF Next, Step, Deadline, GrowOld
    <3>5. CASE Create(q)
      <4>1. Holders = {}
        BY <3>1, <3>5 DEF Create, Holders, LockInv, Owned
      <4>2. Holders' = {q}
        BY <4>1, <3>5 DEF Create, Holders, Inside, LockInv, TypeOK
      <4>3. Holder = NoOne /\ Holder' = q
        BY <4>1, <4>2 DEF Holder
      <4> QED
        BY <4>3, <3>1 DEF Lock!Next, Lock!Acquire
    <3>6. CASE WritePidFails(q) \/ Exit(q) \/ Crash(q)
      <4>1. Holders' = Holders \ {q}
        BY <3>6 DEF WritePidFails, Exit, Crash, Holders, Inside, LockInv, TypeOK
      <4>2. Holders = {q} /\ Holders' = {}
        BY <4>1, <3>2, <3>3
      <4>3. Holder = q /\ Holder' = NoOne
        BY <4>2 DEF Holder
      <4> QED
        BY <4>3, <3>1 DEF Lock!Next, Lock!Release
    <3> QED
      BY <3>4, <3>5, <3>6
  <2> QED
    BY <2>1, <2>2 DEF LockInv, TypeOK
<1> QED
  BY <1>1, <1>2, LockInvariant, PTL DEF Spec, Lock!Spec, ImplementsMutex

=============================================================================
