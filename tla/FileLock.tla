------------------------------ MODULE FileLock -------------------------------
(***************************************************************************)
(* _FileLock of src/engine/redassay/store.py: a lock made of a file that   *)
(* is created with O_EXCL, removed on exit, and taken to be abandoned when *)
(* it is older than a minute.  A step is one system call, so two processes *)
(* interleave between looking at the age of the file and removing it.      *)
(***************************************************************************)
EXTENDS Naturals

CONSTANTS
  Proc,          \* the threads and processes that call Store.save
  NoOne,
  MaxFailures,   \* bound on crashes and failed writes inside the lock
  MayStall       \* may a live holder keep the lock for over a minute?

ASSUME LockAssumption ==
  /\ NoOne \notin Proc
  /\ MaxFailures \in Nat
  /\ MayStall \in BOOLEAN

VARIABLES
  lock,        \* who created the lock file, NoOne when it does not exist
  old,         \* the file's mtime is more than max_age ago
  pc,          \* where each process stands in __enter__ and __exit__
  late,        \* its deadline has passed
  failures,    \* how many processes crashed or failed to write
  everOld      \* history: some lock file was once old

lockVars == <<lock, old, pc, late, failures, everOld>>

Places == {"out", "create", "stamp", "check", "break", "wait", "hold",
           "failed", "crashed"}

Inside == {"stamp", "hold"}
Waiting == {"create", "check", "break", "wait"}

Init ==
  /\ lock = NoOne
  /\ old = FALSE
  /\ pc = [p \in Proc |-> "out"]
  /\ late = [p \in Proc |-> FALSE]
  /\ failures = 0
  /\ everOld = FALSE

Goto(p, from, to) == pc[p] = from /\ pc' = [pc EXCEPT ![p] = to]

-----------------------------------------------------------------------------
(* __enter__                                                               *)

\* deadline = time.time() + self.timeout
Enter(p) ==
  /\ pc[p] \in {"out", "failed"}
  /\ pc' = [pc EXCEPT ![p] = "create"]
  /\ late' = [late EXCEPT ![p] = FALSE]
  /\ UNCHANGED <<lock, old, failures, everOld>>

\* Mutant: os.open without O_EXCL succeeds on a file that is there.
CreateShared(p) ==
  /\ Goto(p, "create", "stamp")
  /\ lock' = p
  /\ old' = FALSE
  /\ UNCHANGED <<late, failures, everOld>>

\* os.open(O_CREAT | O_EXCL): the file did not exist.
Create(p) ==
  /\ lock = NoOne
  /\ Goto(p, "create", "stamp")
  /\ lock' = p
  /\ old' = FALSE
  /\ UNCHANGED <<late, failures, everOld>>

\* os.open fails with EEXIST.
CreateRefused(p) ==
  /\ lock # NoOne
  /\ Goto(p, "create", "check")
  /\ UNCHANGED <<lock, old, late, failures, everOld>>

\* os.write of the pid.
WritePid(p) ==
  /\ Goto(p, "stamp", "hold")
  /\ UNCHANGED <<lock, old, late, failures, everOld>>

\* os.write fails: __enter__ raises, __exit__ never runs, the file stays.
WritePidFails(p) ==
  /\ failures < MaxFailures
  /\ Goto(p, "stamp", "failed")
  /\ failures' = failures + 1
  /\ UNCHANGED <<lock, old, late, everOld>>

\* _is_stale: a file that has gone away meanwhile is not stale.
IsStale == lock # NoOne /\ old

\* Mutant: a file that is there is stale, whatever its age.
StaleWhenPresent(p) ==
  /\ Goto(p, "check", IF lock # NoOne THEN "break" ELSE "wait")
  /\ UNCHANGED <<lock, old, late, failures, everOld>>

\* Mutant: no file is ever stale.
NeverStale(p) ==
  /\ Goto(p, "check", "wait")
  /\ UNCHANGED <<lock, old, late, failures, everOld>>

CheckAge(p) ==
  /\ Goto(p, "check", IF IsStale THEN "break" ELSE "wait")
  /\ UNCHANGED <<lock, old, late, failures, everOld>>

\* _break removes whatever file is there now, then tries again without a
\* look at the deadline.
Break(p) ==
  /\ Goto(p, "break", "create")
  /\ lock' = NoOne
  /\ old' = FALSE
  /\ UNCHANGED <<late, failures, everOld>>

\* Mutant: a process that gives up runs the cleanup of __exit__ as well.
GiveUpAndUnlink(p) ==
  /\ late[p]
  /\ Goto(p, "wait", "failed")
  /\ lock' = NoOne
  /\ old' = FALSE
  /\ UNCHANGED <<late, failures, everOld>>

\* Mutant: the deadline is never tested.
NeverGiveUp(p) ==
  /\ late[p]
  /\ Goto(p, "wait", "create")
  /\ UNCHANGED <<lock, old, late, failures, everOld>>

GiveUp(p) ==
  /\ late[p]
  /\ Goto(p, "wait", "failed")
  /\ UNCHANGED <<lock, old, late, failures, everOld>>

Retry(p) ==
  /\ ~late[p]
  /\ Goto(p, "wait", "create")
  /\ UNCHANGED <<lock, old, late, failures, everOld>>

-----------------------------------------------------------------------------
(* __exit__ removes the file that is there now, its own or not.            *)

Exit(p) ==
  /\ Goto(p, "hold", "out")
  /\ lock' = NoOne
  /\ old' = FALSE
  /\ UNCHANGED <<late, failures, everOld>>

-----------------------------------------------------------------------------
(* The environment: time, and the death of a process.                      *)

Deadline(p) ==
  /\ pc[p] \in Waiting
  /\ ~late[p]
  /\ late' = [late EXCEPT ![p] = TRUE]
  /\ UNCHANGED <<lock, old, pc, failures, everOld>>

\* A minute goes by.  Holders are short-lived unless MayStall, so then only
\* the file of a process that is no longer inside grows old.
GrowOld ==
  /\ lock # NoOne
  /\ ~old
  /\ MayStall \/ pc[lock] \notin Inside
  /\ old' = TRUE
  /\ everOld' = TRUE
  /\ UNCHANGED <<lock, pc, late, failures>>

Crash(p) ==
  /\ failures < MaxFailures
  /\ pc[p] \in Waiting \cup Inside
  /\ pc' = [pc EXCEPT ![p] = "crashed"]
  /\ failures' = failures + 1
  /\ UNCHANGED <<lock, old, late, everOld>>

-----------------------------------------------------------------------------

Step(p) ==
  \/ Create(p)
  \/ CreateRefused(p)
  \/ WritePid(p)
  \/ CheckAge(p)
  \/ Break(p)
  \/ GiveUp(p)
  \/ Retry(p)
  \/ Exit(p)

Next ==
  \/ \E p \in Proc : Enter(p) \/ Step(p) \/ WritePidFails(p) \/ Deadline(p) \/ Crash(p)
  \/ GrowOld

Spec == Init /\ [][Next]_lockVars

\* A process that is alive runs on, and time passes.
FairSpec ==
  /\ Spec
  /\ \A p \in Proc : WF_lockVars(Step(p)) /\ WF_lockVars(Deadline(p))
  /\ WF_lockVars(GrowOld)

-----------------------------------------------------------------------------
(* Properties.                                                             *)

TypeOK ==
  /\ lock \in Proc \cup {NoOne}
  /\ old \in BOOLEAN
  /\ pc \in [Proc -> Places]
  /\ late \in [Proc -> BOOLEAN]
  /\ failures \in 0 .. MaxFailures
  /\ everOld \in BOOLEAN

Exclusion == \A p, q \in Proc : pc[p] \in Inside /\ pc[q] \in Inside => p = q

\* As long as no lock file has grown old, one process at a time is inside:
\* whoever times out, crashes or fails to write its pid.
ExclusionUntilOld == ~everOld => Exclusion

\* As long as no lock file has grown old, the file goes away only by the
\* exit of the process that made it: no process removes another's lock.
OwnFileOnly ==
  [][\A p \in Proc :
       lock = p /\ lock' # p /\ ~everOld => pc[p] = "hold" /\ pc'[p] = "out"]_lockVars

\* Every attempt to take the lock ends: with the lock, or with an error when
\* the deadline passed, or with the process.  Only holders that stall again
\* and again can keep it going, as breaking a lock skips the deadline.
AttemptsEnd ==
  <>[]~old =>
    \A p \in Proc : pc[p] = "create" ~> pc[p] \in {"hold", "failed", "crashed"}

\* A file left behind does not keep the store locked for ever: if somebody
\* goes on trying, it is removed.
AbandonedFileGoes ==
  \A p \in Proc :
    []<>(\E q \in Proc : pc[q] = "create") =>
      []<>~(lock = p /\ pc[p] \in {"crashed", "failed"})

\* The inductive invariant behind ExclusionUntilOld: while no file has grown
\* old, whoever is inside made the file that is there, and nobody is about to
\* break a lock.
Owned ==
  ~everOld =>
    /\ ~old
    /\ \A p \in Proc : /\ pc[p] \in Inside => lock = p
                       /\ pc[p] # "break"

LockInv == TypeOK /\ Owned

\* The promise, called off when a lock file grows old: the abstract holder is
\* whoever is inside, whatever becomes of the file.
Holders == {p \in Proc : pc[p] \in Inside}
Holder == IF Holders = {} THEN NoOne ELSE CHOOSE p \in Holders : TRUE

Lock == INSTANCE Mutex WITH holder <- Holder, void <- everOld

ImplementsMutex == Lock!Spec

=============================================================================
