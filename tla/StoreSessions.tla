---------------------------- MODULE StoreSessions ----------------------------
(***************************************************************************)
(* Sessions on one store: load findings.json, work on the copy in memory,  *)
(* save it back under the lock (Store.load and Store.save of               *)
(* src/engine/redassay/store.py, called by the commands of cli.py and the  *)
(* handlers of server/api.py).  A command is a process of its own.  The    *)
(* board's request handlers are threads of one process that share one      *)
(* Store (server/api.py, Api), so also its copy in memory and the name of  *)
(* its temporary file.                                                     *)
(*                                                                         *)
(* The contents of the store are abstracted to the set of clients whose    *)
(* decision it holds.  Files are inodes, because os.replace moves a name   *)
(* and an open descriptor stays with the inode.                            *)
(***************************************************************************)
EXTENDS Naturals

CONSTANTS
  Client,        \* one command or one request each
  Layouts,       \* which clients share an operating system process: each a
                 \* function from clients to processes
  Original,      \* the inode of findings.json at the start
  NoOne,
  MaxFailures,   \* as in FileLock
  MayStall       \* as in FileLock

Processes == UNION {{layout[c] : c \in Client} : layout \in Layouts}

\* A client creates at most one file, so inodes are named after clients.
Inodes == Client \cup {Original}

ASSUME SessionAssumption ==
  /\ NoOne \notin Inodes
  /\ Original \notin Client
  /\ \A layout \in Layouts : DOMAIN layout = Client
  /\ MaxFailures \in Nat

VARIABLES
  lock, old, pc, late, failures, everOld,   \* FileLock
  procOf,     \* the process each client runs in; it never changes
  stage,      \* how far each client is
  memory,     \* Store._data of each process
  holders,    \* the clients in a save whose dict is still that copy
  payload,    \* what each client is about to write
  file,       \* the inode findings.json names
  tmp,        \* the inode findings.json.tmp.<pid> names, or NoOne
  fd,         \* the inode each client has open for writing, or NoOne
  content,    \* of each inode: whole JSON or not, and the decisions in it
  base,       \* history: the decisions each client loaded
  written,    \* history: the decisions that were ever in findings.json
  overlap     \* history: some session began while another was under way

lockVars == <<lock, old, pc, late, failures, everOld>>
diskVars == <<file, tmp, fd, content, written>>
workVars == <<procOf, memory, payload, base, overlap>>
sessionVars == <<workVars, holders>>
vars == <<lockVars, stage, diskVars, sessionVars>>

L == INSTANCE FileLock WITH Proc <- Client

Stages == {"idle", "loaded", "decided", "saving", "opened", "closed",
           "replaced", "broken", "done", "failed", "crashed"}

Underway == {"loaded", "decided", "saving", "opened", "closed", "replaced", "broken"}

Init ==
  /\ L!Init
  /\ procOf \in Layouts
  /\ stage = [c \in Client |-> "idle"]
  /\ memory = [p \in Processes |-> {}]
  /\ holders = {}
  /\ payload = [c \in Client |-> {}]
  /\ file = Original
  /\ tmp = [p \in Processes |-> NoOne]
  /\ fd = [c \in Client |-> NoOne]
  /\ content = [i \in Inodes |-> [whole |-> TRUE, has |-> {}]]
  /\ base = [c \in Client |-> {}]
  /\ written = {}
  /\ overlap = FALSE

Goto(c, from, to) == stage[c] = from /\ stage' = [stage EXCEPT ![c] = to]

-----------------------------------------------------------------------------
(* Load and work.                                                          *)

\* Mutant: load without force returns the copy in memory, however old.
LoadCached(c) ==
  /\ Goto(c, "idle", "loaded")
  /\ base' = [base EXCEPT ![c] = memory[procOf[c]]]
  /\ overlap' = (overlap \/ \E d \in Client : stage[d] \in Underway)
  /\ UNCHANGED <<lockVars, diskVars, procOf, memory, holders, payload>>

\* A save takes the process's dict before it waits for the lock; when another
\* thread loads, the process goes on with a new dict, that save with the old.
LeftWith(p) ==
  /\ payload' = [d \in Client |-> IF d \in holders /\ procOf[d] = p THEN memory[p] ELSE payload[d]]
  /\ holders' = {d \in holders : procOf[d] # p}

\* Store.open of a command, Api.fresh of a request.
Load(c) ==
  /\ content[file].whole
  /\ Goto(c, "idle", "loaded")
  /\ memory' = [memory EXCEPT ![procOf[c]] = content[file].has]
  /\ LeftWith(procOf[c])
  /\ base' = [base EXCEPT ![c] = content[file].has]
  /\ overlap' = (overlap \/ \E d \in Client : stage[d] \in Underway)
  /\ UNCHANGED <<lockVars, diskVars, procOf>>

\* json.load raises on a file that is not whole: StoreError.
LoadFails(c) ==
  /\ ~content[file].whole
  /\ Goto(c, "idle", "failed")
  /\ UNCHANGED <<lockVars, diskVars, sessionVars>>

\* Mutant: the change is made to a finding that is never put back.
DecideWithoutPut(c) ==
  /\ Goto(c, "loaded", "decided")
  /\ UNCHANGED <<lockVars, diskVars, sessionVars>>

\* Store.put into the copy the process holds by now.
Decide(c) ==
  /\ Goto(c, "loaded", "decided")
  /\ memory' = [memory EXCEPT ![procOf[c]] = @ \cup {c}]
  /\ UNCHANGED <<lockVars, diskVars, procOf, holders, payload, base, overlap>>

-----------------------------------------------------------------------------
(* Store.save.                                                             *)

Truncated == [whole |-> FALSE, has |-> {}]

\* data = self.load(), and on to the lock.
BeginSave(c) ==
  /\ Goto(c, "decided", "saving")
  /\ L!Enter(c)
  /\ holders' = holders \cup {c}
  /\ UNCHANGED <<diskVars, workVars>>

\* The steps of _FileLock.__enter__ that do not end the session.
LockStep(c) ==
  /\ stage[c] = "saving"
  /\ \/ L!Create(c)
     \/ L!CreateRefused(c)
     \/ L!WritePid(c)
     \/ L!CheckAge(c)
     \/ L!Break(c)
     \/ L!Retry(c)
     \/ L!Deadline(c)
  /\ UNCHANGED <<stage, diskVars, sessionVars>>

\* LockTimeout, or the pid could not be written.
LockFails(c) ==
  /\ Goto(c, "saving", "failed")
  /\ L!GiveUp(c) \/ L!WritePidFails(c)
  /\ holders' = holders \ {c}
  /\ UNCHANGED <<diskVars, workVars>>

\* json.dumps of the dict taken before the lock, whatever was put into it since.
Dumps(c) ==
  /\ payload' = [payload EXCEPT ![c] = IF c \in holders THEN memory[procOf[c]] ELSE @]
  /\ holders' = holders \ {c}

\* Mutant: findings.json itself is opened for writing.
OpenInPlace(c) ==
  /\ pc[c] = "hold"
  /\ Goto(c, "saving", "opened")
  /\ Dumps(c)
  /\ fd' = [fd EXCEPT ![c] = file]
  /\ tmp' = [tmp EXCEPT ![procOf[c]] = file]
  /\ content' = [content EXCEPT ![file] = Truncated]
  /\ UNCHANGED <<lockVars, procOf, file, memory, base, written, overlap>>

\* Mutant: only the client's own decision is written.
OpenAndWriteOwn(c) ==
  /\ pc[c] = "hold"
  /\ Goto(c, "saving", "opened")
  /\ payload' = [payload EXCEPT ![c] = {c}]
  /\ holders' = holders \ {c}
  /\ tmp' = [tmp EXCEPT ![procOf[c]] = c]
  /\ fd' = [fd EXCEPT ![c] = c]
  /\ content' = [content EXCEPT ![c] = Truncated]
  /\ UNCHANGED <<lockVars, procOf, file, memory, base, written, overlap>>

\* The payload is made, then open(tmp, "w"): a new file, or the one of that name
\* truncated.
OpenTmp(c) ==
  LET i == IF tmp[procOf[c]] = NoOne THEN c ELSE tmp[procOf[c]] IN
  /\ pc[c] = "hold"
  /\ Goto(c, "saving", "opened")
  /\ Dumps(c)
  /\ tmp' = [tmp EXCEPT ![procOf[c]] = i]
  /\ fd' = [fd EXCEPT ![c] = i]
  /\ content' = [content EXCEPT ![i] = Truncated]
  /\ UNCHANGED <<lockVars, procOf, file, memory, base, written, overlap>>

\* Write, flush, fsync, close.  What a second writer of the same inode put
\* there meanwhile may stay behind the end of a shorter payload.
WriteTmp(c) ==
  /\ Goto(c, "opened", "closed")
  /\ \E whole \in IF content[fd[c]] = Truncated THEN {TRUE} ELSE BOOLEAN :
       content' = [content EXCEPT ![fd[c]] = [whole |-> whole, has |-> payload[c]]]
  /\ fd' = [fd EXCEPT ![c] = NoOne]
  /\ UNCHANGED <<lockVars, file, tmp, written, sessionVars>>

\* os.replace(tmp, path)
Replace(c) ==
  /\ tmp[procOf[c]] # NoOne
  /\ Goto(c, "closed", "replaced")
  /\ file' = tmp[procOf[c]]
  /\ tmp' = [tmp EXCEPT ![procOf[c]] = NoOne]
  /\ written' = written \cup content[tmp[procOf[c]]].has
  /\ UNCHANGED <<lockVars, fd, content, sessionVars>>

\* Another thread has moved the file of that name away: FileNotFoundError.
ReplaceFails(c) ==
  /\ tmp[procOf[c]] = NoOne
  /\ Goto(c, "closed", "broken")
  /\ UNCHANGED <<lockVars, diskVars, sessionVars>>

\* _FileLock.__exit__, and the command or request reports success ...
Finish(c) ==
  /\ Goto(c, "replaced", "done")
  /\ L!Exit(c)
  /\ UNCHANGED <<diskVars, sessionVars>>

\* ... or the error.
FinishBroken(c) ==
  /\ Goto(c, "broken", "failed")
  /\ L!Exit(c)
  /\ UNCHANGED <<diskVars, sessionVars>>

-----------------------------------------------------------------------------
(* The environment.                                                        *)

\* A process dies, with all its threads.  What is on disk stays there.
Victims(p) == {c \in Client : procOf[c] = p /\ stage[c] \in Underway}

Crash(p) ==
  /\ failures < MaxFailures
  /\ Victims(p) # {}
  /\ stage' = [c \in Client |-> IF c \in Victims(p) THEN "crashed" ELSE stage[c]]
  /\ pc' = [c \in Client |-> IF c \in Victims(p) THEN "crashed" ELSE pc[c]]
  /\ fd' = [c \in Client |-> IF c \in Victims(p) THEN NoOne ELSE fd[c]]
  /\ holders' = holders \ Victims(p)
  /\ failures' = failures + 1
  /\ UNCHANGED <<lock, old, late, everOld, file, tmp, content, written, workVars>>

GrowOld ==
  /\ L!GrowOld
  /\ UNCHANGED <<stage, diskVars, sessionVars>>

-----------------------------------------------------------------------------

Step(c) ==
  \/ Load(c)
  \/ LoadFails(c)
  \/ Decide(c)
  \/ BeginSave(c)
  \/ LockStep(c)
  \/ LockFails(c)
  \/ OpenTmp(c)
  \/ WriteTmp(c)
  \/ Replace(c)
  \/ ReplaceFails(c)
  \/ Finish(c)
  \/ FinishBroken(c)

Next ==
  \/ \E c \in Client : Step(c)
  \/ \E p \in Processes : Crash(p)
  \/ GrowOld

Spec == Init /\ [][Next]_vars

-----------------------------------------------------------------------------
(* Properties.                                                             *)

Contents == [whole : BOOLEAN, has : SUBSET Client]

TypeOK ==
  /\ L!TypeOK
  /\ procOf \in Layouts
  /\ stage \in [Client -> Stages]
  /\ memory \in [Processes -> SUBSET Client]
  /\ holders \in SUBSET Client
  /\ payload \in [Client -> SUBSET Client]
  /\ file \in Inodes
  /\ tmp \in [Processes -> Inodes \cup {NoOne}]
  /\ fd \in [Client -> Inodes \cup {NoOne}]
  /\ content \in [Inodes -> Contents]
  /\ base \in [Client -> SUBSET Client]
  /\ written \in SUBSET Client
  /\ overlap \in BOOLEAN

\* A command, as opposed to a request to the board.
HasOwnProcess(c) == \A d \in Client : procOf[c] = procOf[d] => c = d

\* "Every write is atomic" (architecture.md): at every moment findings.json
\* is a whole document, a crash in the middle of a save included.  Separate
\* processes do not even need the lock for it; the threads of the board do.
FileWhole ==
  (\A c \in Client : HasOwnProcess(c)) \/ ~everOld => content[file].whole

\* A command that reports success had its decision in findings.json at some
\* moment, whatever the others did.
AckedWasWritten ==
  \A c \in Client : HasOwnProcess(c) /\ stage[c] = "done" => c \in written

\* The save of a command puts back everything it had loaded: what it
\* overwrites was saved after that load.
KeepsWhatItLoaded ==
  [][\A c \in Client :
       HasOwnProcess(c) /\ stage[c] = "closed" /\ stage'[c] = "replaced" =>
         base[c] \subseteq content'[file'].has]_vars

\* Sessions that do not overlap lose nothing, with crashes, timeouts and
\* abandoned locks between them.
SoloSessionsKeep ==
  ~overlap => \A c \in Client : stage[c] = "done" => c \in content[file].has

\* architecture.md: a scan can run from another terminal, and nothing is
\* lost, because every write is atomic.
AckedSurvives ==
  \A c \in Client : stage[c] = "done" => c \in content[file].has

=============================================================================
