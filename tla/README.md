# redassay in TLA+

redassay scans a repository for security defects, keeps what it found in
`.redassay/findings.json`, lets a person and an agent work through it (command
line, a local web board, a queue of requests for the agent), and scans again to
see which findings are gone. This directory models the parts of it that keep
state or decide something, checks them with TLC and proves the main results
with TLAPS.

Paths below are relative to `src/engine/redassay/` unless they start with `docs/`,
`skills/` or `tests/`, or are the `README.md` of the repository.

## Inventory

| Part | State | Operations | Talks to |
| --- | --- | --- | --- |
| Findings lifecycle (`models.py`, `store.py`, `suppress.py`) | findings by id, suppression rules | merge, set_status, add_comment, record_fix, suppress, prune | called by every command and handler |
| Scan scoping (`engine.py`, `walker.py`, `gitinfo.py`) | none | choose the files to walk, the scope of the merge | store.merge |
| Store lock (`_FileLock`) | `.lock` and its mtime | enter, exit, break a stale lock | the file system, other processes |
| Store sessions (`Store.load/save/reload`) | the copy in memory, the file, the temporary file | load, put, save, reload | the lock; one `Store` is shared by all threads of the board |
| Action queue (`queue.py`) | `actions.jsonl` | append, claim, complete, release, clear | board threads append, the agent's commands rewrite |
| Board API (`server/*.py`) | one `Store`, one queue, a thread per request | comment, status, dismiss, reopen, fix, batch fix, rescan | store, queue |
| Board page (`server/static/app.js`, `lib/`) | the rows shown, selection, active finding, pane | poll, refresh, filter, select, open, act | board API |
| Triage (`triage.py`, `severity.py`) | none | deduplicate by concept, severity floor, rank | between scanners and merge |
| Baseline and gate (`cli.py`, `engine.exit_code`) | `baseline.json` | freeze, filter new, exit code | scan |
| Pattern scanner and identity (`scanners/pattern.py`, `ids.py`) | none | which lines match, salts, ids | triage, merge |
| Taint scanners (`scanners/php.py`, `ruby.py`, `go.py`) | what one file has told so far | build, state, reaches | triage |
| Python scanner (`scanners/python_ast.py`) | the stack of scopes | visit, hit | triage |
| Prefilter (`prefilter.py`) | none | required literals of a pattern | pattern scanner |
| Call graph (`callgraph.py`, `cmd_trace`) | two caches and a count | symbols, callers, reaches | an external tool |
| Entry surface (`surface.py`) | none | what guards each handler, summary, review list | reports, trace |
| Versions and advisories (`versions.py`, `scanners/deps.py`) | none | compare, ranges, findings of a dependency | triage |
| Telemetry (`telemetry.py`) | the user's config file | notice, on, off, status, ping | environment, network |
| Configuration (`config.py`) | `config.json` | load with precedence | every command |
| Other scanners, technology detection, reports | none | text in, findings or text out | engine |

What is hard in it, and what makes each part correct:

* **Lifecycle.** Any sequence of commands leads to any mixture of statuses, and
  every scan merges into that. Correct: no human decision is lost, the store agrees
  with the code after a full scan, a scoped scan stays in its scope, statuses move
  only along the table in `models.py`, and what the scan prints is what it did.
* **Lock.** Three kinds of actor and a rule by which a lock may be taken away.
  Correct: exclusion, nobody removes another's lock, nobody waits for ever.
* **Sessions.** Load-modify-save without a lock around the whole. Correct: the file
  is a whole document at every moment, an acknowledged decision reached it, a save
  puts back what its session had loaded.
* **Queue.** No lock at all. Correct: a request is in the file at most once, an
  agent's claim stands until it closes it, every request is served.
* **Board.** Two files, written one after the other by several threads, and an agent
  and scans that work on both. Correct: what is queued was asked for and is answered,
  a dismissal stands.
* **Page.** Replies that overtake each other, clicks in between. Correct: it comes to
  show what the store says, and a batch names only what the reviewer sees.
* **Identity, triage, gate.** Decisions are remembered by an id computed from text that
  moves. Correct: ids survive motion, triage does not depend on the order of the
  scanners, a build passes what its baseline froze.
* **Analyses.** Caches, caps, one stack for many scopes, two passes over one file.
  Correct: each answer is the one a direct definition gives.
* **Telemetry.** One config file without a lock. Correct: nothing is sent unasked.

The full list of hazards, each at its line and with the properties about it, is in
`PROJECT.json`.

## Modules

| Module | Models | Notes |
| --- | --- | --- |
| `FindingStatus` | the status table, `set_status` | pure |
| `FindingsStore` | the contents of the store; merge, suppression, fix records, prune as operators on a store value | pure |
| `FindingsLifecycle` | the commands, one at a time, with edits of the audited code and the clock | extends `FindingsStore` |
| `Mutex` | abstract lock | |
| `FileLock` | `_FileLock`, a step per system call | implements `Mutex` |
| `StoreSessions` | load, edit, save of commands and of board threads | composes `FileLock` |
| `RequestPromise` | abstract life of a request to the agent | |
| `ActionQueue` | `ActionQueue`, a step per system call | implements `RequestPromise` |
| `BoardApi` | every POST handler, the agent, rescans; the server dying | extends `FindingsStore`: store and queue together |
| `BoardPage` | the page and the replies it gets | |
| `SourceScan` | line matching, salts and ids, deduplication, severity floor | pure |
| `ScanGate` | scans of a file being edited, dismissals, baseline, exit code | extends `SourceScan`, uses `FindingsStore` |
| `TaintTracking` | the three taint trackers over one file | reference definition `Danger` beside it |
| `PythonTaint` | the visitor of the Python scanner | |
| `CallGraph` | the cached queries and the verdict of `trace` | reference `GraphSays` |
| `EntrySurface` | entry points, their guards, summary and review list | of a file written handler by handler |
| `Prefilter` | required literals of a pattern, asked for one candidate after the other | reference `MatchesOf` |
| `Versions` | order of versions, ranges, findings of one dependency | while manifest and advisory change |
| `Telemetry` | the config file under concurrent commands, the ping | |
| `MC*` | instances for TLC; `MCComponents` runs the parts that share no state, one at a time | |
| `Components_proofs` | theorems about page, call graph, Python scanner and telemetry | components of one state machine each |
| `Scans_proofs` | theorems about what is computed of a file: gate and identities, prefilter, trackers, versions, surface | opens with the lemmas on recursion they share |
| other `*_proofs` | theorems about the module of that name | |

### Correspondence

**FindingsLifecycle.** `findings` is `data["findings"]` as a total function with
status `"absent"` for an id that is not there; `suppressions` is the rule list (a set:
order and repetition change nothing). `present` is external, the defects the audited
code has now. `standing` is history. A finding keeps its status, the authors of its
comments and the ages of two stamps (`fix.applied_at`, `last_seen`), counted in steps
of the pruning horizon. Severity, text and location only matter to formatting and to
triage and are left out. A `ScanRun` says which command line was given and what went
wrong: `--include`, `--since` and the changed files, files skipped by ignore rules, and
identities a left-out or crashed scanner or `--min-severity` dropped. The include list, the
changed files of a diff and the paths of suppressions are all patterns of `fnmatch`. `GlobOf`
says which files a path matches when it is read as one: itself, or, when its name holds a
bracket, those of its class (`app/[id].tsx` matches `app/i.tsx` and not itself). Directory prefixes in include lists are not modelled; a path stands for a file
or for a directory whose files nothing distinguishes. A command naming an unknown
finding ends before any change and is no action. `add` builds findings from whole
records, so one may arrive with a status, comments and a fix: `AddedRecords` holds a
plain new record and, in the passing runs, one re-imported as fixed. `prune --dry-run`
writes nothing and is no action either.

**FileLock.** `lock` is the creator of the file that exists, `old` whether its mtime
is over a minute ago, `pc` where each process stands between system calls. `Break`
and `Exit` remove whatever file is there, as `os.unlink` does.

**StoreSessions.** Each client is a command (its own process) or a board request (a
thread of a shared process, hence shared `Store._data` and shared temporary name); `procOf`
says which, chosen at the start.
The store's content is abstracted to the set of clients whose decision it holds; names
and inodes are distinguished because `os.replace` moves a name and an open descriptor
stays with its inode. One session per client, so runs end and deadlock is not checked.
A save takes the dict before it waits for the lock and dumps it under the lock (`holders`,
`Dumps`): what other threads put meanwhile is written with it, unless one of them reloads,
which leaves the save with the old dict (`LeftWith`). `json.dumps` and the opening of the
temporary file are one step, since nothing between them touches what is shared.

**ActionQueue.** A line keeps request, number and state. A rewriting command reads the
whole file and computes the new one (`plan`), then replaces it (`Rewrite`). An append
numbers, opens and writes; `linked` says whether its descriptor is still on the file of
that name. Reads and one-line writes are taken as atomic. `release` has no caller in the
program, so `MaxReleases` bounds it, at 0 where the program is taken as it is. `crowd`,
chosen at the start, is the regime: several agents, overlapping appends and `queue clear`,
or one agent and one append at a time. Every push happens once, so runs end and deadlock
is not checked.

**BoardApi.** A handler is two steps: the store edited and saved, with the action it
will push in `owed[t]`, and `Push`. The commands `queue pull`, `queue complete`, `queue clear`,
`resolve`, `status`, `comment`, `dismiss`, `scan` and `prune` are a step each. Interference
inside a session or inside the queue's file (an append that a rewrite loses) is the subject of
the two modules above, hence `Push` and `Pull` are whole here. `lost` is history: the findings
whose request a crash kept back or a clear took. A status given by hand must be in the table, but
nothing keeps a client from posting `"queued"`, or a person from `redassay status <id> queued`:
either marks a finding and pushes no fix. The page posts `"confirmed"` only, and the run leaves
`"queued"` out of `Targets`, which are the statuses of both. A refused transition of
`post_status` is answered 409 and changes nothing; `post_fix` and `post_dismiss` ignore the
refusal, push, and answer 200. The page's toast counts what was selected, the server
takes the first `BatchCap` (200) ids.

**BoardPage.** `pending` holds calls and replies; a reply is a snapshot of what the server
knew when it handled the call, and is delivered in any order or lost. `server` holds some of
the rows: findings are first seen, and pruned, while the page shows what it last heard; a detail
or a post about one that is gone is refused (404), a batch passes over it. `SignatureOf` is what
`refresh` compares: `updated_at`, whose grain is a second (`Stamps`), and the statuses joined in
the order of the rows, without their ids. The numbers of comments and of waiting actions, which
are part of it too, are left out, as are the other counts of `stats`, which the page only makes
more sensitive by. So a finding that takes the place of its like within the second of the last
save (`RowsSwapped`) stays hidden until the next save or forced refresh, and so does a change of
a location or a fix; the property excepts the first and says nothing of the second.

**SourceScan and ScanGate.** A line is what the patterns see in it: the rules that match,
the words some need nearby, ignore comments, fences of sample blocks, triple quotes. Its
text serves the identity. `Ordinal` is the salt: how many like matches stand above. `Triage`
deduplicates before it applies the severity floor, as `triage.py` does. `marks`, `frozen`
and `judged` are history: which of the author's lines each one is, what a baseline was taken
of, what was dismissed where. `cmd_scan` asks `args.fail_on` (`cli.py:173`), so a `fail_on`
in `config.json` has no say, and the module has one `FailOn`.

**TaintTracking.** A file is a sequence of assignments; an expression is what the patterns
find in it (`Fragments`). `Known` and `History` are the two passes of `build`, `StateAt` and
`ReachesSink` what a sink asks. The three languages differ in tables only, sinks included.
The `ASSIGN` of PHP and Ruby reads `a == b` as an assignment of what follows its first `=`
(`misread`); `Danger` knows that a comparison changes nothing.
PHP's eval, unserialize and header sinks carry the category `"xss"` in the code and here.

**PythonTaint.** One action per visit of a node: functions in and out, assignments, tests
that bail out or not, calls, statements. A rule is what its argument must be like; a
guard counts for any name in the whole call. Tainted names are never unmarked, as in the code.

**CallGraph.** `symbolsByFile` and `callersCache` are the caches, `queries` the count against
`MAX_QUERIES`, and a query may fail. `heard` and `told` are the outcomes of the subprocesses
of one answer. Finding by finding, as `cmd_trace` asks.

**EntrySurface, Prefilter, Versions.** What the code computes are operators on lines, patterns and
token sequences; the module headers say what an element stands for. What they are asked about
is a small machine each: a file to which handlers are appended (`written`; what follows a
call-style registration is the rest of the file, `ReadAhead` characters of it, whatever handlers
those are part of), the candidates
of `scan_file` one after the other (`candidate`), a manifest and an advisory that change between
scans (`declared`, `fixedIn`; `Concrete` is the first run of dotted numbers anywhere in a
version or URL, ended by a dash or a stage; a stage's own number and what follows `+` are left
out). A pattern is a table of atoms in which a group comes after what is
inside of it; the recursion of `_atoms`, `_group_alternatives` and `_branch_alternatives` is a
recursive function on that table.

**Telemetry.** `Begin` is a command starting, with its terminal and environment; the rest
are its steps: the notice, truncation of the config, the write, reading for the ping, the
id, the post. A write over a longer text leaves that text's end, which reads as no config.

## Runs

| Run | Asks |
| --- | --- |
| `Lifecycle` | safety of merge, scoping and reports, and what surfaces and settles when full scans go on: two findings in two files, eight kinds of scan |
| `FileLock` | the lock: three processes, up to two failures, holders that stall; safety, refinement, liveness |
| `Sessions` | three sessions, one failure; all commands, or two requests to one board and a command |
| `Queue` | one agent and pushes one at a time, or two agents, overlapping pushes and a clear; a crash, a release: what is promised, and liveness |
| `Review` | the board: two threads, a crash, an agent, rescans, a clear, decisions on the command line, batches with an unknown id |
| `Components` | the parts that share no state, each from its own initial states while the others stand still |

`Components` holds, for the page: `SelectionVisible`, `PageCatchesUp`; scans:
`DedupeIgnoresOrder`, `MotionKeepsIdentity`, `RatchetPassesWhatItFroze`; trackers:
`DangerIsFlagged`, `FlaggedIsDanger`, `RatedByOwnFunction`; call graph: `AnswersAreTheGraphs`;
surface, prefilter, versions: `HandlersAreJudgedAlone`, `PrefilterIsNeutral`, `AdvisoriesAreMonotone`;
telemetry: `NothingSentUnasked`. The comment above each definition states it.

Six runs end in a violation on purpose. Each checks what a sentence of the
documentation or a comment says and the code does not do; `findings` in
`PROJECT.json` quotes it.

| Run | Shows |
| --- | --- |
| `LifecycleUnearned` | a full scan finds a defect, its status is set to fixed, and a `--since` scan with nothing changed verifies it while it is still there |
| `LifecyclePruneEarly` | `prune` removes a finding that was settled a moment ago |
| `SessionsLostUpdate` | a dismissal made during a scan is gone when the scan saves |
| `QueueAgentCrash` | what a crashed agent had claimed is never offered again |
| `PageRace` | the pane's button approves the finding clicked last while another is shown |
| `IdentityShift` | a like line put above a dismissed one takes over its dismissal |

The models contain further behaviours of this kind, which no run singles out; the hazards
in `PROJECT.json` name their lines.

* A suppressed finding that was fixed is verified, so is one whose scanner crashed, and so is
  every fixed finding when the agent adds one (`VerifiedIsEarned` fails for each of these; the
  run leaves them out, so that its trace is the one above). A finding in `fixing` is reported as
  verified and is not.
* `--include` and `--since` with no file in common scan the whole tree.
* When a file whose name holds brackets has changed, `--since` reads the files of its class
  instead, adds and reopens findings there, and verifies what was fixed in the changed file
  without opening it, against the comment at `engine.py:160`.
* A Rails route without brackets, a GraphQL field or a webhook has no bracket that ends its
  call, so the commas of the lines below are taken for its arguments and the handler reads
  `middleware` and not `none-found` (`HandlersStandAlone` without `SelfContained`); only commas
  are read there, the words on authorization come from the line itself.
* A comparison sets or clears the taint of its left side in PHP and Ruby, so that a dangerous
  value goes unflagged after `if ($a == "x")`, or a constant is flagged.
* Past a stale lock two processes are inside, and two threads of the board can tear
  `findings.json`. A request to the board can succeed though another thread's reload
  discarded its change.
* An append during a rewrite is lost, and overlapping appends share a number.
* The gate looks at what the scan reported, not at the store: a dismissed finding fails
  the build, against `docs/cli.md:47` (`GateIsAboutOpen`).
* `no-path` is also the answer after a query that failed (`NoPathWasObserved`).
* `1.0rc1` is above `1.0`: its last 1 is taken for a part (`PreReleaseBelow`).
* With a negative lookahead around a word of three characters, or a `{0,n}` group, the
  prefilter would drop matches; no bundled rule has one (`Understood`).
* `telemetry off` whose write fails says off all the same; the id may change, and the notice
  come twice, under concurrent commands; `telemetry status` writes an id.

### Bounds

* *Lifecycle:* two findings, two files, one rule. Merge treats each finding on its own; two
  are needed for "outside the scope" and for one suppressed beside one that is not. One of
  the two paths has brackets and the other is of its class. `MaxAge` is 0 where stamps do not matter and 1 in the run about
  pruning: prune only asks on which side of one horizon a stamp is.
* *Lock:* two processes race for a stale lock, the third sees the damage. `MaxFailures`
  (crashes and failed pid writes) is two, so that both waiters can die or the file be
  abandoned twice.
* *Sessions:* three clients: two that overlap and one after them. The clients that may share
  the board are interchangeable, hence the symmetry (no liveness is checked there).
* *Queue:* three pushes, of which two are for the agent; one crash, one release; limits none
  and 1. In the crowd, two pushes: each interleaving of two appends with two rewrites and a
  clear is reached.
* *Board:* one finding in the store and one id it does not hold; two threads, two actions,
  one crash; `BatchCap` 1, so that a batch is cut and may consist of the unknown id.
* *Page:* two rows, two calls under way. In `Components` the reviewer picks, reads details or
  only watches ("picking", "reading", "watching"). Two changes by others or losses happen while
  watching, where `RowsSwapped` needs them, and one otherwise; while picking, only a finding that
  comes or goes. The regimes keep the run short; the proofs of `SelectionVisible` and
  `ApprovalsVisible` have none.
* *Scans:* files of up to three lines and two edits, three rules of one concept, so that
  each dimension of `_wins` decides once; floors lowest and highest.
* *Taint:* all files of up to three assignments and comparisons to two names, in three
  languages; one escaper. Three are a copy, an append or rewrite, and a second copy. By symmetry the first
  name written is fixed.
* *Python:* five visits, two functions, four rules that between them are raised, lowered, fire
  on literals and fire on statements.
* *Call graph:* five symbols, two of one name, one nested; a cap of three queries, which the
  five places exceed.
* *Surface, prefilter, versions:* files of up to three of nine handlers, of every style the
  extractors know, two of them not self-contained; `ReadAhead` is 12, more than any line of theirs
  and less than two handlers; patterns of up to two branches of up to two of 33 atoms, groups within groups
  among them; nine versions of unequal length, with stages in front, behind and glued, and
  with a dash, in threes.
* *Telemetry:* two shells and four commands: one that was interrupted, one under way, and
  an on and an off around them.

### Fairness

* Lifecycle: `Scan(FullScan)` weakly fair: the loop of `docs/loop.md`, in which the repository
  goes on being scanned in full. The liveness properties are about such a repository only.
* Lock: a live process takes its next step, deadlines pass and files age. Nothing forces
  anyone to enter or to survive. `AttemptsEnd` assumes that lock files stop growing old:
  holders that stall over and over keep a breaker busy, as breaking skips the deadline.
* Queue: pushes run to their end, the agent pulls, closes what it holds
  (`skills/redassay-triage/SKILL.md`) and its rewrites finish. `release` is called once at
  most: with an agent that for ever pulled and released the first line, the second would
  starve.
* Board: a thread goes on to its push, and the agent pulls and closes what it claimed. Neither
  scans nor reviewers have to come.
* Page: the timer fires (strongly fair, as the bound on calls may disable it for a while) and
  calls under way are served and delivered, or lost.

## Proofs

All are about every value of the constants that satisfies the named assumptions.

`FindingsLifecycle_proofs` and `FindingsStore_proofs`, for all sets of findings, paths, rules,
scans and patterns:

* `TypeCorrect`: `TypeOK` is inductive; each store operator maps stores to stores.
* `DecisionsKept`, `ScanAgrees`, `DiffScopeKept`, `ReportComplete`: each is stated of every
  reachable state and every merge that could run next, and follows from `TypeOK` and a
  case analysis of `Merge` (the lemmas of `FindingsStore_proofs` say what merge does to a
  finding that is new, regressed, retired, refreshed, or untouched).
* `DiffScopeKept` holds for any `GlobOf`: outside the diff a scan changes nothing but what is in
  the code of a file that a changed file's name matches as a pattern.
* `LegalMoves`: every step moves a finding along `LegalTransitions`. The one assignment
  that does not ask `can_transition`, in merge, starts from fixed or verified, from both
  of which open is legal.

`FileLock_proofs`, for any set of processes and any number of failures:

* `LockInvariant`: `LockInv` is inductive. Exclusion alone is not: one needs that whoever
  is inside made the file that is there, and that nobody is about to break a lock. Both
  only hold until a file grows old (`everOld`).
* `ExclusionHolds` and `OwnFileOnlyHolds` follow.
* `Refinement`: whoever is inside holds the lock of `Mutex`, whose promise is called off the
  moment a lock file grows old.

`StoreSessions_proofs`, for any clients in any division into processes. `SessionsInv` is
inductive; beside the types it says:

* `Turns`: who has opened the temporary file has the lock; before a lock file grows old the
  lock's file is its holder's; sessions that do not overlap are one at a time.
* `Files`: a temporary name points to a file made by that process, never to the one
  `findings.json` names.
* `Writes`, `Keeps`: what a client writes and what it finds under the name is its own, provided
  it has a process of its own, or (`Writes`) no lock has grown old, or nothing overlapped;
  without one of these two threads share a temporary file and the statement fails.
* `Acked`, `Solo`, `FileWhole`.

From it `FileStaysWhole`, `SuccessWasWritten`, `LoadedIsKept` and `SoloLosesNothing`. Atomic
replacement needs the lock only among threads of one process; commands are protected by
their process id in the temporary name, which is why `FileWhole` survives a broken lock there.

`ActionQueue_proofs`, for any requests, agents, limits and numbers of crashes. `QueueInv` is
inductive. For every regime: no number is above the count of requests that took one
(`Counts`), the file and all that is about to replace it name a request once, under its
number (`AllSound`). For one agent and one push at a time: nobody else has a plan (`Alone`),
numbers increase and the next is above them (`Ordered`), and what the agent is about to write
is the file it read, moved along `AgentMoves`, with nothing but later pushes behind it
(`Claims`). `OnceOnly`, `SeqsIncrease` and `HandsAreBacked` follow, and `KeepsPromise`, the
refinement: the state of each request in the file maps every step to a step of
`RequestPromise` or a stutter.

`BoardApi_proofs`, for any findings, threads and batches: `BoardTypeCorrect`;
`QueuedIsAsked`, under the explicit hypothesis `"queued" \notin Targets`, without which it is
false; `DismissalsStand`, from what each handler, merge, prune and `FixRecorded` do to a
dismissed finding.

`Components_proofs`, four components that share no state:

* *Page*, for any findings, filters, stamps and calls under way. `SelectionStaysVisible`
  needs no more than itself: every change of the rows goes through `renderList`, which leaves
  of selection, anchor and active finding what is visible, and the rest only takes away.
  From it `ApprovalsNameVisible`: whatever is posted names findings shown at that moment, and at
  least one, although findings come and go in the store. That the store still holds them is not
  promised; the server answers 404 or passes over them.
* *Call graph*: `AnswersHold`. The invariant: a cache entry is the graph's own set, or
  empty and some query has failed; a refused query caches nothing.
* *Python scanner*, for any rules of the table, any nesting and number of functions:
  `OwnFunctionRates`. `PyInv`: every scope on the stack, not only the one on top, holds
  taints of its own function alone and guards no name which that function has not tested.
* *Telemetry*: `ConsentHolds`. `ConsentInv` strengthens it: a config that says on, and a
  command that may still write one, has the user's agreement; the agreement is known to
  every command under way.

`Scans_proofs`, for files of any length and, in the first group, any rules:

* `OrderIgnored`: whichever order the scanners yield a file's findings in, deduplication
  leaves the same ones, and none of a defect outweighs the one that stays. `_wins` compares
  priority, the precedence of the scanner and last the rule id, which tells any two rivals
  apart (`RivalsDiffer`); the fold keeps for each key the best of what it has seen
  (`DedupeIsBest`). The floor comes after.
* `RatchetPasses` is an action property. `RatchetInv` carries it: before the first dismissal
  nothing in the store is dismissed and what a scan just reported is open, so a baseline
  taken then holds all there was to find in the file it froze, whatever the floor
  (`FloorLeavesFewer`), and what is dismissed later is not taken out of it.
* `IdentitySurvives`, over the operators `sample_block_lines` and `heredoc_lines` as well: a
  quiet line on top leaves open what was open in front of it, moves every match by one
  (`MatchingShift`) and leaves each its ordinal among its like (`OrdinalShift`), hence the id.
* `DangerFlagged` and `FlaggedDangerous`: in a file whose copied names are written once and
  compared with nothing, and for names that are compared with nothing, the
  two passes of `build` and the history a sink asks come to `Danger`, the direct definition. Where
  the first pass ends, the copied names agree with it (`FirstPass`), and the second keeps that
  (`LaterPass`); where a name is written again, the last state before the sink is looked up
  (`LastWriteIs`). Without appends the tracker flags nothing else.
* `MatchesPass`, and from it `PrefilterStaysNeutral`, for patterns of any words, any number of
  branches and any depth of groups. Along the table, by strong induction: each way an atom may
  match holds one of the words the extractor requires of it, if it requires any (`AtomsMeet`).
  A word without its last character is what it requires of an optional character (`OfferMeets`);
  the selection among the atoms of a branch (`MostSelectiveIs`) picks what one of them requires,
  and a group's alternatives meet whichever branch was taken (`BranchesMeet`). A negative
  lookahead matches where its inside does not: only that it offers nothing
  (`LookaheadOffersNone`) makes it harmless, which is what `Understood` asks of the rules, as of
  `{0,n}` groups, which the code takes for present. Both were looked for in the bundled rules.
* `VersionsInOrder`: `compare` reads two versions at the first part in which they differ, then
  at the stage; hence an order, for which trailing zeros are neutral, and ranges follow it.
  `RevisionsKeepFindings` says it of every manifest and every history of an advisory: what is
  declared and the two fixes named last are versions all along.
* `HandlersJudgedAlone`: the block in front of a registration, read in the whole file, is the
  block in its handler and lines that say nothing (`BlockInHandler`), and a call that ends in its
  handler is over before the lines below are read, for any window and any `ReadAhead`. It is said
  of each handler that is `SelfContained`, the others of the file being arbitrary, provided none
  above it ends in a word on authorization (`QuietBelow`): a trailing comment of one handler does
  stand in front of the next. `NeighboursStayApart` says it of every file that can be written, of
  any length.

The induction theorems of the library take an operator as a parameter, which the prover cannot
instantiate. `Induction` and `StrongInduction`, at the head of the module, are over a set of
numbers instead and follow from a least counterexample. A recursive function is a CHOOSE; `Chain`,
`Recursion`, `FoldExists` and, where a value depends on all the earlier ones, `DescentExists`
prove that its equation has a solution, by growing one on 0 .. n, and from then on its equation
may be used. The recursive functions here branch with IF, since the prover does not see a
recursion that is only inside a CASE.

Assumed: `IdentityAssumption`, `LifecycleAssumption`, `LockAssumption`, `SessionAssumption`,
`QueueAssumption`, `BoardAssumption`, `GraphAssumption`, `TaintAssumption`,
`RulesAssumption` (the rules used are in the table), `RuleTableAssumption` and
`GateAssumption` (rules and lines are records of their kind, rules are finitely many),
`AlphabetAssumption` (every rule id has a number), `RadiusAssumption`, `HandlersAssumption`
(handlers consist of lines of their kind), `WordsAssumption`, `CandidatesAssumption`
(patterns, of the constructs the bundled rules use) and `ReleasesAssumption`; TLC evaluates them in
the runs.

Only model-checked:

* the liveness properties (`RegressionSurfaces`, `FixedIsSettled`, `AttemptsEnd`,
  `AbandonedFileGoes`, `PendingIsServed`, `ClaimedIsSettled`, `QueuedIsAnswered`,
  `PageCatchesUp`): fairness and ENABLED are out of the prover's reach;
* the violations, which are facts about one instance.

Every safety and action property of a passing run is a theorem.

## Not modelled, and why

* *Configuration:* a fold over dictionaries; the last source that has a key wins.
* *Other scanners* (`javascript.py`, `secrets.py`, `exposure.py`, `cicd.py`, `configs.py`),
  *technology detection, reports, SARIF, compliance:* matchers over text and formatting,
  without state. What a scanner reports is an input of the lifecycle.
* *Lifecycle:* record_scan, delete, destroy, migrate and watch. The command baseline is in
  `ScanGate`.
* *Scan scoping:* `.gitignore` matching, blame, the list of excludes.
* *Page:* the export dialog, other panels, highlighting. *Call graph:* the tags that
  `trace --annotate` saves. *Taint scanners:* the regular expressions, the limit per rule and
  inline suppression. *Versions:* parsing of manifests.
* Crashes of the file system (a rename that is not durable), partial lines in
  `actions.jsonl`, clocks that run backwards and two `clear`s at once.

Some properties come with a condition because they do not hold without it. `HeldIsClaimed` and
`IncreasingSeqs` are for one agent and one push at a time, as the skills describe it: two
agents can claim one action, and two appends can number alike. `DangerIsFlagged` and
`FlaggedIsDanger` are for files whose copied names are written once and compared with nothing
(`CopiesAreSettled`): escapers are united over the operands of a line and copies look at the whole
file, so a rewritten name may escape either way, and a comparison counts as a write.
`HandlersAreJudgedAlone` is for registrations whose call ends in their handler. `PageCatchesUp`
excepts `RowsSwapped`, `DiffScanStaysInScope` the files a bracketed name matches. `RatchetPassesWhatItFroze` is for a baseline taken
before any dismissal, since a baseline freezes only what is actionable.

## Plan

Done, in this order: lifecycle, lock, sessions, queue; board API and page; triage, identity
and gate; the analyses; telemetry; the proofs above. What could follow:

1. The lines of `prune`, `delete` and `migrate` as sessions, so that a destroyed store meets a
   save under way.
2. `watch`, which repeats the scan of `ScanGate` while the file is being written.
