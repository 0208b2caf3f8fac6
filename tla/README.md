# A verification project for `vibes`

TLA+ models of the stateful and concurrent parts of the `vibes` repository, the
TLC runs that check them, and theorems about them that TLAPS proves.  Paths
below are relative to the repository's root (`src/` in `PROJECT.json`).

`vibes` is not one program.  It is a collection of independent Python tools:
`tools/*.py` (the repository's own quality and planning tools), `examples/*/`
(reference applications, each with its README and tests), one benchmark runner,
and a large body of markdown.  Tools share a few helper modules and hardly ever
call each other.  Many read source text or a table once and print findings.
The work goes where state, concurrency, failure, time or a repair that has to
hold make the code hard to test.

## Modules

| Module | Code | What is hard |
|---|---|---|
| `PathOracle` (implements `SharedListing`) | `tools/doc_core.py` `PathOracle` | double-checked locking, one lock per key, in a thread pool |
| `TokenBucketGateway` (implements `WindowLimiter`) | `examples/fastmcp-token-bucket-gateway/gateway.py` | asyncio tasks, a lock held across a sleep, retries, cancellation |
| `AstCrdt` | `examples/ast-crdt-collaborative-editor/ast_crdt.py` | a replicated tree, whole logs replayed between replicas |
| `Sanitizer` | `examples/streaming-reasoning-sanitizer/sanitizer.py` | an incremental parser fed in any chunks |
| `RepomapCache` | `examples/valkey-l2-repomap-cache/repomap_cache.py` | two tiers over an unreliable shared server |
| `TimedCommand` | `hook_sentinel.py`, `sandbox.py`, `kinetic_probe.py` | process groups, pipes, signals, time-outs |
| `WorktreeArbiter` | `examples/worktree-swarm-arbiter/worktree_arbiter.py` | leases against what git keeps, faults between git commands, deaths of agents |
| `SloLedger` | `tools/reliability_slo.py` | concurrent recorders, pruning, torn files, budgets |
| `FindingBaseline` | `tools/finding_baseline.py`, `tools/sarif_report.py` | read-modify-write by several users, kills, filtered logs |
| `DomainStrategies` | `examples/adaptive-web-crawler/crawler.py` | what is learned, saved in place, reloaded, shared |
| `AppFactory` | `tools/app_factory.py` | an update over what a developer edits, and runs that die |
| `IterationWorkbench`, `ResourceReview` | `tools/resource_iteration_workbench.py` | files that change while the cycle runs which a change started |
| `CodeMemory`, `SymbolGraph` | `tools/code_memory.py` | incremental re-indexing; graph searches with shared visited sets |
| `ProjectBoard` | `tools/sdlc_project_manager.py`, `tools/roadmap_ingest.py` | passes over a board that people and tools move meanwhile |
| `SentinelServer` | `examples/ast-invariant-sentinel/sentinel.py` | a language server behind an editor that types on |
| `AstReconciler`, `ContextPacker`, `MilestoneGovernor`, `CegisTrajectory`, `AstRefactorer` | the tools of these names | algorithms with a specification of their own |
| `DocFences`, `FuzzCampaign`, `ToolSchemas` | `tools/docs_validator.py`, `tools/fuzz_harness.py`, `tools/deprecation_protocol.py` | several readers of one text; shrinking; migrations |
| `BatchTools`, `Instruments` | – | compose the tools that map one input to one output, with their properties |
| `Toolbox` | – | composes `BatchTools`, `Instruments`, `AstRefactorer` and the eight parts from the ledger to the sentinel |
| `TokenBucketProofs`, `SanitizerProofs`, `RepomapCacheProofs`, `WorktreeArbiterProofs`, `AstCrdtProofs` | – | theorems and proofs, a module for each component |
| `ToolboxProofs` | – | theorems and proofs of the eight parts of the toolbox from the ledger to the sentinel, of `TimedCommand` and of `PathOracle` |
| `BatchProofs` | – | theorems and proofs of `BatchTools` and `Instruments`, and of the operators under them |
| `RefactorerProofs` | – | theorems and proofs of `AstRefactorer` |
| `MC*` | – | instances for TLC; `PathOracle` and `TimedCommand` need none, their `.cfg` is of the module itself |

To check: `tlc -config x.cfg x` and `tlapm xProofs.tla`.

# 1. Inventory

What each component keeps, what it does, what is hard, and what makes it
correct.  The hazards, with their lines, are in `PROJECT.json`.

**Documentation sweep** (`tools/docs_validator.py`, `tools/doc_core.py`,
`tools/doc_rules_*.py`).  `validate_directory` validates files in a
`ThreadPoolExecutor` whose threads share one `PathOracle`.  *State*:
`_listings`, `_locks` (one per directory, made on demand), `_lock` over both.
*Hard*: several threads miss the unlocked look-up at once; an empty listing is
false in Python; locks are created under a race.  *Correct when*: a directory
is scanned at most once, a listing is never replaced, every call returns.  The
same tools read code fences, six times over with six automata, and repair them
(`--fix`).  *Correct when*: the readers agree, a repair ends, and touches
nothing inside a block.

**Token-bucket gateway**.  *State*: the bucket, its `asyncio.Lock`, the tools,
the telemetry.  *Operations*: `register_tool`, `execute_tool` → `acquire`
(refill, sleep off the deficit *inside* the lock, take a token) → attempts with
jittered back-off or the server's `Retry-After`.  *Hard*: a sleeper with the
lock and a queue behind it; timers that fire early; cancellation at every
`await`.  *Correct when*: no window admits more than a burst plus what accrues;
first come, first served; `Retry-After` is a floor; exactly `max_retries`
attempts; the counters add up; every call ends.

**Tree CRDT**.  *State* per replica: Lamport clock, id counter, `node_map`,
`op_log`.  *Operations*: insert, delete, move; `sync_peers`, which replays both
whole logs.  *Correct when*: ids are unique, tombstones stay, the tree stays a
tree, clocks run ahead, replicas with the same operations agree.

**Reasoning sanitizer**.  *State*: the mode, the held-back buffer, thoughts
under a bound, metrics.  *Correct when*: chunking does not show, no character
is lost or counted twice, only the beginning of the tag that matters is held
back.

**Repomap cache**.  *State*: L1 and its statistics, the client's connection and
fallback store, the server's table shared by all processes.  *Hard*: replies in
pieces, refusals, lost acknowledgements, expiry, unparsable source.  *Correct
when*: answers are of the right text, no clipped value is taken for a value,
what was stored is findable, L1 keeps its bound.

**Timed commands**.  Three harnesses wait for a command's pipes and end, and
act when time runs out.  *State*: the operating system's.  *Correct when*:
nothing of the group survives, all output is read, only what is reported as
timed out was signalled, every call returns.

**Worktree arbiter**.  *State*: the caller's list of leases; git's worktrees,
branches, and `index.lock`.  *Operations*: allocate, heartbeat (a new lease
value), release (three git commands), prune.  *Correct when*: a living agent's
worktree is not removed, nothing on disk is unknown to all leases, the dead are
reclaimed, every allocation ends.

**SLO ledger**.  *State*: a directory of shards or one file.  *Operations*:
record, load the window, prune, decide a phase and a release.  *Correct when*:
the newest records are kept, a breach blocks, and only a gating objective does.

**Finding baseline**.  *State*: the baseline file, SARIF logs, the code.
*Operations*: record, status, prune, the report with `--baseline`.  *Correct
when*: nothing is passed over that nobody accepted, what comes back is
reported, what is pruned had been fixed.

**Adaptive crawler**.  *State*: strategies by domain in memory and on file.
*Correct when*: what is on file is what was learned last, sound, and an
escalation is not forgotten.

**Application factory**.  *State*: contract layer, handlers, recorded answers.
*Operations*: `new`, `update`.  *Correct when*: a developer's work survives,
every operation of the contract has a handler, the recorded answers give the
layer there is.

**Resource workbench**.  *State*: what the watcher remembers, the baseline of
complexities, the report.  *Correct when*: after a cycle without a newer change
the report is of the files as they are, with true deltas; a repository is as
healthy as its worst resource.

**Code memory**.  *State*: hashes, symbols, edges by file.  *Correct when*: the
incremental index answers as a fresh one; blast radius is reachability; the
cycles found are cycles, and there are some if there are any.

**Project board**.  *State*: roadmap, scans, board.  *Operations*: ingest,
export of defects, passes of `sync`, promotion.  *Hard*: a card is known by its title
alone, and several may have one.  *Correct when*: a pass loses no card it should
keep, follows the scan it read, promotes the best eligible card.

**Invariant sentinel**.  *State* of the server: `open_docs`; of the editor: its
texts, the diagnostics it shows, its open requests.  *Operations*: didOpen,
didChange, didClose, codeAction, exit; audit with rules and waivers; repair.
*Correct when*: with nothing under way the editor shows the findings of its
text; answers come in order; a quick fix repairs the text it is applied to.

**Tools that keep nothing** but promise something: the reconciler (a merge is
symmetric, keeps edits and agreement, in what it does not rebuild), the packer
(most symbols, most detail), the governor (its rollover mends and adds no
error), the CEGIS verdict, the refactorer (same behaviour), the fuzz campaign
(no defect is lost, cases are minimal), schema migration (an accepted pair
accepts old calls).

**Not modelled**: section 7.

# 2. The models

Common conventions.  An action is what one actor does between two points where
another can run.  Definitions keep the source's names.  A definition commented
as a mutant of X is a plausible bug in X that no specification uses; it serves
to show that the properties notice such a bug.  History variables (marked so)
record the past for properties and are never read by actions.  Every component
has one conjunction of its invariants, which a run checks (`ScansAreShared`,
`LimitsAreKept`, ...); its conjuncts have names and comments of their own.

**PathOracle.**  One action per step of `listing()` between two points where
another thread can run: `CachedHit`/`CachedMiss` (the look-up before the
directory's lock), `ScanLock`, `Enter`, `SettledHit`/`SettledMiss` (the second
look), `Scan`, `Store`, `Unlock`.  Sections under `_lock` are one dictionary
operation each and are single steps.  A scan returns any listing, the empty one
included.  `SharedListing`: one snapshot per directory, of which every reply is.

**TokenBucketGateway.**  One tick accrues one unit, a token is `Cost` units, so
refill and deficit are exact (the code uses floats; rounding is not modelled).
`lockQueue` is the `asyncio.Lock`: its head is inside.  `Pace` and `Grant` are
the two outcomes of a turn of `acquire`'s loop; `Grant` goes on into the first
attempt, because nothing suspends in between.  Timers may fire up to
`Resolution` early.  `Cancel` strikes at every `await`.  `WindowLimiter`: a list
of grants of which every window holds at most the allowance.

**AstCrdt.**  `Insert`, `Delete`, `Move` create an operation on a node the
replica holds and apply it.  `sync_peers` copies both logs into `pending`;
`Replay` applies them in order before anything else happens, and appends them
to the log again, as the code does.

**Sanitizer.**  `Feed` joins buffer and chunk; one action per branch of
`_consume_emitting` and `_consume_thinking`; `Return` is `feed`'s return.  Tags
are sequences over a small set of characters.

**RepomapCache.**  One action per step of `get_repomap` at which another process
or the network may act, and one per outcome of a command: whole reply, reply in
segments, connection lost, refusal, lost acknowledgement.  A source text stands
for its digest.  `Expire` is the server's TTL, eviction or restart.

**TimedCommand.**  `Finish` (communicate returns), `TimeOut` (SIGTERM),
`Escalate` (SIGKILL and the second communicate), `KillTree` (sandbox),
`KillLeader` (probe).  The command's processes are the environment: they fork,
leave the group, close pipes, ignore SIGTERM, end.  A leader that has ended is
not yet waited for, so its process id still names the group.

**WorktreeArbiter.**  One arbiter allocates, refreshes, and prunes; each git
command of a release (`GitRemove`, `GitPrune`, `GitBranchDelete`) is a step, may
fail (`Fault`, at most `MaxFaults`), and waits for `index.lock`, which another
git takes and leaves.  Lease ids have a resolution of a second, two ticks here.

**SloLedger.**  Several recorders at once: reading the history, writing a shard
(its name from the second and the number present) or the single file, pruning
shard by shard; a recorder may die anywhere and leave a torn file.
`reliability` states are functions of what `load_history` then returns.

**FindingBaseline.**  A user's command is its reads and its write; others run
between them.  `blCode` is what the tools find in the code, edits change it, a
log may be filtered, a kill leaves the file `Cut`, which later commands refuse.

**DomainStrategies.**  Each crawler fetches a page (any outcome), learns, and
rewrites the file in two steps (truncate, write); restarts read what is there.

**AppFactory.**  `new` and `update` write the layer, the handlers and the
answers as separate steps, and may die between them; a developer fills in,
breaks and mends handlers; the contract and the template's variables change.

**IterationWorkbench.**  The watcher takes modification times, a cycle reads the
files one by one and writes report and baseline; saves go on all the while; a
filtered run in another process shares the baseline.  `ResourceReview` is the
arithmetic of the evaluation: deductions, cut-offs, the overall health.

**CodeMemory** indexes a file again when its hash differs: symbols and edges of
the file are removed and added.  **SymbolGraph** has the two searches, turn by
turn, with the order of the adjacency lists; the recursion of `_dfs_cycle` is the
stack of its calls.

**ProjectBoard.**  A card is a title and a place among those of that title, for
several cards may have one (a headline names a file without its directory,
`resource_iteration_workbench.py:966`, `:1039`): `current_by_id` picks one of a
scan's cards by title (`Indexes`), and promotion strikes every card of the title
it is after.  A pass reads the board, reads a scan and writes the board, in three
steps; the roadmap is replanned, cards are moved by hand, defects are
exported and a kill leaves a truncated file in between.

**SentinelServer.**  The two streams between editor and server are queues; the
editor's user types, closes, asks for fixes and applies them or not.  A text is
its lines, a line is what the audit and the repair see in it.  Which lines
waive, which are defective, and what is in the header is computed as in
`_scan_waivers`; `auto_fix_source` and `_handle_code_action` include how the
last line ends, for an edit is a range of the text.

**BatchTools** and **Instruments** choose an input from a set the instance
gives and apply the tool; tools that loop (the synthesis loop, a rollover) take
a step per turn.  Of an input they keep what the tool tells apart.  What the code
does in a `while` or by recursion (the searches of the graph, the shrinking of a
text) is a function of the number of turns taken, up to a number by which there is
nothing left to do; that it is enough is part of `SearchesFindAll` and
`DefectsAreKept`.

**AstRefactorer** refactors one function again and again.  A function is a list of
statements with conditions over a parameter and a local variable; ifs stand in the
bodies of ifs of its own body, and no deeper (`IsFunction`).  What is returned, and
what a ladder compares with, is any expression: it leaves effects, reads names
(of the function, or of the module before or after it), and raises or has a value
(`Expr`, `Evaluate`).  Conditions compare a variable with a constant, or are a
conjunction or the negation of such; assertions compare, several at a time or not.
The table and the helper are inserted into the module where the function stands at
its top, or at its very beginning otherwise (`Places`, `Inserted`), and the table is
evaluated there.  `Behaviour` is what Python makes of it: what the import of the
module leaves and raises, and, for every argument, the trace the function leaves,
and what it returns or raises.

**Toolbox.**  These eleven parts have nothing to say to each other.  In each
behaviour one is at work (`part`), the others rest in one fixed initial state,
so the states of the run are the sum of the parts', not their product, and one
run answers all of their questions on their own bounds.

# 3. The runs

| Run | Instance | Distinct states, time | Checks |
|---|---|---|---|
| `path_oracle` | 3 threads, 2 directories, 2 listings | 142 k, 18 s | `ScansAreShared`, `EveryCallReturns`, refinement of `SharedListing` |
| `gateway` | 3 calls, burst of 1.5 tokens, 2 attempts, `Retry-After` 0 or 2 | 536 k (symmetry), 11 s | `LimitsAreKept`, `FirstComeFirstServed`, `TelemetryAccounts`, refinement of `WindowLimiter` |
| `gateway_live` | 3 calls, burst of 1 token | 168 k, 21 s | `EveryCallEnds` |
| `crdt` | 3 agents, 1 node each, 4 edits, 3 syncs | 455 k (symmetry), 20 s | `ReplicasAreTrees`, `ConvergesUpToMoves`, `TombstonesAreForever` |
| `sanitizer` | every stream up to 9 characters, chunks up to 4, bound 2 | 446 k, 6 s | `StateIsSoundBetweenCalls`, `CharactersAreAccounted`, `ChunkingDoesNotShow` |
| `repomap_cache` | 2 processes, 3 texts (1 unparsable), L1 of 1, replies of 2 segments | 705 k (symmetry), 13 s | `StoresAreInOrder`, `AnswersMatchTheText`, `StoredIsFindable` |
| `timed_command` | 3 harnesses, 4 processes | 84 k, 3 s | `ReturnIsClean`, `ReachableCommandsReturn` |
| `worktree_arbiter` | 2 agents of one name, 2 ticks a second, 4 ticks, 1 fault | 226 k, 23 s | `LeasesMatchTheDisk`, `EveryAllocationEnds`, `TheDeadAreReclaimed` |
| `toolbox` | see below | 2.86 M (symmetry), 205 s | 12 invariants, 6 action properties |
| `crdt_sec` | 2 agents, 4 edits, 2 syncs | counterexample | `StrongEventualConsistency` |
| `docs_fix` | documents of up to four lines | counterexample | `FixKeepsAcceptedDocuments` |
| `refactorer_equivalence` | functions of up to three statements | counterexample | `RefactoringsAreEquivalent` |

What the conjunctions say:

* `ScansAreShared`: types; `ScannedAtMostOnce`.
* `LimitsAreKept`: types; `WindowConformance`, `RetryAfterIsAFloor`,
  `AllAttemptsAreUsed`.
* `ReplicasAreTrees`: types; `NodeIdsAreUnique`, `EveryNodeIsRooted`,
  `ClockIsAhead`.
* `StateIsSoundBetweenCalls`: types; `ThoughtsAreBounded`, `HeldBackBeginsATag`.
* `StoresAreInOrder`: types; `L1IsBounded`, `ValuesAreWhole`, `StatsAccount`.
* `ReturnIsClean`: types; `GroupIsDead` (sandbox), `OutputIsComplete` (hook),
  `OnlyTimeOutsAreSignalled`.
* `LeasesMatchTheDisk`: types; `LeasesAreHonoured`, `NothingIsOrphaned`.

The parts of `toolbox` (their states add up):

| Part | Bounds | States | Property |
|---|---|---|---|
| batch tools | inputs in `MCToolbox`, see there | 189 k | `MergesAreSound`, `PackIsBest`, `RolloverMends`, `TrajectoryIsToldTrue`, `HealthIsTheWorst` |
| refactorer | 6,510 functions of up to five statements | 14 k | `RefactoringKeepsBehaviour` |
| instruments | the same | 137 k | `SearchesAreExact`, `FencesAreAgreedOn`, `CampaignKeepsWhatItFound`, `PassedSchemasAcceptOldCalls` |
| code memory | 2 files, 2 rewritings | 114 k | `AuditFollowsTheSources` |
| ledger | 2 recorders, 3 records, window 2, 1 death | 292 k | `LedgerGates` |
| baseline | 2 users, 2 fingerprints, 4 commands, 2 edits, 1 kill | 443 k | `BaselineIsHonest` |
| crawler | 2 crawlers, 2 domains, 3 pages, 1 restart | 114 k | `StrategiesAreRemembered` |
| factory | 2 operations, 1 variable, 3 runs, 3 changes, 1 death | 459 k | `UpdatesAreSafe` |
| workbench | 2 files, 2 saves, 1 other run | 410 k | `ReportsAreCurrent` |
| board | 2 defects of one title, 2 deliverables, 2 passes, 3 audits, 1 move, 1 kill | 548 k | `PassesAreFaithful` |
| sentinel | 1 document, 10 texts, header of 2 lines, 2 texts typed, 2 fixes asked for | 139 k | `EditorsAreServed` |

**Why the bounds are enough for the interesting cases.**  *path_oracle*: the
third thread arrives while the first holds the lock and the second waits.
*gateway*: one and a half tokens make refill hit its cap and leave fractions;
the second caller sleeps with the lock while the third queues, and each can be
cancelled there; two attempts make one retry and one last attempt; `MaxTime`
bounds idle time only, a sleeper's deadline always comes.  *crdt*: chains of
three nodes and a move that would close them; an operation reaches the third
agent through the second, and twice; one sibling position suffices, positions
are only copied.  *sanitizer*: nine characters hold two tags of each kind or an
overlapping mess; both tags begin alike, so what is held back may become either;
every cut occurs.  *repomap_cache*: one L1 place and two storable texts force
eviction; two segments are the shortest reply that can be cut. *timed_command*:
a leader and three descendants: one in the group, one out of it, one forked
meanwhile.  *worktree_arbiter*: names that collide within a second and not
across; a fault in any one git command; a lease that runs out while its agent
lives, beats or is dead.  *toolbox*: two actors wherever actors share something,
one death, kill or fault, and enough rounds that what the first left behind is
read by the second and the result by a third; for the tools, inputs in which
each construct they tell apart occurs alone and next to each other one (three
statements, or a ladder of any values, keys, fallback and rest between two
statements, at each of three places; up to four issues; merges of modules of up
to two statements, with classes of two headers, with and without attributes; two
findings of one title; graphs of every subset of nine edges with shared nodes).
The sentinel's two documents were also run alone (1.8 M states): documents do
not interact, so the run has one.

**Deadlock** is checked for `path_oracle` and `worktree_arbiter`.  The others
really stop: a bounded number of calls, edits or characters is used up, a tool
has its output, or the command's processes have ended.  What must not stop
early there is stated as liveness.

**Symmetry** is used only in runs without liveness: callers, agents, processes;
in `toolbox` the users of the baseline, by far its largest part without that.  None
of them is ordered, and no step or property depends on which one it is.

**Fairness.**  `PathOracle`: weak fairness of each thread's step; the operating
system schedules threads, and a directory's lock is contended by finitely many
calls.  `TokenBucketGateway`: weak fairness of the clock, of every ready task
(the event loop runs them in turn), and of the service's answer (the handler is
assumed to end, with a result or an exception; the gateway has no time-out of
its own).  With less than one token of burst no call is ever admitted; the
instances have at least one.  `TimedCommand`: weak fairness of the harness
only: timers expire; the command's processes owe nothing.  `WorktreeArbiter`:
weak fairness of the clock, of the arbiter, which is a program that runs, and of
living agents; nothing of other git processes, faults or deaths.  The toolbox
states no liveness: its parts wait for people.

# 4. What is proved

For every value of the constants (any sets of threads, directories, requests,
processes, agents, users; any rates, bounds, tags, streams, texts), from the
modules' named assumptions.  Each is the usual argument: an inductive invariant,
established by the initial states, preserved by every action, implying the
property.  For a component with a specification of its own the theorem is of the
conjunction that its run checks.  The parts of the toolbox are proved of their
own specifications (`BlSpec`, `CmSpec`, ...), of which `ToolboxSpec` runs one.

* **PathOracle** (the last section of `ToolboxProofs`): `TypeCorrect`,
  `AtMostOneScan`, `PublishedListingsAreStable`, `RefinesSharedListing`,
  `OracleIsSafe`. `ScannedAtMostOnce` alone is not inductive: a thread past the
  second look must be known to be the only one.  `IInv` adds that the lock a
  thread holds is the one `_locks` keeps for its directory (`LocksAreShared`),
  that it is the holder (`InsideHoldsLock`), and that an unpublished directory
  was scanned only by a thread about to publish (`ScansAreAccounted`).
  `MutualExclusion` follows and carries the refinement: `Store` is the abstract
  `TakeSnapshot`, a return is `Reply`, everything else stutters.
* **TokenBucketProofs**: `TypeCorrect`, `WindowsConform`,
  `RetriesRespectRetryAfter`, `RetriesAreExhausted`, `RefinesWindowLimiter`,
  `GatewayIsSafe`.  The window bound is made inductive by `LedgerBalances`: for
  every window that ends now, what was granted plus what is still in the bucket
  is within the allowance.  Pacing preserves it because refill adds what
  elapsed; a grant moves one token from the bucket to the ledger.
* **SanitizerProofs**: `TypeCorrect`, `BoundHolds`, `AccountsBalance`,
  `WithholdsOnlyATag`, `SanitizerIsSafe`.  `IInv` also says what is in the
  buffer whenever `text` is being consumed (`HeldBackFits`).  The lemmas on
  `First`, `From` and a found tag say where characters go.
  `ChunkingIsInvisible` (`ChunkingDoesNotShow`): what was consumed was consumed
  as a reader of the whole stream reads it, however the stream goes on
  (`ReadSoFar`, quantified over all continuations, without which what is held
  back could be misjudged).  Under it are what a recursive reading computes over
  a run of plain characters, a tag, and a stray closing tag (`EmitRun`,
  `ThinkRun`, `TagRun`, `StrayClose`), and that no tag begins before what
  `_find_potential_prefix` holds back (`NoTagBeforeCutoff`).  Its hypothesis
  `TagsApart`: the closing tag does not lie inside the opening tag, as in the
  default tags.  The constructor does not ask for it, and without it the
  statement is false: a closing tag in half an opening tag is taken for a stray
  one (`sanitizer.py:146`).
* **RepomapCacheProofs**: `TypeCorrect`, `MapsAreOfTheText`,
  `L1KeepsToItsBound`, `NoPartialValue`, `SetIsKept`, `StatsAddUp`,
  `CacheIsSafe`.  The answers are right because all three stores keep under a
  digest the map of that text (`StoresMatchTheirKeys`) and so does whatever is
  under way between them (`InFlightMatches`).  `_store_l1` appends without
  looking; that no key comes twice needs `Missing`: from the L1 look-up on, the
  text asked for is not in L1.  `SetIsKept` needs `AcceptedSetsAreThere`: a SET
  that was sent and not refused is in the server's table or has been lost by it,
  while its acknowledgement is still under way.
* **TimedCommand** (a section of `ToolboxProofs`): `CommandsAreTyped`,
  `SandboxKillsTheGroup`, `HookReadsEverything`, `NoSilentSignal`,
  `CommandsAreSafe`.  `TcInv` adds `GroupIsBorn`, a process that does not exist
  yet is in no group, so that only a running member can put a new process into
  it and a dead group stays dead; and `QuietUntilTimeOut`, nobody is signalled
  while the harness still waits.

* **TokenBucketProofs**, second part: `ServedInOrder` is
  `FirstComeFirstServed`, from `LineIsInOrder`: who took a token came before who
  is in line, and the line is in order of arrival also after a cancelled call
  has left its middle.  `CountersAccount` is `TelemetryAccounts`, from
  `Accounted`: the counters are numbers of calls at certain stages, and whether
  a call was throttled is settled when it takes its token.
* **WorktreeArbiterProofs**: `LeasesMatch`, `IdsExclusive`.  `ArbiterInv` adds
  what the property does not say: the branch is the lock on an id
  (`OneLeasePerId`: `git worktree add -b` refuses a second one, so ids that
  collide within a second are still held by one agent at a time); the worktree
  stands whether or not the lease has expired (`TreesStand`), for an expired
  lease can be listed again by a heartbeat; and what the git commands of a
  release have achieved before the next one runs (`ReleaseInOrder`), without
  which `NothingIsOrphaned` is lost in the middle of a release.
* **AstCrdtProofs**: `Trees`, `Convergence`, `Tombstones`.  Convergence is of
  states that no one step relates, so `MapsFollowLogs` says what a row is as a
  function of the log, whatever its order: there if inserted, a tombstone if
  deleted, where the insertion put it if never moved.  That rows are there when
  an operation needs them takes causality: within each log
  (`LogsAreCausal`) and in what a sync has still to apply (`PendingIsCausal`).
  `MintedByCounter` gives unique ids.  That a move keeps every node rooted is
  the content of `is_ancestor`: the walk from the new parent upwards, which
  never met the node, is a path out of any group that the move could close.
* **ToolboxProofs**
  * `BaselineHonest` (`BaselineIsHonest`): a command that is about to write
    carries a baseline decided earlier; `PruningsAreSound` says what it is, and
    `OneAtATime` that unless two commands have overlapped it is still right.
  * `AuditIsSound` (`AuditFollowsTheSources`): each unmarred file has in the
    index its own symbols exactly, and its edges up to those of module level
    (`IsIndexed`); an audit then resolves each name as in a fresh index.
  * `CrawlersRemember` (`StrategiesAreRemembered`): a page under way is not
    counted yet and a static one is of a domain not yet escalated (`AtItsPage`),
    without which success would turn a browser's domain back to static.
  * `ReportsFollow` (`ReportsAreCurrent`): by the times (`Past`,
    `TimesAreTrue`): a file whose time is the one that was found has not been
    edited since, so what was scanned after is the file (`ScansAreCurrent`).
  * `PassesKeepFaith` (`PassesAreFaithful`): what a pass will write is one of
    the outcomes for the board and the scan it has read, by one of the indexes of
    that scan (`PassIsSound`); the rest is about `reconcile_backlog` and
    `advance_ready_item` card by card.  Titles may repeat: a scan's titles all come
    onto the board, as one card where it had none; and what becomes Ready is every
    card of one title, of which one at least waited, is not blocked, and is
    outweighed by none that still waits.
  * `UpdatesStaySafe` (`UpdatesAreSafe`): the last definition of a name is the
    one in force, files only grow at the end, and a run that has died leaves
    what the next one completes (`AfInv`).
  * `EditorsServed` (`EditorsAreServed`): by what is under way.  The last message
    about a text brings the server what the editor has (`Arrive`), the last
    findings about it are those of the text the server holds (`Found`), and with
    none under way they are already there.  Requests and answers are in line by
    number (`InLine`, `Numbered`); an answer is about the text as it is, as long
    as the user has not touched it, because a change is sent before the request
    that follows it (`Current`, `Untouched`, `Answered`).  That a quick fix
    leaves no defect goes line by line over the kinds of lines (`Mended`,
    `FixedText`, `FixRepairs`).
  * `LedgerKept` (`LedgerGates`): by counting.  In no set of seconds are there
    more shards than iterations that have opened one (`CountIn`), so a shard
    that has `Retention` newer ones stands for an iteration that shares its
    second or has as many newer ones (`DisplacedIn`, `StaleIsDisplaced`); only
    such are on their way to be unlinked, whatever is recorded meanwhile
    (`PendingAreDisplaced`).  Shards that nobody is about to unlink are as many
    as are kept and one for each recorder that has not yet looked (`ShardsKept`).
    The single file has in it what it should as long as recordings do not overlap
    (`FileKept`).  The sums over the window exist, and compare term by term
    (`SumsExist`, `SumsCompare`).
* **BatchProofs** is about what operators compute, for every input.  Each theorem
  comes from `Spec => []` that the output is the operator's value for an input that
  is as assumed, and from what the operator is shown to do.  A fold over a set or a
  sequence and a recursive function are first shown to exist
  (`FoldTable`, `HasTable`, `HasRun`, `HasTurns`, `HasLoop`); what they compute
  then goes by the prefixes of the sequence, or by the number of turns.
  * `HealthKept` (`HealthIsTheWorst`): if nothing is critical and nothing needs
    remediation every score is 100 (`AllPoints`), so the average cuts nothing off.
  * `RolloversMend` (`RolloverMends`): what is kept has the same closed issues, no
    more open and created ones (`RolloverCounts`), so every rule that raises an
    error afterwards raised it before (`ErrorsStay`).
  * `TrajectoriesAreTold` (`TrajectoryIsToldTrue`): the constraints accumulated
    after any number of programs are what those programs violated; a clean last
    program is never taken for one that oscillates.
  * `PackingsAreBest` (`PackIsBest`): what a prefix costs grows with it, so what
    fits is closed downwards; `Bisect` keeps its answer between its bounds, which
    close in.
  * `MergesKept` (`MergesAreSound`): the merge is one decision per key; the decision
    is symmetric, yields to the side that changed, and reports what it drops.  A
    dictionary comprehension keeps the last entry of a key (`LastOf`).  Of a class
    that all three versions have (`Rebuilt`) this is so of the methods alone, and
    of the header the statement says that it is ours' (`Remains`); what else such a
    class holds, the merge drops (section 6).
  * `OldCallsAreAccepted` (`PassedSchemasAcceptOldCalls`): rule by rule, what the
    call has is what the rules up to there have moved (`adapt_arguments` as a fold).
  * `FencesAgree` (`FencesAreAgreedOn`): each reader is an automaton over the lines
    (`ReadBy`); in plain documents all are in the same state before each line.  A
    line that closes what is open leaves every reader in the open (`UnclosedFix`),
    and repairs change no line in a way a reader sees (`Alike`, `AlikeHeld`).
  * `DefectsAreKept` (`CampaignKeepsWhatItFound`): a window is cut only if what is
    left still fails the same property, so every turn of the shrinking keeps that;
    the loop over the tail ends with a step of one character that could not be cut.
    The replay meets what was kept because a class of failures tells its fault.
  * `SearchesFindAll` (`SearchesAreExact`).  Blast radius: after each turn what is
    visited reaches the symbol, and what is visited and no longer queued is closed
    against the edges; a node is queued once, so after as many turns as there are
    edges the queue is empty, and the visited set is the least closed one
    (`RadiusIs`).  Cycles: the calls are a path of nodes that are not left yet, and
    what a left node leads to was left before it (`Searched`, `Ranked`: the left
    nodes have ranks that fall along the edges as long as no cycle was found), so
    without a report nothing that was left is on a cycle; a target on the path
    closes one (`RoundIs`).  That all symbols have been left at the end: every turn
    takes one pair of a node and the number of edges it has passed from `Rest`
    (`Further`), which is as large as the turns that are given.
* **RefactorerProofs**: `RefactoringsKeep` (`RefactoringKeepsBehaviour`).  The
  invariant is `IsFunction`: what the refactorer writes is a function again, so
  the theorem is about the second and every further pass as well
  (`TransformedIs`).  One thing after another is associative, and stops at the
  first result (`InWhateverGrouping`, `ResultStays`), so a body does what its
  parts do (`TurnsConcat`, `DoingFlat`) and a statement may be replaced by what
  does the same.  Statements that neither look up nor call do the same in every
  function (`SameOuter`).  A ladder whose keys differ and the lookup in its
  table return the same, or both nothing (`LadderLooksUp`), and a table of
  constants adds nothing to the import of its module (`TableBuilt`,
  `DispatchMoves`); an if with nothing after it but a return of nothing and its
  guard end alike (`FlattenDoes`; that the inverted condition is the opposite
  one is `InverseIs`); a compound condition is as true in the helper
  (`CalledDoes`), in the body or one level down (`CallsWithinDo`); and
  assertions put down as one fail if and only if one of them does
  (`AssertedDoes`), wherever the run of them was cut (`ConsolidatedDoes`).

**Assumptions.**  Beside the parameters' ranges: the sets of concurrent requests
(gateway), of agents (CRDT) and of operations (factory) are finite, as they are
in any run, for numbers of calls and ends of paths are taken of them; the cap on
a crawler's delay is no less than the delay it starts with (ten seconds against
half of one); no roadmap card has the title of a defect (`TitleAssumption`: it
begins with `[ROADMAP]`, `roadmap_ingest.py:121`; titles may repeat on either
side); a text has at least one line, each of one of the kinds in `Line`; of a
report's events no more are good than valid, and an objective of 100 percent
asks for no more than one event (`reliability_slo.py:94`, `:217`); and the
values that stand for an absent row, release, file or scan are none of the real
ones.  Of the inputs of `BatchTools` and `Instruments`: a list of resources or
issues is finite, and no issue is open and closed at once (GitHub clears
`closed_at` on reopening); a verifier does not report the repetition rule
itself; sizes of symbols are numbers; what stands for no statement or for a
collision is no statement, and a parsed class is none that was merged; symbols,
edges, lines, faults, cases and migrations come in finite sequences of the kind
they are; a fence has no other text in its line; a fault's class tells the
fault, and its property tells whether it gates; a schema requires only what it
has; a refactored function is made as `IsFunction` says, and what stands for no
strategy or no result is no value that is returned (`Literals` names the four of
those that are words, for to the provers a string is not known to be one).  TLC
evaluates each of them on the runs' instances.

**Induction over data.**  Where an argument needs induction (walks up the tree,
the last definition of a name, the number of something), it goes by least
counterexample: the naturals are well founded, which the library proves without
a parameter, so a non-empty set of counterexamples has a least one.  What
`Reading` computes at each place of a stream is proved so, from the existence of
the recursive function up (`Induction`, `ReadingExists`).

**Only model-checked**: liveness, which is out of the prover's reach.  These are
`EveryCallReturns`, `EveryCallEnds`, `EveryAllocationEnds`, `TheDeadAreReclaimed`
and `ReachableCommandsReturn`.

# 5. Findings

Three statements of the repository that the code does not meet; each is a
`violation` run, with quotations and lines in `PROJECT.json`:

1. The CRDT claims strong eventual consistency with Lamport arbitration of
   moves; `_apply_move` reads no time stamp, so concurrent moves diverge.  What
   does converge is `ConvergesUpToMoves`.
2. `docs_validator --fix` closes unclosed fences, but reads only how a marker
   begins: it appends a fence to a document that the validator accepts, which
   then is reported.  What does hold is `FencesAreAgreedOn`, for documents in
   which no fence stands inside a block.
3. The refactorer says its transformations are validated by behavioural
   equivalence; its safety check compares metrics alone.  For which functions
   behaviour is kept says `Lends`, in `RefactoringKeepsBehaviour`; section 6 lists
   the others.

# 6. Known behaviour

What the models keep as the code has it, and no property judges.  A reader who
changes the code may want to know it.

* *Gateway*: retries are not paced (`gateway.py:114`); a burst below one token
  loops for ever with the lock held (`:61`).
* *Sanitizer*: a closing tag that was never opened and is cut by a chunk
  boundary is passed on unreported (`sanitizer.py:154`).
* *Commands*: the hook's last `communicate` has no time-out
  (`hook_sentinel.py:324`); a grandchild that ignores SIGTERM and closed its
  pipes survives (`:321`), while the sandbox, which always sends SIGKILL, is
  fine; the probe signals its child only (`kinetic_probe.py:108`).
* *CRDT and cache*: logs double at every sync (`ast_crdt.py:282`); `delete`
  reports success whatever became of DEL (`repomap_cache.py:246`); a client
  never reconnects; an L1 hit renews nothing.
* *Arbiter*: an expired lease is dropped also when its release failed; what that
  leaves behind is what `TheDeadAreReclaimed` and `NothingIsOrphaned` excuse.
* *Baseline*: README.md:264 says that entries are pruned when their finding is
  fixed; a prune with the log that a report with `--baseline` has left drops
  every suppressed finding, for none of them is in it.  `PrunedWereFixed`
  therefore speaks of unfiltered logs.
* *Ledger*: two iterations of one second share a shard's name once pruning holds
  the count steady, and the later overwrites the earlier: `LedgerGates` asks
  that an iteration be found only if it has its second to itself (`Alone`); the
  single file loses overlapping records, and a torn one reads as no history; one
  unlucky run of ten events exhausts an objective of 98 percent.
* *Crawler*: `consecutive_successes` is never reset; a tier never falls back.  Two
  crawlers that write the file at once may leave a mixture when what they write
  differs in length; the model has the file whole, or cut short, but not mixed.
* *Factory*: an update over handlers with a syntax error appends stubs that hide
  the implementation; `new` on a changed contract adds none; a variable dropped
  from the template makes every update fail; recorded defaults win over new ones.
* *Workbench*: a filtered run replaces the whole baseline; a file created and
  deleted during a cycle stays in the report; two edits within one unit of
  modification time may be seen as one (`wbBlurred`).
* *Code memory*: a file broken by a syntax error keeps its old hash, so reverting
  it leaves its symbols missing (`cmMarred`); edges of module-level calls and
  imports are never removed; deleted files never leave; call targets are names,
  not ids, so blast radius and cycles see few edges of a real index.
* *Reconciler*: a class that all three versions have is rebuilt from its methods
  under ours' bases and decorators (`ast_reconciler.py:260-307`), and this is
  tried before a side is asked whether it is still the base (`:341-354`).  Its
  docstring, attributes, nested classes, whatever is no method, the earlier of
  two methods of one name, and theirs' edits of bases and decorators are dropped
  without a collision, also when one side, or both, left the class alone.
  `patterns/3-way-ast-semantic-reconciliation.md:94-95` says that a symbol
  unchanged on one side is adopted from the other, and that classes are
  arbitrated by their methods after that.  Of two definitions of one name only
  the last is kept; the module's docstring is always ours'.  `MergesAreSound`
  states what is left (`Remains`).
* *Board*: titles repeat, for a headline names a file without its directory
  (`resource_iteration_workbench.py:966`, `:1039-1060`), and are what a card is known
  by.  Findings of one title collapse: one of them is looked at
  (`sdlc_project_manager.py:666`) and one opened (`:642-646`), and as long as any is
  reported none is closed.  A promotion makes every card of its title Ready
  (`:736-740`), one that is blocked, in progress or done as well, though `:748` says
  that exactly one card is promoted per pass.  An export to the board replaces it.
  A Done defect that is reported again stays Done; a scan without
  roadmap cards closes none; ingest takes a corrupt file for an empty one and
  resets the states of roadmap cards; a pass overwrites moves made after its
  read; a Done card vanishes with the next pass, so passes are not idempotent,
  which CHANGELOG.md:196 says they are.
* *Sentinel*: a quick fix ends before the last newline, so each one applied adds
  an empty line; repairs do not ask for waivers, so a file that is clean by its
  waiver is rewritten by `--fix`; a waiver without a reason below the header
  becomes a finding when it is repaired; `didClose` publishes nothing, so the
  editor goes on showing what it has; only the first of `contentChanges` is
  used; the README's aliases mccabe, depth, egress, parse, paths and waiver are
  not in `RULE_ALIASES`.
* *Refactorer*: what `Lends` excludes.  Dispatch: the keys and what is returned
  move into a table that is built when the module is imported
  (`ast_refactorer.py:419-425`), so a call is made there and once, and a name of
  the function, or one that the module defines further down, is not there; the
  fallback is evaluated for every argument (`:438-446`); what follows the next
  if in an else is lost (`:246-247`), as is what follows a ladder without an
  else; of equal keys the last counts; every ladder of the function becomes a
  lookup in the first one's table; a table goes to the top of the module for a
  method or a nested function (`:453-460`), and so comes before an `import from
  __future__`.  Guard clause: the finding, and a comparison without an order
  (NaN).  Predicate: a condition that reads locals, and again the place
  (`:550-557`).  A second table or helper of one name hides the first from what
  looks up or calls there already, or is hidden by it.  What `Lends` does not
  speak of because the model has no such functions: expressions that branch,
  `await` or `yield`; conditions and assertions that call, raise, or compare
  other than with a constant (assertions put together evaluate all sides before
  any is compared, and compare tuples, to which an object that differs from
  itself is equal); messages of assertions, which are dropped; an argument that
  cannot be hashed, for which a lookup raises; equality by a method of the
  argument's own.  A new object that is returned counts as an effect, for a
  table returns the same one again.  Of several functions of one name the first
  is rewritten.
* *Docs fixer*: an unclosed block of four backticks that contains one of three
  is not repaired; mermaid examples inside longer fences are edited.
* *Fuzzing*: a case may shrink into another class of failure that then hides the
  first; what is kept fails the same property (`NoDefectIsLost`).
* *Schemas*: rules in reverse order lose a parameter, and an optional parameter
  that becomes required passes: the conditions of `Orderly`.
* *Review*: warnings of a run are lost when its results come from the warm
  session; the cut-offs 85 and 90 never decide alone.

# 7. Not modelled, and why

`PROJECT.json` lists every group with its files.  What is left out is of four
kinds.

* *Predicates on source text*: the sentinel's visitors, the smell quantifier,
  leak and lifetime sentinels, the documentation rules, scanners, certifier,
  governor of instructions.  Each reads a tree or a text once and reports.  A
  model of such a rule would repeat it; the data abstraction this project uses
  begins where its verdict is given.
* *Arithmetic on floats*: context ranking by PageRank, rot scores, model routing
  by thresholds, leaderboards, embeddings.  TLA+ has no floats, and the checks
  that matter there are numeric.
* *Formatting*: SARIF, markdown, terminals, telemetry generators, ROADMAP
  emission, kanban; and the command lines.
* *Kernel and network*: generated BPF and seccomp policies, which the kernel
  interprets; GitHub and external registries; WebAssembly metering, which is two
  comparisons.

Two stateful remainders are small and judged by their callers' discipline: the
pull-request thread synchroniser reads an export that may be older than the
working tree (a moved line makes `CC001` find no function and report
`FIX_VERIFIED`), and the snapshot of upstream facts replaces good facts by an
error.  They read, decide and print once; nothing of theirs interacts with
itself.

The map covers about a tenth of the implementation's lines.  That is what the
kinds above leave: most of the repository is text predicates and reports.

# 8. Plan

Every invariant, action property and refinement that the passing runs check is
proved; liveness is model-checked.  What is left is breadth: the parts listed as
partly modelled in `PROJECT.json`, as far as they keep state.
