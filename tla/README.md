# Tavern Mnemosyne: verification project

Tavern Mnemosyne is a story-memory companion for SillyTavern: a loopback Node
service (`src/tavern-mnemosyne/src/`) that keeps, for every chat, a governed
history of the story, and a browser extension
(`src/tavern-mnemosyne/integrations/sillytavern-extension/`) that reports what
happens to the host chat and routes its generations through the service.  This
directory holds TLA+ models of the parts of it whose correctness depends on
the order in which things happen, the configurations that model-check them
with TLC, and proofs checked with TLAPS.

Paths below are relative to `src/tavern-mnemosyne/`.  `PROJECT.json` maps every
definition that models code to its lines, and lists the runs, the mutants that
show that each property can fail, the findings, the hazards and the theorems.

Contents: [inventory](#inventory), [hard behaviours](#hard-behaviours),
[modules](#modules), [runs](#runs), [fairness](#fairness), [proofs](#proofs),
[findings](#findings), [hazards](#hazards), [not modelled](#not-modelled),
[plan](#plan).

## Inventory

### The story's history (service)

| Component | State | Operations | Correct when |
|---|---|---|---|
| History ledger: `src/history/state-history.js`, `active-history-resolver.js` | SQLite tables `branch_epochs`, `turns`, `turn_candidates`, `patches`, `turn_memory_records`, `history_events` | commit a reply, activate and delete it by identity or by host coordinate, truncate and restore the branch | a turn has one active reply and the tables agree on it; a historical epoch is frozen; a new epoch inherits exactly the chosen prefix; a repeated command does nothing |
| Run kernel and run journal: `src/harness/run-kernel.js`, `run-journal.js` | a journal file per run; the transcript, the counts and the sealed prose of a call | `executeRootTurn`: begin or resume, retrieval, `story_commit`, `memory_write_turn_delta`, corrections, recovery | prose is sealed once; nothing enters the history unannounced; a completed run is in the history; what is pending is applied in the end |
| Chat write coordinator: `src/runtime/chat-write-coordinator.js` | a tail of promises per chat | run under the coordinator | writers of one chat exclude each other and all are served |
| Dynamic story projector: `src/history/dynamic-story-projector.js` | `derived/dynamic-world.json`, the OKF files of the chat | rebuild from the ledger | the projection says what the ledger says |
| Dynamic projection transaction: `src/storage/dynamic-projection-transaction.js` | its journal and stage directory | apply a rebuilt projection, reapply a staged one; readers refuse while a journal is there | a reader never sees a mixture |
| History lifecycle service: `src/host/history-lifecycle-service.js` | none of its own | the host's commands: activate, delete, truncate, restore, inspect; each with a rebuild | ledger and projection move together |
| Replay: `src/harness/branch-history-replay.js`, `root-run-replay.js`, `static-baseline-*.js` | the ledger and the files of another store | export a contract, verify it by simulation, apply it | what is applied is what was exported |
| Authority edits: `src/history/authority-edit-resolver.js`, `controlled-authority-edit.js` | ledger rows, proposals | resolve and apply an edit of a fact | an edit applies only to the authority it was made against |
| Typed turn delta, canonical concepts: `src/history/typed-turn-delta.js`, `canonical-dynamic-concept.js` | none | normalise a delta, make its files | a record stands only on evidence of the prose |

### Static Lore (service)

| Component | State | Operations | Correct when |
|---|---|---|---|
| Staged file transaction: `src/storage/staged-file-transaction.js` | `derived/static-lore-transaction.json`, its stage directory, the files of a projection | publish a snapshot with the ledger, recover what another writer left | a torn projection can be repaired, and is |
| Writer lock: `staged-file-transaction.js`, `dynamic-projection-transaction.js` | a lock directory with `owner.json` | acquire, take over a dead owner's lock, release | one live writer; a dead one keeps nobody out |
| Chat save store: `src/storage/chat-save-store.js` | manifest, baseline, ledger rows of snapshots, replay snapshots | initialize a chat, prepare and commit a snapshot, persist a replay snapshot | every step can be repeated after a crash |
| Fresh intake admission: `src/runtime/fresh-intake-admission.js` | the authority and the store marker beside the chat save | authorize an intake on the witness of a fresh chat, mark its directory, check both before each request and answer | one witness pays for one intake |
| Extraction: `src/intake/static-lore-extraction-service.js`, `static-lore-batch.js`, … | an intake session with its batches and settled source units | prepare, claim, ask, store, apply, correct, retry, recover, compile | a paid answer is used, and asked for once |
| Reconciliation: `src/intake/static-lore-intake.js` | plans and their approval | compile, show, confirm, publish | what replaces a world is a plan that the user saw |
| Coverage and removal of sources: `src/runtime/source-coverage-*.js`, `source-removal-grants.js`, `story-source-*.js` | certificates, grants, receipts | certify that memory covers a source, grant its removal from a prompt, verify the grant | a grant is good only for the snapshot that justified it |

### Serving and supervising

| Component | State | Operations | Correct when |
|---|---|---|---|
| Proxy server: `src/proxy/*.js` | active runs, provider budget | accept a generation, call the provider, stream | an unanswered run can be sent again under its run id |
| Continuity composer, memory reader, craft: `src/runtime/continuity-composer.js`, `src/memory/*.js`, `src/craft/*.js` | none | read ledger and projection, compose a prompt, answer reads in pages | all readers tell one memory |
| Companion supervisor: `src/runtime/companion-supervisor.js`, `main-runtime-*.js`, `distribution/server-plugin/index.mjs` | the target, the switch in flight, the configuration file, child processes | activate a profile, roll back, tear down | requests go to the verified runtime or nowhere; a failed switch leaves the old one |
| Bridge: `src/control/*.js` | cached capabilities | forward a control request, admit a transport binding | (routing) |
| Evaluation, inspection, acceptance: `src/evaluation`, `src/inspection`, `src/harness/md1-acceptance.js` | none | read-only views and offline scores | (data) |

### The extension

| Component | State | Operations | Correct when |
|---|---|---|---|
| History protocol: `index.js`, `runtime.js`, `history-invalidation-*.js`, `history-lifecycle-durable-store.js` | the guard and the checkpoint in the chat's metadata and in local storage; a queue per chat | on edits, deletions, swipes and chat changes: record a pending edit, truncate, persist the checkpoint, rebuild | no generation runs on a history that the host does not show; a command survives reload and lost answers |
| Generation: `index.js`, `send-coordinator.js`, `host-assembly-lease.js`, `root-transport-lease.js`, … | the current run, the send permit, the overlay over the host's settings | admit a send, measure and overlay the prompt, bind the run, settle | a bound request carries its own context; the host's settings come back |
| Connection lease: `upstream-connection-lease.js`, `main-runtime-profile-router.js` | the leased profile and its real url | capture, bind, restore, route | a forwarded request carries the key of its upstream |
| Provisioning: `provisioning-orchestrator.js`, `browser-folder-*.js`, `distribution/`, `src/runtime/companion-teardown.js` | four files of an installation, the note of a removal | install, resume, start, remove | the next start runs what was promised |

How they interact: the extension sends a generation with a run id and a run
scope (chat, branch, epoch, turn index, swipe) to the proxy, which calls
`executeRootTurn`; the kernel calls the model, seals the prose, and commits the
turn through the ledger and the projector under the coordinator.  The
extension sends host commands (activate, delete, truncate, restore) to the
lifecycle service, which runs them under the same coordinator.  The lifecycle
service, the composer and the memory reader read the ledger and the files of the
projection.  Static Lore intake writes other files of the same chat save under
its own writer lock.  The plugin of the SillyTavern server starts and replaces
the service and routes to it; the bootstrap of a server start installs what the
page has prepared.

## Hard behaviours

Where a test hardly reaches, and what the models are for (all of them are in
`PROJECT.json` under `hazards`, each at its line):

- **crashes between two stores.**  Files cannot be committed with SQLite: the
  staged transaction, the commit of a turn (artifact and concept files first, the
  ledger second), the run journal, the projection transaction, the durable guard
  beside the chat's metadata.
- **retries of what was done.**  A lost answer makes the extension repeat a
  command or a generation, with the same identity or a fresh one; a paid request
  is recovered instead of repeated.
- **coordinates that move.**  The host names a reply by its position in an
  array that it splices; the ledger names it by an identity and renumbers.
- **state read before an await and used after it.**  One page, one record and
  many asynchronous handlers; one session file and no lock; one profile that the
  user may change while a bind is under way.
- **processes that share a directory.**  Two runtimes of one installation take
  the same writer lock; a process may die anywhere in it.
- **queues.**  One coordinator per chat orders the writebacks of runs and the
  commands of the host; another in the page orders the handlers of edits.

## Modules

| Module | Models | Composes |
|---|---|---|
| `StateHistory` | the ledger of a chat | |
| `RootTurn` | kernel, journal, coordinator, commit, rebuild, truncation by the host | `Ledger == INSTANCE StateHistory` |
| `HistoryReplay` | replay of a history or of one run into another store | `EXTENDS StateHistory`, and a second instance of it as target |
| `BaselineReplay` | export and application of a Static Lore baseline | |
| `StagedFileTransaction` | publication and recovery of a Static Lore snapshot | |
| `WriterLock` | `acquireWriterLock` and `release`, system call by system call | |
| `DynamicProjection` | replacement and readers of the Dynamic Story projection | implements `AtomicProjection` |
| `AtomicProjection` | what that projection promises | |
| `StoryMemory` | what deltas become, and what projector, composer and reader say of them | |
| `MemoryPaging` | long memories in pages, cursors, a restart in between | |
| `PaidIntake` | the paid extraction, batch by batch | |
| `ActiveLore` | what a chat promises about its static lore | |
| `FreshIntake` | the admission of the first paid request of a chat | |
| `StaticReconcile` | plan, approval and publication of changed sources | implements `ActiveLore` |
| `SourceRemoval` | grants that take a source out of the prompt | `EXTENDS ActiveLore` |
| `RuntimeSwitch` | supervisor, children, routed target | |
| `ConnectionLease` | which upstream page, key and runtime stand for | |
| `Provisioning` | installation, removal and the starts in between | |
| `HistoryInvalidation` | the extension's guard, checkpoint and commands against the ledger | |
| `Generation` | the asynchronous handlers of a generation in one page | |
| `MC…` | instances for TLC; `MCStorage`, `MCCompanion`, `MCIntake` and `MCHistoryReplay` put components side by side that do not meet, each with its own start (see [runs](#runs)) | the modules each names |
| `…Proofs` | theorems (eight modules, see [proofs](#proofs)) | the module each names |

Definitions whose comment begins "Mutation of" or "Mutant of" are not part of a
model: each is the form that a plausible bug would give to the definition after
it, and `PROJECT.json` names the property that it breaks.  A few properties are
kept in the modules although no run checks them, because the code breaks them:
the table under [findings](#findings) lists them.

### StateHistory

Every table is a function from primary keys to rows, and a method of
`createStateHistory` is one action, because each is one `BEGIN IMMEDIATE …
COMMIT` transaction: `CommitTurn`, `ActivateCandidate`,
`ActivateCandidateByHostCoordinate`, `DeleteCandidate`,
`DeleteCandidateByHostCoordinate`, `TruncateBranch`, `RestoreBranch` and
`EnsureReplayRootBranch`.  A refusal rolls back and a repeated command returns
its stored result, so both are stuttering.  A turn id is a hash of chat, branch,
epoch and index and is modelled by the pair; one chat and one branch (`main`)
are modelled because every query is qualified by both.  `Segments`,
`HostCoordinates` and `MemoryRows` are the queries of the resolver by which
the code reads a branch; `Segments` is the visible prefix of an epoch through
its ancestors, as a recursive function so that it can be proved about.  Bodies,
records and their merging are abstract, except the opening and closing of one
plot thread, on which `commitTurn` depends.

### RootTurn

A run has a `journal` (disk) and an `attempt` (the locals of one call of
`executeRootTurn`).  `Begin`, `Resume` and `Recover` enter it; `Retrieve`,
`RejectCall`, `BreakProtocol`, `StoryCommit`, `WriteTurnDelta`, `RefuseDelta`
and `Abandon` are what one answer of the model leads to; the writeback is
`WriteCommitFiles`, `CommitLedger` (or `CommitExisting`, `RejectDelta`,
`ConceptConflict`, `CommitFails`), `Activate`, `RebuildProjection` and
`Complete`, with the failures of each, and `Correct`, `GiveUp` and
`CheckpointFails` after an error.  A delta is what matters for its fate: it has
records only, it has a record that is a canonical concept file as well, or
`commitTurn` refuses it for a reason the model may correct.  The host
truncates the branch under the same coordinator (`HostSend`, `HostTruncate`,
`HostRebuild`).  `Crash` forgets every attempt and the queue.  `Overlapping`
chooses between two worlds: runs beside each other anywhere in the chat (what
the service accepts) or one at a time at the end of the chat (what the extension
does).

### StagedFileTransaction, WriterLock, DynamicProjection

`StagedFileTransaction`: the disk is `files`, `journal` and `stage`; the ledger
is `active`.  A request (`Writer`) acquires the lock, recovers what it finds
(`RecoverJournal`, `RecoveryRefused`), plans a snapshot without the lock as
`applyExtraction` does, acquires the lock again, stages copies, writes the
journal, installs file by file, validates, commits the ledger and cleans up.
`TransactionFails` is the `catch` of `runStagedFileTransaction`, which asks the
ledger which way to go; `RequestFails` is a failure elsewhere, and `Crash` the
death of the process.  The `catch` may be unable to read the ledger and then takes it
for one in which nothing was ever active (`LedgerReading`); when the transaction was the
first, it undoes what is already committed, and `misread` remembers that until the next
commit.

`WriterLock`: the lock directory is a location with an owner file, and a
candidate directory is renamed onto it.  One action is one system call:
`RenameCandidate`, `ReadOwner`, `JudgeStale` (`process.kill(pid, 0)`),
`MoveStaleLock`, `CheckOwner`, `RemoveOwnerFile`, `RemoveDirectory`.  A process
that dies leaves the lock at the point it had reached, and comes back as another
incarnation.

`DynamicProjection`: builders (the turn under the coordinator, and composers that
rebase a turn-zero world outside of it) read the ledger, take the lock, write the
journal, stage, apply one file at a time with the world last, validate and remove
the journal; `commitTurn` and the Static Lore intake write concept files of their
own; a reader looks at the journal once and then at world and bundle.  A hash is
what it is the hash of.  `RowsOf` and `PlanOf` are the ledger as the projector reads
it; the lock is one variable, because `WriterLock` models how it is taken.

### StoryMemory, MemoryPaging

`StoryMemory`: a delta is a set of typed records with their evidence; `Commit`
keeps those that stand (`typed-turn-delta.js`), `Rebuild` publishes the Dynamic
World and the concept files, `PublishLore` and `RebaseAtZero` are an intake and the
rebase of a turn-zero world, `Truncate` the host's cut.  The composer, the reader
of `memory_search` and `memory_read` and the projector each have operators of their
own, translated from their own code, and `MemoryIsWhole` compares the three.
`MemoryPaging`: a text is a length and a page an interval of it; `Read` is one
`memory_read` with its binary search for the longest page that fits, its omissions
and its signed cursors, `Reject` a refused one, `Restart`/`Resume` a process that
dies and makes the set of due cursors again from the journal, `Change` an intake.

### PaidIntake, FreshIntake, StaticReconcile, ActiveLore, SourceRemoval

`PaidIntake`: an endpoint is a call of a tab that reads the session file, changes
its copy and writes the whole file back; `call[t]` is the copy with the place where
the handler waits.  `Asks` are the entries, `Works` the steps after each await, `Faulty` a
write or an upstream that fails; `paid` counts what the upstream was asked for.
`lost` records that a write fell upon another: without a lock the code can promise
nothing after that, so the property speaks of the time before.
`FreshIntake`: a request is a process that asks the guard, makes the directory and the
session, marks the directory, pays and keeps the answer, each check of the guard a step; the
disk is the authority, the marker, the directory of the chat and what became of the files that
the witness names.  The runtime starts with the guard or without, and the user may go on with
the chat, write the card, replace or put back directories between any two steps.
`StaticReconcile`: pages send, edit, drive and compile; the companion plans, waits
for a confirmation, stages, installs and commits, and its reconcile of what a dead
process left is part of the next call.  `ActiveLore` says in five actions what that
must look like to the chat.  `SourceRemoval` composes `ActiveLore` with the requests
for grants of several runs, unit by unit, the certificates in the registry and the
verification on the way out.

### RuntimeSwitch, ConnectionLease, Provisioning

`RuntimeSwitch`: the plugin knows a runtime by three names (the routed target, the
child that a stop would stop, the url that the last start reported), and each await
of `activate` that needs the outside world is a step; children send `ready` and
`exit` when they like, are killed after a timeout, and requests hold a target across
a switch.  `ConnectionLease`: two tasks of a page (a held send and the provisioning
card) interleave with the user's selections and with other pages.  `Provisioning`:
the page writes four files through a directory handle and promises that a restart
brings the runtime; `ServerStep` are the starts, the bootstrap and the removal,
`UserStep` what the user may do between any two of them.

### HistoryInvalidation, Generation

`HistoryInvalidation`: the chat of the host, the page's snapshot, the durable guard
with one truncation command, the checkpoint, the queue of handlers, the companion
with a ledger of one line of epochs, lost answers and reloads.
`Generation`: every handler of `index.js` that the host calls while it assembles a
prompt, as a process over one shared record (`page`), with a step for each await;
`view[g]` is what the closure of generation `g` remembers and what leaves with its
request.

### HistoryReplay, BaselineReplay

`HistoryReplay` exports the log of a ledger, simulates it to verify it, and applies
it to a second instance of `StateHistory`, one transaction a step, with crashes and a
second presentation.  `BaselineReplay` seals and exports the baseline of one store
while intakes of the same chat run, fail and die, and applies the package to another.

## Runs

`tlc -workers 2 -config X.cfg M` in this directory.  A run whose module puts
several components side by side starts with a choice (`shape`) of the one that
moves, so its graph is the union of theirs; what two components share is modelled
where they meet (`RootTurn` over `StateHistory`, `SourceRemoval` over `ActiveLore`,
`HistoryReplay` over two ledgers, `DynamicProjection` over its own ledger and lore),
never by running them beside one another.

| Run | Bounds | States (depth) | Shows |
|---|---|---|---|
| `ledger` | 3 candidates, 3 commands, 2 user messages; either one turn with three swipes or two turns over three epochs | 307 443 (11) | one active reply a turn and tables that agree; a swipe deletion is the host's splice; a new epoch inherits exactly the prefix |
| `storage`, files | 3 files, 2 snapshots, 2 requests, 2 crashes or failed steps | 606 212 (55) for the five shapes | a torn projection always has a usable journal and is repaired, unless a `catch` that cannot read the ledger undoes a first commit |
| `storage`, lock | 2 processes, 3 attempts, 2 deaths each | | the rename excludes until a lock is moved away |
| `storage`, memory | 3 turns, 2 epochs, 2 intakes, 13 deltas | | payload, reads, projection and files tell one memory; who is due or asked for has a seat |
| `storage`, paging | memories of 5 and 2 codepoints, 2 budgets, 3 reads, 1 correction, 1 change, 1 restart | | pages join and end; a run taken over asks for the same continuations |
| `storage`, installation | 2 builds, 2 profiles, 2 attempts, 4 changes by the user or the server, 1 failed write | | the next start runs what was promised, if nothing disturbed the promise |
| `companion`, turn | 1 run, 2 proses, 3 deltas, 4 tool calls, 1 correction, 3 faults, 2 epochs | 272 459 (47) for the three shapes | write-ahead, completed means committed, projection and ledger agree or a recovery is pending, sealed prose, recovery completes |
| `companion`, switch | 2 profiles, 5 runtimes, 1 request, 2 faults | | only verified runtimes are reached, no runtime escapes, only older requests are cut, every activation ends |
| `companion`, connection | 2 profiles, 2 models, 3 runtimes, 6 steps of the user, other pages and the card | | a forwarded request carries the key of its upstream |
| `history_replay` | 3 ids, logs of 4 operations, 2 presentations, 2 epochs; a baseline of 2 Concepts, 2 intakes of the source and 1 of the target, 1 fault | 195 496 (117) | simulation and ledger agree, replays succeed, what is applied is the baseline |
| `source_removal` | 2 sources, 2 units, 2 parts of the prompt, 2 runs, 2 publications, 1 patch | 2 874 083 (47) | what left the prompt was readable; only disturbed requests are refused |
| `intake` | 2 tabs, 1 batch of 2 rounds, 2 attempts, 1 fault; 2 pages, 2 sources, 4 entities, 5 events; 2 requests, 2 sources, 2 directories, 2 changes of files | 559 117 (91) | one witness pays for one intake; an id is paid once and stays on record; published worlds replace one another whole and as shown |
| `history_protocol` | 2 texts, chats of 5, 4 epochs, 2 edits, 2 sends, 1 fault, 4 of the three together; edits and sends at every await | 1 320 729 (74) | but for the windows named [below](#findings): the checkpoint vouches for no message the ledger saw differently, no guard is dropped early, no command is doomed, no generation leaves over a guard; every send is answered |
| `dynamic_projection` | 2 turns, 2 epochs, 1 intake, 1 composer, 1 fault | 584 799 (93) | readers see whole projections, accepted means asked for, ready means published, pending is published |
| `generation` | 2 sends, 1 dry run, 1 fault | 2 387 414 (42) | the window has an owner, a bound request carries its own trace and every isolated source |

Violation runs (`intake_approval`, `generation_refusal`, `projection_order`) are
described under [findings](#findings).

Why the bounds are enough for the cases that matter: three candidates let a
turn have a shown reply, a fallback and a third that is renumbered; three commands
allow a command, its repetition and an interfering one; three epochs nest two
cutoffs, and the theorem carries the inheritance to every depth.  Three files make a
transaction that writes, replaces and removes; with two faults a recovery is
itself interrupted.  Two deaths of each process let it die in an acquisition and
again in the takeover.  One run with three faults reaches every pair of
interruptions of a writeback and of its recovery, and a truncation before, between
and after; the proofs of `RootTurn` are for any number of runs.  Three turns and
three plot threads over two seats crowd the lane.  Five runtimes are an activation,
its rollback, a retry and a restart of the plugin.  Two tabs with one fault overlap
at each await, and a second batch adds only repetition; `NothingLost` cuts the
behaviours off where a write has fallen upon another, after which the property of
`PaidIntake` says nothing.  A chat of five messages has a greeting and two exchanges,
so that an edit can lie before, in and after a turn that is being generated; two edits, two
sends and a fault reach each window that the properties of `HistoryInvalidation` name, and
`MaxTotal` leaves out only the behaviours that use all five.  Two
sends and one dry run overlap at every await; the proofs are for any number.  Larger
instances were checked once without a violation: `StateHistory` with four epochs
(485 561), two runs of `RootTurn` (117 058), `StoryMemory` with 17 deltas (162 017),
`MemoryPaging` with four budgets (381 278), `PaidIntake` with 2 tabs, 2
batches and 2 attempts (7 335 962), `StaticReconcile` with more events (7 827 438),
`HistoryReplay` with five operations (617 338), `BaselineReplay` with one applier and
two faults (1 181 759), `SourceRemoval` (9.1 million).

Symmetry is used only in runs without liveness properties.  Deadlock is not checked:
in every model something is used up in the end (candidates, commands, faults, the
steps of the user), and a system with nothing left to do may stop; that it does not stop
too early is what the liveness properties say.

## Fairness

- `StagedFileTransaction`: whoever holds the lock takes its next step, and requests
  keep coming (a person whose intake failed asks again).  Both weakly.
- `RootTurn`: the process continues what it started (promises settle), a run
  whose writeback is pending is sent again, and the host repeats a truncation that
  failed.  The service states the second in its answer
  (`recovery_policy: 'retry_same_run_id'`, `src/proxy/server.js:3202` and `3209`).
  The extension itself makes a fresh run id for every generation (`index.js:3412`),
  so the recovery is the client's promise and not the extension's deed.  The calls of
  the model are not fair: a model may never answer.
- `RuntimeSwitch`: the supervisor continues (each await has a timeout in the code), and
  each child in the end sends the event that is due.  Requests and activations are not fair.
- `HistoryInvalidation`: the host, the queue of the page and the companion continue;
  the user, the faults and reloads are not fair.
- `DynamicProjection`: the turn and each composer continue; the recovery of a pending
  turn is requested again and again until it gets through (strong fairness, because
  other work makes it wait in between).

Failures and crashes are never fair and are bounded by the constants named for them.
The other runs check safety only and assume none.

## Proofs

The theorems hold for all values of the constants that satisfy the named
assumptions of the modules (bounds are naturals, `None` and the like are no
values of the sets they stand beside); nothing else is assumed but what is said
below.  TLC checked every inductive invariant on an instance before it was proved.

| Module | Theorems, with the property of a run they state | Hypotheses |
|---|---|---|
| `StateHistoryProofs` | `TypeCorrect`, `OneReply` (`RepliesAgree`), `InheritsPrefix` (`NewEpochInheritsPrefix`), `DeletionSplices` (`SwipeDeletionIsSplice`), `EpochsOrdered`, `DeletedOnce`, `Frozen` | |
| `RootTurnProofs` | `TypeCorrect`, `HistoryIsAnnounced` (`WriteAhead`), `CompletedStays` (`CompletedIsCommitted`), `ProseSealed` (`SealedProseKept`), `WorldSaysLedger` (`WorldMatchesLedger`), `WriterHolds`, `ImplementsLedger` | |
| `StorageProofs` | `TypeCorrect`, `Recoverable` (`TornIsRecoverable`), `FilesBeforeLedger`, `LockTypes`, `LockExcludes` (`ExclusiveUntilTakeover`), `ProvisionTypes`, `PromiseHolds` (`PromiseKept`) | only the assumptions of the modules |
| `CompanionProofs` | `ConnectionTypes`, `KeyFits` (`KeyFitsUpstream`), `TypeCorrect`, `OnlyKnownRuntimes` (`RuntimesAreKnown`), `CutsOnlyEarlier` (`OnlyEarlierRequestsAreCut`), `WindowHasOwner` (`OverlayHasOwner`), `BoundCarriesItsTrace` (`TraceFitsPayload`), `BoundHasItsSources` (`SourcesComeBack`) | third to fifth: bounds are naturals; the last three: `None` is neither a lease nor a fate |
| `LoreProofs` | `RemovalSteady`, `RemovedReadable` (`RemovedWasReadable`), `OnlyDisturbedRefused` (`OnlyDisturbedAsksAreRefused`), `BaselineInvariant`, `BaselineApplied` (`AppliedIsTheBaseline`) | |
| `DynamicProjectionProofs` | `TypeCorrect`, `TornHidden`, `AcceptsHistory` (`AcceptedIsHistory`), `PublishesHead` (`PublishedIsHead`), `ImplementsAtomic` (`ReadersSeeWholeProjections`) | |
| `IntakeProofs` | `PaidOnceAndKnown` (`PaidIsAccounted`), `AdmissionTypes`, `OneIntake` (`OneFreshIntake`), `ReconcileInvariant`, `Publications` (`PublishesWhole`), `AppliedPlans` (`AppliedWasShown`) | |
| `HistoryInvalidationProofs` | `HistoryInvariant`, `NoneUnderGuard` (`NoGenerationUnderGuard`), `SettledIsTrimmed` (`SettledMeansTrimmed`), `GuardsCommandApplies` (`CommandStillApplies`) | only the assumptions of the module |

**StateHistoryProofs.**  `IInv` is `TypeOK`, `OneActiveReply`, `TablesAgree`,
`OneActiveEpoch`, `AncestryWellFounded`, `HeadCoversTurns` and `DeletionsAccounted`: a
reply stays active only because the tables agree on which one is, the next epoch is free
only because the active one is the latest, and the head bounds a restoration only because
every turn is below it.  There is one lemma per operation; the two deletions share
`DeleteStep`, the two ways to open an epoch share `OpenEpochStep`.
`InheritsPrefix` is about what the recursion `SegmentsIn` over the ancestors computes.
The induction schemes of the library take an operator as parameter and cannot be used, so
the induction is written out in first order: if the claim failed for an epoch, there would be a least
such epoch (`LeastNatural`, from the well-foundedness of `<` on the naturals), and its
parent, which is smaller (`AncestryWellFounded`), gives the contradiction.  That way are
proved that the visible parts of an epoch unfold (`SegmentsUnfold`, `WithinUnfold`), that a
part is a prefix (`PartIsPrefix`), and that what a step adds leaves every older epoch
showing the same (`KeptRowsShowTheSame`).  `DeletionSplices` rests on `CloseRanks`: the
renumbering keeps the remaining swipes in their order and without a gap.

**RootTurnProofs.**  `ImplementsLedger` is `Spec => Ledger!Spec`: every step of the root
turn is one operation of the ledger with arguments that it expects, or leaves it alone.
So the invariant of the ledger is a conjunct of the invariant here and is preserved by
the lemma of `StateHistoryProofs`.  The rest says of each run separately how its
journal, its call, its artifact and its rows fit together at each phase (`JournalInv`,
`AttemptInv`, `WritebackInv`, `CommittedInv`): `WriteAhead` alone is not inductive, because
a step of the writeback looks only at the phase, and what the phase means must be known.
A step of one run leaves the rows of another alone (`OtherRun`), which is why any number of
runs may be beside one another, with crashes, failures and truncations.

That the projection tells the ledger's history needs a second invariant, `WorldInv`, on top of
the first.  `WorldNamed`: the projection names an epoch that the ledger has.  `HostLeads`: the
epoch that the host's command opened is the one it rebuilds.  `WorldSays`: the rows of the
projection are those of the ledger, or a run is `Unsettled`, which is stronger than
`WorldMatchesLedger`: it is committed, its delta is pending, and it has not rebuilt since.  Each
run that changes the tables is then unsettled and stays so until it rebuilds; a truncation, the
only change that no run makes, shows the same of every older epoch (`TruncationKeeps`, from
`KeptRowsShowTheSame` of `StateHistoryProofs`).

**StorageProofs** (`StagedFileTransaction`, `WriterLock`, `Provisioning`).
`TornIsRecoverable` says nothing of a journal while the disk is whole; the invariant adds
that the disk is always between the two projections of the journal, that the ledger is at
one of its ends, what the owner has staged and installed at each phase, and that nobody
works without the lock.  `FilesBeforeLedger` (`LedgerFollowsFiles`: the ledger moves to a
snapshot only when all its files are there) follows from it.  No theorem assumes that the
ledger can be read: the invariant is in two parts, of which the second (`FaithfulInv`, and the
`~ misread` of `InstallInv` and `FinishInv`) is given up when a `catch` takes "unreadable" for
"not committed" and regained with the next commit; the first is enough for the types and for
`FilesBeforeLedger`, which hold after that too.
Until a takeover the owner file of the lock names whoever is inside and whoever is about to
remove it (`LockInv`); a process that is dead or in the loop has not used up its lives or
attempts (`CountInv`).  After a takeover the exclusion is lost, by a race the table below
names.
`PromiseKept` speaks of the moment a server is up; what was promised must be followed from
the first write on.  `AttemptInv`: an installation that nothing disturbed finds on disk what
it has written so far (`WrittenSoFar`), one file more at each phase.  While a promise stands,
the four files honour it (`Honours`), and a server that is fetching keeps to what it owed
when it started (`ServerInv`).  Each thing that the user or a removal does either touches none
of the four files or withdraws the promise; that is why the list of disturbances in
`PromiseKept` is complete.

**CompanionProofs** (`ConnectionLease`, `RuntimeSwitch`, `Generation`).  The key is attached by
the lease and the upstream was chosen when the runtime was started, so the two are compared
through what lies between.  `UrlInv`: a real url is only found with its own profile;
`HonestInv`: whatever names a real url (the stored target, what a task wants, the runtimes that
were started) names the model saved with it; `ModelInv`: the model that a send is held to is
that of the runtime of its run or of the one the host would talk to; `StartedInv` and `TaskInv`:
a runtime that is named was started. What was saved with another's model (`mixed`) ends the
argument, and the property with it. In the switch the invariant says what the supervisor may
rely on between two of its steps: `Numbered`, `Down` (a dead plugin knows nothing), `Phases`
(which names it holds in which phase), `Staged`, `Served`, `Closing` (the stop it awaits is of
the only child on its way down), `Gone`, `Known` (an exit event is of the child it has or of the
one it waits for, as long as none was killed), `Early`. In a generation the window is a matter
of the shared record alone: every operator that rewrites the record keeps it sound, whatever the
generations were doing.  What leaves is a matter of one generation at a time: nobody else writes
to its prompt, to its closure or to the fate of its request.

**DynamicProjectionProofs.**  The journal hides a projection that is half written, so the
invariant says who may remove it and when: only the owner of the lock, and only while the
world that it has validated is still whole.  Its conjuncts are `Committed` (only committed
turns are named), `Announced` (what a journal says of the files and who owns it), whole
without a journal, for each builder `Carries` and `Covers` (what it has staged, applied and
validated), `Owners`, `Readied` and `Compared` (what a request has compared with the ledger
stays true, because the rows up to a turn of an epoch never change).  `ImplementsAtomic` is the
refinement: `AtomicProjection` with `seen` the answer to a reader; each file operation hides,
publishes, writes beside, or is invisible.

**IntakeProofs** (`PaidIntake`, `FreshIntake`, `StaticReconcile`).  Nothing guards the session
file, so the argument is about copies: a call that is about to write has a copy in which every
id of the file still has its place, unless somebody wrote in between; and a call that is about
to record a dispatch found its id nowhere in the file. The admission is guarded by two files
that are never replaced.  The marker is the one that holds it together (`PassInv`): a request
that may pay, or has paid, has the marker of its own source and directory, and so has every
bill.  The authority alone does not: it can be lost, and another source can be authorized beside
the marker of the first. The reconciliation (`ReconcileIInv`) has two halves.  The request that
holds the writer lock is the only one that writes the journal, the runtime world and the active
world, so its step says how they stand to each other (`PublishInv`), and when it is gone the
journal says it (`JournalInv`): recovery always ends with the world that the ledger names.
Everything else is written by anybody at any time; of it the argument needs only what no
overwriting can spoil: a stored plan goes from one state of the sources to another, and whatever
was approved had been shown (`StoredInv`, `PagesInv`, `Founded`).  `Publications` is the
refinement of `ActiveLore`: staging, installing, committing and settling are its actions, a
recovery is its `Settle` or its `Restore`, and every other step leaves its variables alone.

**LoreProofs** (`SourceRemoval`, `BaselineReplay`).  A certificate may be of any age: another run wrote it, under another
snapshot or before a turn changed the memory.  So the argument never asks where an entry of
the registry comes from.  While a request is handled, every view is noted when it is first
whole, with the units that can be read then, and the memory only loses records (`Noting`);
a unit that is found now was therefore readable when its view was noted (`Witnessed`), and
one projection for all certificates is one view (`OneViewForAll`, from the cardinality of a
finite set).  What nobody disturbs keeps the view and the registry it began with (`Calmly`):
no step of a publication can follow while nothing is staged, and a run that writes disturbs
the others; so each unit that the memory owns is found or certified, and what was just
certified is found again.  The assumption that a prompt has author sources and that each of
them selects a unit is what `resolvePromptFingerprintSourceUnits` refuses otherwise
(`source-coverage-registry.js:517-527`, `588-594`); without it an empty grant would have no
view.
The portable baseline crosses two stores, and nothing but the package connects them, so
`BaselineIInv` has a half for each.  The seal takes no lock, and its files may belong to
different intakes.  But it looks at the ledger last (`LedgerIsLast`), and the ledger calls a
World ready only if it is the text of the intake that is active: a World that was sealed as ready,
with the rows of the initial intake alive, is the World of the initial intake (`SealedWorld`);
its Concepts are compared with the versions, and the package must have all of them
(`SealInv`).  In the target only a commit moves the baseline (`OnlyCommitMoves`).  Before the
first one no Concept is there, except those that a transaction is writing, and their `before`
is absent, so a rollback takes them away again, whoever dies when (`EmptyOK`); a plan that
leads to the initial intake is that of a verified package and names its files exactly
(`ReplayOK`, `OnlyVerified`).  The target's own intake competes with the appliers for the
same lock, and the argument needs that the transaction looks under the lock once more whether
a baseline became active (`BeginReplay`), and takes its copies after that.
`BaselineAssumption` asks for two intakes or more, because the last one is the target's own,
and that no Concept has the name of another file.

**HistoryInvalidationProofs.**  Three parties know the same history at different times, and
`HistoryIInv` says what each may assume of the others.  `SyncInv`: once compared, the durable
records and the page's metadata agree, and what was saved is what the page has, except inside a
save.  The user edits and sends at every await, so a gate may have handlers before and behind it.
`AdmissionInv`: a gate that no edit came behind (`gen.late` is false) is the last of the queue,
and admits with nothing queued and no guard anywhere.  `ClearInv` follows such a generation up to
its request: whatever is queued until then is an edit, the truncation of this regeneration or the
one deletion that it suppresses, and a guard stands only in the hands of an edit's handler.  A
later edit therefore either revokes the generation or is still being recorded when the request
leaves, which is what `NoGenerationUnderGuard` says; a deletion changes the length that the
binding expects.  `EpochsInv` and `CommandsInv`: nobody names an epoch that the ledger has not
reached, and commands are numbered.  `GuardInv`: a guard whose command was answered stands over
a ledger that holds nothing from its cutoff on (`Cut`), and no companion run can add to it,
because each carries an older epoch and none is bound while the guard stands; generations that
left under a guard (`"early"`) are outside of this, as they are outside of
`SettledMeansTrimmed`.  `PageKnows`: unless a regeneration truncated under a guard or its answer
was lost, a command that is under way is the guard's or the one that a regeneration waits for,
the guard's command names the epoch that is active, and without a guard the page knows that
epoch.  Only `Resolve` drops a guard (`OnlySettlingDrops`); each other handler is shown to keep
it (`GuardKept`).  `MaxLen >= 1` because a chat begins with its greeting; `NoneAssumption` says
that null is none of the records.

Only model-checked, and why:

- Liveness (`TornIsRepaired`, `RecoveryCompletes`, `SwitchEnds`, `SendsAreAnswered`,
  `PendingIsPublished`): out of the prover's reach.
- `MemoryIsWhole`, `NothingIsCrowdedOut`, `ReadingGoesOn`, `OperationsDeriveRows` and
  `ReplaysSucceed` compare what several programs compute from one list; their content is
  data, and folds over sequences have no first-order induction that would be shorter than
  the code.
- `CheckpointVouches` compares the messages of the checkpoint with those that every turn of the
  ledger was generated from, through every comparison of two histories in the page; it is
  provable in principle, and comes first in the [plan](#plan).

## Findings

Each of the three is a run that TLC ends with a behaviour of the code that contradicts what
the code says of itself; the traces are short enough to read.

| Run | What happens |
|---|---|
| `intake_approval` | a second send confirms the plan that the first one has shown, although the page tells the user to press a button (`index.js:5051`, against `4792-4793`) |
| `generation_refusal` | two sends are in the gates; the one that is admitted wipes the refusal of the other, which can leave unmarked (`index.js:3371`, against `501-505`) |
| `projection_order` | projector and composer sort the state differently, so a projection made from the active history is refused as not matching it (`continuity-composer.js:291`, `171-173`; `dynamic-story-projector.js:442-446`) |

Claims that a doc, a comment or a message makes, or that a reader would expect, and
that the model refutes.  They are definitions of the modules, with the place in
their comment; no run checks them.

| Module: definition | How it fails |
|---|---|
| `StagedFileTransaction`: `RecoveryFindsStaging` | `cleanupJournal` removes the copies before the journal; a crash between the two leaves a journal that every recovery and intake refuses |
| `StagedFileTransaction`: `RuntimeWorldMatchesLedger` | a `catch` that cannot read the ledger undoes the files of a first transaction that the ledger has committed (`staged-file-transaction.js:494`, `508-521`) |
| `WriterLock`: `OneActiveWriter` | who finds a lock being released judges it stale, and moves away the lock that another process has taken since |
| `RootTurn`: `RecoveryIsPossible` | a crash between the concept file and the ledger commit makes every recovery fail with `dynamic_okf_path_conflict`, because the file holds the time of the commit (`state-history.js:587`) |
| `RootTurn`: `CoordinatesUnique` | a generation repeated under a fresh run id puts two live replies at one host coordinate, and activation refuses both |
| `RootTurn`: `CoordinateNamesItsRun` | the run that opened a turn is returned beside the body of another swipe, so the recovery anchor of a swiped turn is never found |
| `HistoryReplay`: `OperationsDeriveTimes` | a replayed history differs in the times at which replies were shown (`branch-history-replay.js:1113-1121`, `1171-1179`) |
| `BaselineReplay`: `RegistryIsOfTheBaseline` | the text of the attribute registry is sealed and never compared with the recipe's definitions |
| `BaselineReplay`: `RefusedOnlyIfOccupied` | an apply that died half way refuses every later one (`static-baseline-replay.js:1046-1065`, `chat-save-store.js:88-94`) |
| `BaselineReplay`: `MismatchIsReal` | the row of an intake that was prepared and failed is reported as a mismatch |
| `SourceRemoval`: `AdmissionRevalidates` | the grants are compared with the ledger, the versions and the view are not looked at again (`story-source-admission-runtime.js:298-302`) |
| `StaticReconcile`: `ConfirmedApplies` | a plan that the user confirmed can stop applying although sources and memory stayed: another compile has written its own plan over the stored one, or another state was published in between |
| `StaticReconcile`: `MemoryIsSafe` | a world is replaced although a turn has changed the memory, between the check and the commit |
| `PaidIntake`: `NeverStrands` | with two failed writes the failure record of an artifact that could not be stored cannot be stored either, and every prepare refuses until a restart (`static-lore-extraction-service.js:4765-4767`) |
| `MemoryPaging`: `RefusedOnlyIfNothingFits`, `EveryRefIsAccounted`, `CutPagesAreDue` | the search for a page is not monotone at the end of a memory (`bounded-memory-read.js:395-438`); an omission that does not fit is dropped (`441-457`); a cursor whose memory was omitted is taken off the list (`run-kernel.js:1572-1574`) |
| `ConnectionLease`: `RealUrlsAreKept`, `LeaseIsUpstream` | a bind that ends after another profile was selected makes the runtime's url live for it; saved, it is that profile's, and a dead runtime can be leased as an upstream |
| `Generation`: `FencesComeBack`, `WindowRestored` | a late `onSettingsReady` nulls the fence lease of another prompt; a stopped send enlarges the window for a run that does not restore it |
| `Provisioning`: `OffStaysOff`, `EditsSurvive`, `RemovesOnlyUninstalled`, `NextStartActs` | the card's poll settles although switched off; `config.yaml` is compared before three more writes; the removal does not look again after its wait; the note of a removal needs a binding that is removed with it |

`KeyFitsUpstream` holds as long as no profile was given the model of another by such a
late bind; without that condition it fails too.

The user edits the chat while the page awaits something, and four claims of `HistoryInvalidation`
hold only outside of a window that their definitions name:

- `NoGenerationUnderGuard`: an edit made while the gate waits, or after it has answered, has a
  handler that runs behind the gate.  `onGenerationStarted` clears `blockReason` (`index.js:3419`)
  and sets the marker anew, so what the handler revoked is allowed again (`gen.late`).  And the
  handler of an edit first writes its guard and revokes the generation later
  (`3854-3941`); a request can leave between the two.
- `CheckpointVouches`: `onHostMessageSent` (`4028`), `onHostMessageReceived` (`4038`, `4070`) and
  the settling of a guard (`2380-2396`) take the chat as it is, with edits whose handlers still
  wait.  Those then find nothing that differs, and the checkpoint keeps a text that the ledger
  never saw.  The same happens when a handler gives up before it compared, because the chat has
  changed length again (`runtime.js:917-925`), and when a generation is bound to such a chat (`"edit"` in `lost`).
- `SettledMeansTrimmed`: the reply of a generation that left under a guard may be committed behind
  the cut (`"early"`).
- `CommandStillApplies`: a regeneration whose gate an edit came behind truncates with a command of
  its own while the guard of that edit stands (`3519-3553`), so the guard's command names an epoch
  that is gone (`"cut"`, as when its answer is lost).

Others are behaviours of the models that no property forbids, because the code
makes no promise about them:

- `RootTurn`: a failure before the announcing checkpoint leaves sealed prose that no request
  can resume (`RefuseDelta`, `GiveUp`).
- `HistoryInvalidation`: a crash between the durable write and `saveMetadata` ends in
  `history_durable_state_conflict` for good; the lost answer of a regenerate's truncation
  ends in an epoch conflict (`3519-3554`); a reply that is committed and never shown is an
  orphan turn; a deletion between a reply and its checkpoint is unnoticed after a reload.
- `StoryMemory`: after an intake at a later turn every composition is refused
  (`dynamic_world_bundle_superseded`, `continuity-composer.js:306-333`) until a truncation
  rebuilds; a turn-zero rebase between the commit of turn 1 and its projection removes that turn's
  concept file (`333-352`); `includes(thread_ref)` (`obligation-spotlight.js:85`) matches longer
  references; a rejected `memory_search` event makes the spotlight degrade (`215-233`).
- `StaticReconcile`: `autoRunStaticLoreIntake` can answer `complete` when the intake
  returned early.
- `Generation`: a send can leave with neither binding nor marker, and two requests can
  leave bound under one run.
- `DynamicProjection`: a crash in a rebase leaves a journal that nobody must end.
- `FreshIntake`: a request that ends between `initializeChat` and `markStoreInitialized` leaves a
  directory without a marker, and every later request is refused with
  `fresh_intake_store_lifecycle_drift` (`fresh-intake-admission.js:994`); if the state file is lost
  beside its marker, another source is authorized and can never be marked; a host that may go on
  with the chat is told `ready` while `authorize` refuses the chat.

## Hazards

`PROJECT.json` lists forty, each with a property.  Known and not listed there:

- proved, so that no run repeats them: a request that names a historical epoch
  (`state-history.js:1845`, theorem `Frozen`), the head of a new epoch (`2924`,
  `EpochsOrdered`), a deletion that is retried (`2484`, `DeletedOnce`), corrections of a run
  that is resumed again and again (`run-kernel.js:1150`, `TypeCorrect` of `RootTurnProofs`);
- covered by the properties of a listed neighbour: the four updates of a selection
  (`state-history.js:2111`), the plan made without the lock and the failures around its commit
  (`staged-file-transaction.js:453`, `483`), readers without a lock (`static-lore-intake.js:1420`),
  a rebuild that fails (`run-kernel.js:1012`), a
  projection rebuilt after re-intakes (`dynamic-story-projector.js:834`), prose sealed twice (`1662`), a correctable delta
  that is pending at a crash (`1019`), a replay presented again (`root-run-replay.js:900`), two
  pages over one session (`index.js:5055`), an edit merged into a guard and a guard that
  persists after it truncates (`index.js:2383`, `history-invalidation-guard.js:265`), a staged
  journal finished late (`dynamic-projection-transaction.js:590`), a rollback that fails and a
  plugin that dies between (`companion-supervisor.js:155`, `221`), answers that never come
  (`distribution/server-plugin/index.mjs:198`), two completions of one capability and a prepare
  in the middle of a response (`static-lore-extraction-service.js:3987`, `2739`), contexts that
  come late and dry runs between (`index.js:2405`, `runtime.js:2209`), the overlay and others'
  settings (`host-assembly-lease.js:188`), the key of a held send
  (`upstream-connection-lease.js:430`);
- with a claim that fails, in the table above: `staged-file-transaction.js:246` and `494`,
  `state-history.js:1226` and `615`, `static-lore-extraction-service.js:4767`,
  `bounded-memory-read.js:395`, `index.js:5709`, `companion-teardown.js:79`,
  `upstream-connection-lease.js:354`;
- states of a model about which the code promises nothing: a torn first journal
  (`run-journal.js:180`), sealed prose that cannot be resumed (`run-kernel.js:1919`), a late
  recovery whose projection ends behind the history (`1019`), a rebase that died
  (`continuity-composer.js:881`), a crashed target (`companion-supervisor.js:184`);
- not modelled: the permit of a send that the host ignores (`send-coordinator.js:71`), a replay
  snapshot whose file was written before its rows (`chat-save-store.js:1416`), the swipe of an
  inherited turn (`state-history.js:667`).

## Not modelled

`PROJECT.json` lists every component with its status.  Left out for good: what
text means (extraction of evidence, craft metrics, evaluation), prompts and token
budgets, HTTP routing and streaming, schemas and hashes, the user interface, build and
migration scripts: pure functions or input and output, in which no order of steps
matters.  A hash stands for what it hashes.

Left out of the modules that exist: other branches than `main` (nothing creates one); reuse
of process ids; `readTurn`, `stateAt` and the event listing of the ledger; the recovery of
`commitTurn`'s own files outside of `RootTurn`; swipe handlers and the repair of a greeting
in the page; the older contracts of the extraction, its repartition after an upgrade and the
endpoints that no client calls; matching of concepts by names and evidence; control targets
and imported baselines as certificates; in `Generation` the await in which a regeneration
truncates the ledger before it loads its context (`index.js:3519-3553`; it is a handler of
`HistoryInvalidation`), a chat change and switching off in the middle of a run; the external runtime of the cloud image
and environment overrides; the recoveries of a contaminated profile, which have no caller;
the migration of an older ledger; lanes of cognition, relationships and dossiers.

Authority edits are the one component with state that has no module yet.  It has no caller
either (`createControlledAuthorityEditService` is exported only).  Reading shows what a
model should say: a truncation below an edit's `through_turn` leaves its base superseded; a
later edit with a smaller `through_turn` is picked by later reads; a crash after the files
and before the prepared row makes every repetition fail with `EEXIST`.

## Plan

Done: the modules above, their runs, and the eight modules of proofs.

Next, in this order:

1. `CheckpointVouches` of `HistoryInvalidation`, on top of `HistoryInvariant`.
2. Authority edits in `StateHistory`; swipe handlers in `HistoryInvalidation`.
