# Peasant: a TLA+ verification project

Peasant harvests the transcripts of coding-agent harnesses into a local SQLite
store, serves them to a local API, a terminal interface and a web interface, and
publishes them to (and pulls them from) a "village". This directory holds TLA+
modules of its core, TLC configurations that check them on small instances, and
TLAPS proofs for every size. `PROJECT.json` maps each definition to the source
lines it stands for and lists runs, mutants, findings, hazards and theorems.

## 1. Inventory

| Component | State | Operations | What is hard | What makes it correct |
|---|---|---|---|---|
| generation store (`internal/store/generation_*.go`, `harmonized_commit.go`, `latest_attempt.go`) | catalog rows, mapping rows, digest-addressed bodies and blobs, the pointers `active_generation_id` and `latest_attempt_generation_id`, the capture certificate, the input proof | stage, skip, repair, commit, retain | staging is lock-free; routing decisions are taken before the lock; compare-and-swap | a reader always finds a whole generation; stale work is refused; full content is not downgraded by accident |
| sweep and reclaim (`harmonized_sweep*.go`, `generation_reclaim.go`) | `content_sweep_pending`, leftover directories, `needs_rebuild` | bounded sweep, batched sweep, reclaim in two lock spans | many transactions in a lock span, failure between any two, list-then-delete | nothing live is deleted; the flag leads every leftover to a later pass |
| harvest selection and activation (`internal/ingest/index_selection.go`, `generation_pipeline.go`, `content_sweep.go`, `run_lock.go`) | run lock, captured input, the candidate | lock the run, start sweep, mirror, select, activate, sweep | several processes; input replaced while it is parsed; refusals must be retried | the current input is consumed in the end; a settled session is left alone |
| session snapshots (`generation_snapshot.go`) | none | authoritative and preview read | reads race with commits and sweeps | the view is whole |
| search index (`harmonized_search.go`) | `needs_rebuild` | query, rebuild | deletes of damaged bodies | not queried while unhealthy |
| batch activation (`generation_activation_batch.go`, `entries_writer.go`) | the locks of many sessions, savepoints, results by position | admit, divert, stage, lock all, commit, release | circular waits; results and locks in different orders; a COMMIT that fails after its savepoints | no circle of waits; a result is true of its own candidate; no lost update |
| harvest pipeline (`pipeline.go`, `parallel.go`, `index_drain.go`, `staged_bytes_gate.go`, `write_path.go`) | worker pools, a byte ring, staging slots, channels, a byte gate, artifacts on disk | extract, stage, drain, parse, write, compute metrics, cancel | everyone can wait for everyone; acknowledgements out of order; the last session of a run | no staged byte is overwritten before it is read; every session is accounted for once, parents first; the run ends |
| harness adapters | none | parse foreign formats | format drift | data conversion |
| schema and migrations | schema version, consent | migrate | crash in the middle of a conversion | resumable, nothing lost |
| pull (`internal/pull`, `store/pull_store.go`) | journal, stages, backup, final directory, install lock, pull rows | install, replace metadata, recover, clean, refresh annotations | death or power loss between two file operations; metadata that is old when applied; edited files | a complete copy of what the index names always exists; the next pull recovers by itself; the row never runs ahead of the files |
| push, auto publish, village client | receipts, policy | negotiate, publish, retry | lost answers | published at most once per revision |
| auth | credentials file, lock | login, logout, save | concurrent processes | the file is whole and the last writer's |
| git hooks | hook files, backups | install, chain, remove | foreign edits, crash | the user's hook survives |
| local API, websocket hub (`internal/api`, `cmd_web.go`, `WebSocketContext.tsx`) | hub channels, connections, subscriptions, tracked tasks, the page's view | subscribe, snapshot, tick, broadcast, mutate, stop | channels without a common order; dropped messages; tasks that outlive their request | a subscribed page comes to show the store; no task reads a closed store; a stop ends |
| config, salt, file lock | files | load, atomic save | crash | old or new file |
| metrics, code map, transcript, export, tui, web, command line | derived data | compute, render | none of the above | pure functions and presentation |

How they interact: the command line starts a harvest `Pipeline`, which takes the
run lock, asks the store to sweep flagged sessions, saves the pair of files of
each changed session, mirrors its hash into the session row, selects the sessions
whose index is not current, parses them, stages their objects, and activates them
through the store. `peasant reclaim` runs beside it in another process. Both share
only the SQLite database, the per-session lock files and the run lock.

`peasant pull` shares with them only the database and its own per-transcript lock;
`peasant web` serves the same store to pages and closes it when its server returns.

## 2. Modules

| Module | Role |
|---|---|
| `GenerationStore` | one session's store together with the harvest and reclaim processes that drive it |
| `SessionAuthority` | what it promises a reader: two registers holding a whole view or nothing |
| `ActivationBatch` | `ActivateGenerationBatch` over several sessions: locks, savepoints, diverted candidates, results |
| `PullInstall` | one pulled transcript: every file operation of an install and of its recovery, the village, the index row |
| `RetainedCopies` | what an install promises: the index names a view of which a complete copy is retained |
| `HarvestStaging` | the first streamed stages of a harvest: extraction workers, byte ring, slots, drain loop, acknowledgements |
| `HarvestPipeline` | extends it with parsers, byte gate, write loop and metrics stage, and implements its assumption about them |
| `LocalServer` | the web server: mutation handlers and tasks, hub, connections, one page, and stopping |
| `GenerationStore_proofs`, `ActivationBatch_proofs`, `PullInstall_proofs`, `HarvestStaging_proofs`, `HarvestPipeline_proofs`, `LocalServer_proofs` | lemmas, inductive invariants and theorems of each (section 4) |
| `MCGenerationStore`, `MCActivationBatch`, `MCPullInstall`, `MCHarvestStaging`, `MCHarvestPipeline`, `MCLocalServer` | constants for TLC |

A definition whose comment begins with "Mutant:" is a plausible bug used to test a
property; the specifications do not use it.

## 2.1 `GenerationStore`

### State

`catalog` is `session_generations` (identifier to binding: the content and whether
it is complete), `refs` the mapping and descriptor rows, `objs` the stored bodies
and blobs, `damaged` those whose bytes fail self-verification. `active`, `attempt`
and `flag` are columns of `sessions`; `idx` holds the fields `sameIndexState`
compares (artifact hash, input proof, entries hash, capture). `dirs` are generation
directories, `rebuild` is the search-health flag, `lock` and `runLock` are the
session lock and `harvest.lock`. The per-process variables are the program counter
(`pc`), the parsed candidate (`cand`), what is left to stage (`todo`), the staging
handle (`prepared`), the keep set (`keep`), identifiers or digests listed for
deletion (`listed`) and why a sweep runs (`mode`).

### Actions and code

| Action | Code |
|---|---|
| `HarvestBegin` | `lockRun`, `EnsureSearchIndexHealthy`, `sweepFlaggedSessionsAtStart` |
| `PrepareArtifactInstall`, `MirrorArtifacts`, `SourceUnchanged` | `artifact_mirror.go` and the unchanged-source path |
| `Select`, `SelectNothing` | `capturedInputNeedsWork`, `prepareGenerationResult` |
| `Prestage`, `StageBatchTxn`, `VerifyStagedObjects` | `StageGenerationBatch`, `stageBatchTxn`, `verifyStagedObjects` |
| `Activate` | `withCurrentIndexInput`, then the lock-free routing of `ActivateGeneration` |
| `Skip`, `Repair` | `stampSkippedHarmonized`, `repairHarmonizedObjects` |
| `Commit` | `commitHarmonizedWrite`: `RetainLatestAttempt`, `InstallGeneration` or `CommitRefused` |
| `LockSession` ... `ClearSweepFlag` | `SweepSession` and the transactions under it |
| `ReclaimBegin`, `UnlinkDir`, `UnlinkDone`, `RelockSession` | `ReclaimSupersededGenerations`, `reclaimOneSession` |
| `SweepFails`, `Crash`, `Rot` | a failed sweep transaction, process death, damaged bytes |

Granularity. Each SQL transaction is one action. A commit, a skip and a repair are
one transaction inside their lock span, so each is one action guarded by the lock
being free. Sweeps and reclaims hold `lock` over many actions.

### Abstractions

* One session: every predicate of the code is qualified by `session_id`.
* The input hash is the content. `indexed_at` is left out of `idx`, so the modelled
  compare-and-swap is weaker than the code's; what holds here holds there.
* Every attempt has a fresh generation identifier (`generationIdentity`), so the
  branches for a reused identity (`AlreadyCommitted`, immutable-identity refusal)
  are unreachable and left out.
* `Activate` begins with `withCurrentIndexInput`, which compares the candidate with the
  metadata file, or, in a run that wrote the pair itself, with the bytes that run holds.
  So a pair that moved (`InputMoved`) may be noticed here or not, and a file that another
  harvest has rewritten and not yet mirrored may be noticed early; only the
  compare-and-swap in the commit is relied upon.
* Entries and blobs are model values. A descriptor is keyed by its source ref
  (`SourceRef`), which is what a repair replaces by.
* A parse is reduced to its outcome: `full`, `omitted` (source records omitted),
  `preview`, `incomplete`. `Outcomes` says which ones a content can have.
* Mapping tables other than entries and content, statistics, annotation remap,
  publication stamps, converted mirror rows, pending file-backed intents, settled
  permanent refusals and the publication terms of the selector are left out.
* Of file-backed predecessors only leftover directories (`Leftover`) remain.
* The multi-session batch commit behaves, for one session, as the single one;
  `ActivationBatch` has the rest.

## 2.2 `ActivationBatch`

A session is its active generation, the set of generations ever installed and the
`revision` of its index state; a candidate carries the revision its parse captured.
Every write of the index state moves `IndexedAt`, which `sameIndexState` compares, so
a revision number loses nothing. `Start` builds a request in any order, with repeats
and bad candidates; `Reject`, `Admit` and `Divert` are the loop that examines the
candidates (a repair or an unchanged refresh goes to the single-session path: `Route`
without the lock, then `RepairSingle`, `SkipSingle` or `WriteSingle` under it);
`Stage`, `LockNext` (ascending order), `Commit` (one savepoint per candidate, each with
its compare-and-swap and with the refusal of `harmonizedBatchPrecommit` when the active
generation has come to need repair since the candidate was examined: `Accepts`),
`Release` and `Finish` are the common transaction.
Failures: a single path that fails (`SingleFails`), a cancelled or failed batch
(`BatchFails`), failing savepoints (`CommitPartly`), a failing COMMIT after successful
savepoints (`CommitAborts`), the mirror pass (`MirrorPassFails`), death (`Crash`).
Candidates are complete and identifiers fresh, as a harvest makes them, so
`AlreadyCommitted` is unreachable; latest attempts are `GenerationStore`'s.

## 2.3 `PullInstall`

`fs` is the directory tree of one transcript (final directory, backup, stages,
journal, the copied metadata and the temporary files), `row` and `noteRow` its index
rows, `srv` what the village shows. The digest of a file set is the set itself. A
pull locks, reads metadata, compares (`Diff`), downloads, and installs: `MakeStage`,
`MarkStage`, `StageFiles`, `WriteJournal`, `RenameJournal`, then the recovery code,
which a healthy install also runs: `MoveAside`, `Publish` (or the three renames of a
metadata-only install), `CommitPull`, `DropBackup`, `DropJournal`,
`CleanAbandonedStages`. Every file-system call and every flush is an action, so a
process may die between any two. A power loss leaves any of the trees since the last
flush (`images`); flushes are taken for the whole tree at once. Somebody may damage the
files while no pull holds the lock. Dry runs, the skip gate of a bulk pull and
association observation write nothing of this state and are left out.

## 2.4 `HarvestStaging` and `HarvestPipeline`

`head` and `tail` are the ring's linear coordinates, `arena` says whose byte is where,
`released` holds spans freed behind an older live one. A worker takes a root, processes
it and its children, claims a span (`copy`), claims and publishes a slot. The drain
loop looks at the producers, drains published slots parents first, records them, sends
them to the parsers, and acknowledges a batch when every parser of it has read.
A drain takes the slots it saw and any published later, or misses those. Parsers ask
the byte gate for admission; a blocked parser makes the write loop flush early.
The write loop groups results by sessions and bytes, and feeds the metrics lane.

The lane has two wirings (`Wirings`), and `Init` takes one. With an injected analyzer or
store it computes metrics as sessions arrive (`"stream"`: `Compute`, where the metrics of
one session or of a whole batch may fail and are then reported). With the production
store and engine (`hasStoredMetricRefresh`) it only empties its channel (`"drain"`:
`DrainIndexed`, also when the run is cancelled), and when every goroutine has returned
`refreshStoredMetrics` goes over the stored sessions (`RefreshSession`, `RefreshEnds`):
each becomes current or is reported, a page that cannot be listed is reported and ends the
refresh, and a session outside the `--since` window is passed over. `Outside` holds the
sessions of the run that discovery admitted by their file time and whose start lies
before the window. Pages of 256 in the order of identifiers are reduced to sessions in any
order. Left out here: stored sessions of earlier runs, annotations and the classifier,
insights, and the backfill of stale indexes that runs between the two.
`OutcomesAssumption` (a payload is at most half of the ring) is the sizing rule
`copyToArena` documents; slots are sized for the run, so `Add`'s rollback is
unreachable; the channel of finished batches has room for the whole run, as in the
code. Parents outside the run are settled before, so `Parent` holds edges inside it.
Profile and progress counters and the separate write lane are left out.

## 2.5 `LocalServer`

A payload is the version of the store it was built from. A mutation handler commits,
then leaves tracked tasks, one for each announcement (a batch request announces one topic
once for each of its sessions, so `Announcements` holds bags), each of which reads the
store and blocks in `Broadcast` while the hub's channel is full. Each case of the hub's `select` is an
action; a tick is built topic by topic and then sent. A connection has a read pump
(blocking on a full hub channel, skipping its unregister on a full one), a write pump,
a write channel that drops when full, and snapshot goroutines that run beside the hub.
The page subscribes to all it shows when its socket opens, and again when components
mount. Stopping: the context (signal), the shutdown route, a failing listener, a grace
period that runs out; then the store is closed and the process ends. Messages without
data (the notice about dropped messages, invalid frames) and read-only routes are left
out. A reference count of a topic is reduced to whether it is positive.

## 3. Runs

| Run | Question | Bounds |
|---|---|---|
| `repair` | is anything live ever deleted, with sweeps, a reclaim, damaged objects, repairs, failures and crashes? | 1 harvester, 1 reclaimer, 3 identifiers, 2 contents, a leftover directory, batches of 2 |
| `two_harvests` | are session lock, compare-and-swap and re-checks enough when two harvests run without the run lock, and does a reader see only whole views? | 2 harvesters, 3 identifiers, 2 contents, crashes |
| `progress` | is the last input of a quiet source consumed, and every flag cleared? | fair; 2 harvesters under the run lock, 4 identifiers, 3 contents |
| `batch` | can batches, sweeps, failures and damage deadlock, lose an update or confuse results? | 2 sessions, 2 contents, 2 batches of up to 2 candidates: 4 candidates and 1 sweep, or 3 candidates and 1 failure or 1 damage |
| `pull_crash` | does a complete copy of what the index names survive every death and power loss, and does the next pull recover? | 1 puller, 3 installs, 2 contents, 2 titles, a person; 1 village change, 1 failing call, and 2 deaths or 1 power loss |
| `pull_concurrent` | do two pulls keep newer metadata, edits and the lock discipline, and does a forced pull repair what a power loss or an edit left? | 2 pullers, 1 refresher, 2 installs; a village change, a death and an edit, or a power loss that takes index commits back, or a refresh |
| `harvest_ring` | is a staged byte ever overwritten, lost or kept, or a child recorded before its parent? | 2 workers, a family of 2 and a root, a ring of 5 with payloads of 2, failures, cancellation |
| `harvest_stream` | does the stream end, with bounded memory and with metrics or a diagnostic for every session in the window, and does it keep the promise the staging makes of it? | 1 worker, 2 parsers, a family of 2, weights 0 and 3 at a gate of 2, every channel of capacity 1, cancellation, both wirings of the metrics lane, one session outside the window |
| `local_server` | does a stop end, with the store closed last, and does a page converge? | 2 connections, 2 topics, channels of 2, requests that announce 3 times; six scenarios of what the environment does |

Runs that end in a violation, each with a finding below:

| Run | Question | Bounds |
|---|---|---|
| `flag_gap` | is the sweep flag complete? | 1 harvester |
| `repair_proof` | does the input proof name the indexed input after a repair? | 1 harvester, bit rot |
| `server_route` | does no task outlive the store? | 1 request, the shutdown route |

Four more configurations are kept to show why a property carries a condition: TLC finds
the property named in them violated (see "Conditions" below).

| Configuration | Property | Condition it explains |
|---|---|---|
| `MCPullBulk.cfg` | `ListingIsSettled` | `ReadUnderLock` in `CurrentRowStays` |
| `MCHarvestSince.cfg` | `SinceIsNotSilent` | the window in `MetricsAccounted` |
| `MCServerFull.cfg` | `ShutdownEnds` | `HubGoneFull` in `OnlyFullHubBlocks` |
| `MCServerOrder.cfg` | `ShownIsSubscribed` | `Served` in `PageConverges` |

Why the bounds are enough. *Generation store*: identifiers are reused once nothing
remembers them, so the pool bounds what is alive at one time, not the length of a
behaviour; a batch of two rows is smaller than what one superseded generation leaves,
so both sweeps run; contents `c1` and `c2` share a body and replace each other's blob,
`c3` parses badly. The invariants of `repair` are proved for every size. *Batches*: a
circle of waits needs two batches and two sessions; a result can only be misplaced with
two candidates in an order other than the lock order, and a failure or damage matters
to one batch of two beside a competitor. *Pull*: three installs are a
copy, its replacement and a recovery whose cleaning meets both; a death during the
recovery of a death is two deaths. *Ring*: five bytes with payloads of two make every
second copy skip the end of the slab, and three sessions let a later batch finish before
an earlier one. *Stream*: with all capacities at one every wait for another stage
occurs; weight 3 exceeds the gate. *Server*: a page needs a second connection to come
back on, and two subscription changes to unsubscribe and subscribe again; one request
announces more than a channel holds, as in the code a batch over 16 sessions does, so a
hub that exits with its channel full and a task in `Broadcast` occurs.

`Budgets` in three modules is a set of scenarios: each bounds what the environment does
in one behaviour, by kind, and is chosen in the initial state. It is a bound on inputs
only (for batches also on how many candidates they start with); no action of the program
reads it.

Properties of each module, beside a type invariant:

* Generation store. `LiveGenerationsIntact`: the active generation and the latest
  attempt can be followed to the last object. `KeepSetIsCurrent`: rows are deleted by a
  keep set that still names the live generations. `ListedStaysUnreferenced`: a digest
  listed in one transaction is unreferenced in the one that deletes it.
  `AttemptBesideFullAuthority`, `FullOnlyDowngradedExplicitly`,
  `InstalledInputIsCurrent`, `ProofMatchesActive`: pointers, certificate and proof agree
  whatever raced. `AuthoritySpec`: refinement of `SessionAuthority`.
  `FlagEventuallyCleared`, `CurrentInputConsumed`: liveness.
* Batches. `WaitsAscend`: whoever holds a lock another batch waits for waits, if at
  all, for a larger session, so no circle can close. `ResultsTellTheStore`,
  `InstallsAreSerial`, `SweepSeesStableAuthority`.
* Pull. `IndexedCopyKept` and `RefinesRetainedCopies`; `SettledIsIndexed`: without a
  journal nothing is pending; `OnlyOwnFailures`: recovery never refuses what pulls
  wrote; `SuccessIsCurrent`, `SuccessLeavesNoDebris`; `EditedFilesNeedForce`,
  `LockIsReleased`. `CurrentRowStays` is conditional: pulls that read the metadata
  themselves, under the lock, and a village that changes at most once (`ReadUnderLock`).
  `ForcedPullRepairs`: what `pull_store.go:17-19` and the recovery document promise of
  `--force`, under a database that loses its last commits and files that are edited. (A
  pull without `--force` is not promised to: it finds files, hash and metadata unchanged
  and reports success without writing the row.) `ForceGetsPastDamage`: a pending journal
  of a whole directory does not stop a forced pull, whatever became of the old files.
* Harvest. `PayloadIntact`, `NothingLost`, `CapacityReturns`, `ParentFirst`;
  `GateBounded`, `RunEnds`; `MetricsAccounted`: a run that is not cancelled leaves no
  session it indexed without metrics in silence, those outside the window excepted; `ImplementsStaging`: with its parsers
  and writers the pipeline is an implementation of the staging specification, fairness
  included, so what holds of the staging holds of the pipeline.
* Server. `StoreOutlivesTasks`, for a stop by the context; `OnlyFullHubBlocks`: a stop ends
  unless a hub that is gone left its channel full with a task still to broadcast;
  `PageConverges`.

Each property of a passing run has a mutant: a plausible bug in one mapped definition
(a commit without the lock, a dropped compare-and-swap, locks in request order, a
backup removed before the commit, a missing flush, a ring tail advanced to the latest
span, a look at the producers after the scan, an unbuffered channel ...) that TLC must
catch with that property under the same configuration.

### Fairness

Generation store: harvests are run again and again and a started harvest goes on: weak
fairness of each harvester's step. `acquireFlock` retries a non-blocking flock every
2 ms until its context ends, so a process that waits for a lock which is free again
and again gets it: strong fairness of the steps that need the session lock. Crashes
and sweep failures are off in the fair run: an operator whose every sweep fails is not
promised progress. `CurrentInputConsumed` takes the run lock and no reclaim for granted,
and both matter: with a second harvest outside the run lock, or with a reclaim started
again each time, TLC finds a schedule in which every staging loses an object to the
other's sweep before its commit, for ever. Each round is refused cleanly, so nothing is
lost, but progress then rests on timing, which the code does not claim to exclude.

Pull: weak fairness of each puller's next step. Harvest: weak fairness of each
goroutine's step, as Go schedules them; none for the flush timer and none for the
cancellation, so the run ends without either. Server: weak fairness of each goroutine;
strong fairness of each case of the hub's `select`, because Go chooses among ready
cases at random; none for the page, the network, the requests and the signals.
`ActivationBatch` states no fairness: deadlock freedom is the invariant `WaitsAscend`.

### Findings

1. `flag_gap`. `reclaimCandidateSessions` states that a session holds superseded
   rows or orphans only while its flag is set. Retain an omission preview, let a
   sweep clear the flag (the attempt is live), return the source to the authority's
   content: the skip clears the attempt pointer, sets no flag and is not swept. The
   rows wait, unseen by reclaim, until a later staging flags the session.
2. `repair_proof`. The input proof is documented as the proof that the stored index
   consumed a captured input. A changed pair with a damaged object in the active
   generation takes the repair path, which stamps the new input over the old
   entries.
3. `server_route`. `server.go:113-115` says that no task can touch the store after it is
   closed. The shutdown route closes the listeners from its own goroutine, so `Serve`
   returns at once (`server.go:340`) and the store is closed while tracked tasks still
   run. `StoreOutlivesTasks` is stated for a stop by the context.

### Conditions

Properties that are stated with a condition, because without it the code breaks them:

* `CurrentRowStays` (`MCPullBulk.cfg`). `PullOptions.Meta` (`types.go:179-183`) says that
  what diverged between a listing and the pull is settled by the conditional GET and the
  hash compare. Those settle the content. The metadata of the listing is applied as it is
  under a lock taken later (`pipeline.go:248`): when the village changed and another pull
  installed the newer metadata meanwhile, the older one comes back, an owner the village
  no longer shows included.
* `ForceGetsPastDamage`. `docs/pulled-transcript-recovery.md:21-22` says that `--force`
  authorizes replacing damaged old files when a valid journal is pending. A metadata-only
  journal goes to `recoverMetadata`, which takes no force flag and digests the staged
  metadata together with the damaged blob (`install.go:467`), so it fails, now and on
  every later try. Without `fs.journal.metadataOnly` the property fails in
  `pull_concurrent`.
* `MetricsAccounted` (`MCHarvestSince.cfg`). `pipeline.go:1413-1415` says that
  `harvest --since` must not skip stored maintenance without saying so. Discovery judges a
  session without a recorded created time by its file time, so a session resumed lately is
  indexed; `refreshStoredMetrics` judges it by its start (`metrics_refresh.go:38`) and
  passes over it uncounted and unreported. Its metrics stay behind its entries until a
  harvest without `--since`.
* `OnlyFullHubBlocks` (`MCServerFull.cfg`). `server.go:119-121` says that cancellation keeps
  a shutdown prompt. A task that broadcasts after the hub has exited blocks when the
  channel is full (`websocket.go:201`), and `Shutdown` waits for it without a limit; one
  batch request over more sessions than the channel holds (16) is enough. The property
  shows that nothing else keeps a stop from ending.
* `PageConverges` (`MCServerOrder.cfg`). `README.md:691-692` of the repository says that a
  subscribed page gets a snapshot at once and then every tick. Subscribe and unsubscribe
  reach the hub through two channels without a common order; a page that unsubscribes and
  subscribes again may end unsubscribed while it shows the topic. The property is stated
  for what the server has subscribed or is about to.

Seen while modelling, without a run:

* A power loss may take back the commit of an install whose journal is already gone
  (`synchronous=NORMAL`); a normal pull then reports success without a row, and
  `pull_store.go:165` ("repaired by re-pull on divergence") is true only with the
  `--force` that the head of the same file names. `pull_crash` assumes that
  a commit survives.
* An unregister may overtake its register, or be dropped: the hub then keeps a dead
  connection until it exits.

## 4. Proofs

Six modules prove, for every value of the constants, every safety property the passing
runs check, with two exceptions named below. Each follows one plan: an inductive
invariant made of named parts, a lemma per action (or group of actions) and part, and a
last step that combines them.

### Assumptions

The `ASSUME`s of the models, which TLC evaluates in the runs: sets and functions are
typed, capacities and limits positive, kinds of processes and objects disjoint, and
`None`, `Torn` and `Garbage` differ from the values they stand beside. Sets of processes,
sessions, identifiers and objects need not be finite, except the sessions of a harvest.
Those that say something of the program:

* `HarvestStaging.AcyclicAssumption`: scheduling parents form no cycle
  (`pipeline.go:1136`: cycles are removed before); there is at least one worker
  (`parallel.go:959`); a payload is at most half of the ring (`copyToArena`).
* `PullInstall.TornAssumption`: files half written or half removed are no complete copy.

Two groups of theorems have a hypothesis of their own, because what they state is false
without it and a run shows so:

* `~AllowRot` in `ProofSafe` and `AuthorityRefined`: with damaged objects the run
  `repair_proof` violates the first. The other theorems of the store hold with bit rot.
* `Undisturbed` in six theorems of the pull: nobody edits the files, and the database
  keeps its commits through a power loss (with lost commits an unforced pull may report
  success without a row, see section 3). Deaths, power
  losses, failing calls and changes of the village are not limited.

### Generation store (`GenerationStore_proofs`)

| Theorem | States |
|---|---|
| `TypeCorrect`, `StoreInvariant` | the types and the inductive invariant |
| `LiveGenerationsSafe`, `KeepSetSafe`, `AttemptSafe`, `ListedSafe` | the safety invariants, bit rot and repair included |
| `InstalledInputSafe`, `DowngradeSafe` | the two action properties |
| `ProofSafe` | without bit rot, `[]ProofMatchesActive` |
| `AuthorityRefined` | without bit rot, `Spec => AuthoritySpec` |

`LiveGenerationsIntact` is not inductive. A sweep deletes by a keep set it read
earlier, so it needs `KeepSetIsCurrent`; that one needs the lock discipline
(`HoldsLock`: a process inside a sweep holds the lock, and pointers move only when it
is free). A commit installs rows under the candidate's identifier, so nothing else
may know that identifier (`FreshCandidates`). Retaining an attempt deletes the
previous attempt's rows, so the attempt must differ from the active generation
(`AttemptBesideFullAuthority`), which in turn needs that a certificate has an
authority beside it (`CaptureHasAuthority`). The conjunction `StoreInv` of these
with the types and the control facts (`HoldsCandidate`, `SelectsMirrored`) is
inductive. `QuietSteps` and `OnlyShrinksSteps` collect the many actions that leave
the pointers and rows alone or only remove rows outside the keep set, so that
`LiveStep` argues about each remaining action once. `ListedSafe` uses that rows are
added only while the lock is free.

`ProofMatchesActive` needs three more parts (`HealthyInv`). A skip compares the active
row without the lock and stamps the proof under it, so the row it compared must be
unchanged or gone for good (`SkipsUnchanged`, where freshness of identifiers excludes
that another generation took its name). An incomplete commit leaves the proof as it was,
so a proof must be of a complete generation, which an incomplete one cannot replace
(`ProofOfComplete`). And without damage nobody reaches a repair (`Undamaged`). With
`WholeViews` (a live generation maps exactly the objects of its content) the same
invariant gives the refinement: `VisibleSteps` sorts every step into invisible,
finalizing, retaining and installing ones, and `AuthorityStep` maps each.

### Batch activation (`ActivationBatch_proofs`)

`TypeCorrect`, `NoWaitCircle` (`WaitsAscend`), `ResultsAreTrue` (`ResultsTellTheStore`),
`SerialInstalls` (`InstallsAreSerial`), `StableAuthority`
(`SweepSeesStableAuthority`). The types carry what a batch knows of its own memory
(`JobOK`: positions, each session once, nothing reported before its transaction).
By `LockInv` a batch holds locks only while it takes or releases them, and each lock it
holds is below each one it lacks. `ResultsAreTrue` holds because a batch that has not
begun has nothing in the store (`Fresh`) and the positions it reports as committed are,
all the time, those whose generation is stored (`Told`); `SerialInstalls` because every
stored generation was built on a revision that has since been overtaken (`Overtaken`).

### Pull (`PullInstall_proofs`)

`TypeCorrect`, `EditsAreKept` (`EditedFilesNeedForce`) and `ForcedPullIsTrue`
(`ForcedPullRepairs`) hold in every environment. The last needs `Forced`: a forced pull
never decides from the stored copy, so what it drafts, journals and commits is what it
downloaded, and the check before the commit ties the files to the journal. Under
`Undisturbed`: `CopyIsKept`, `SettledDirectory`, `RecoveryNeverRefuses`, `SuccessIsTrue`,
`SuccessIsClean` and the refinement `PullKeepsCopies`. `IndexedCopyKept` says little of the
tree, and recovery must work on every tree a power loss can bring back, so the invariant
describes them all: each of `images` and the present tree is `Good` beside the row
(settled; or with a journal whose stage, backup and final directory are at one of the
points the protocol allows), and a puller knows which of these points it is at
(`Knows`). Two flushes carry the argument (`Flushed`): the one before the journal gets
its name and the one before the published files are verified leave no older tree. The
refinement further needs that the trees hold at most one copy beside the indexed one
(`OneOther`).

### Harvest (`HarvestStaging_proofs`, `HarvestPipeline_proofs`)

Staging: `StagingTypes`, `TranscriptsAreIntact` (`PayloadIntact`), `RingIsReturned`
(`CapacityReturns`), `EverythingIsReported` (`NothingLost`), `ParentsComeFirst`. That no
byte is overwritten rests on the geometry of the ring (`Ring`): the spans of workers that
copied, of slots not acknowledged and of released spans tile the window from `tail` to
`head`, each live copy lies in one piece, and a copy is admitted only within one ring
length of `tail`. Who may release a span is in
`BatchesOK` and `Owed`: the count of a batch is the number of its slots still to be read,
and a claimed slot is owed by one batch. `OnePlace` and `Reached` follow each session
from its parent to a slot, `Reported` from a slot to the results; acyclicity is needed
where a run that has ended must have reached everything, and where a drain that finds
nothing eligible must have nothing left.

Pipeline: `PipelineRefinesStaging` shows that every step is a staging step, so the
invariant is inherited (`PipelineInv`) and with it `PipelineKeepsTranscripts`;
`IndexInvHolds`, `PipelineTypes`, `MetricsAreAccounted` (`MetricsAccounted`, in both
wirings of the metrics lane) and `GateIsBounded` (`GateBounded`) are about the index side. The gate's counter is compared
with a set of coins, one for each byte of each result that a parser, the channel or the
write loop holds; counting them needs that results are of distinct sessions (`Distinct`),
which comes from no slot being handed out twice (`Handing`). Above the cap one result is
alone (`Gate`).

### Local server (`LocalServer_proofs`)

`TypeCorrect`: no channel and no write buffer exceeds its capacity. `StopIsOrderly`
(`StoreOutlivesTasks`): by `Orderly`, the listener closes before handlers are waited for,
these before the tasks, and the tasks before the store is closed.

### Only model-checked

* Liveness, which needs fairness and `ENABLED`: `FlagEventuallyCleared`,
  `CurrentInputConsumed`, `LockIsReleased`, `RunEnds`, `OnlyFullHubBlocks`, `PageConverges`, and
  the fairness half of `ImplementsStaging`.
* `CurrentRowStays`, whose condition bounds the changes of the village: after a second
  change that undoes the first, a pull that read between the two re-installs what it read.
* `ForceGetsPastDamage`.
* The violations.

The proofs led to these changes of the models: a cyclic family would never be scheduled
(`AcyclicAssumption`), nor would anything without a worker; the ring's new tail and the
order of a drained batch are stated by what they satisfy (`Contiguous`, `Ascending`)
instead of computed by a choice; and the `None` that marks a missing value is now assumed
to differ from everything it is compared with.

## 5. Not modelled, and the plan

`PROJECT.json` gives the reason for every component left out. Most of the repository's
lines are terminal and web presentation, parsers of foreign formats, SQL reads, rendering
and tests: pure data, without a protocol a model could add to. What has one and is left:

1. Saving the pair of artifact files (`ingest/write_path.go`) and the choice of
   scheduling parents (`ingest/operational_parent.go`), which `HarvestStaging` takes as
   given.
2. Sync requests of the local API (`api/sync_handler.go`): one ingest at a time, jobs
   and their cancellation.
3. Push receipts and retries; the harmonized migration; credentials (`internal/auth`);
   hook lifecycle (`internal/githooks`); `internal/filelock`; the config save.

Theorems to come: those of the modules above when they are written. Of what is modelled,
the safety half of a stop by the shutdown route, with the condition the code would need.

## 6. Running

In this directory: `tlc -workers 2 -config MCRepair.cfg MCGenerationStore` for a run,
`tlapm GenerationStore_proofs.tla` for the proofs.
