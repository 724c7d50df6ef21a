# Verification of Pacium Control

Pacium Control is a local control plane for terminal and agent sessions: one
Node.js server (`src/apps/local-server`) owns pseudo-terminals, observes queue
files that agents write, records the operator's decisions about them and
delivers those decisions; a browser client (`src/apps/web`) shows terminals and
queues over one WebSocket.  This directory holds TLA+ models of the parts whose
correctness depends on order, failure and concurrency, the TLC runs that check
them on small instances, and TLAPS proofs about them for every instance.

## 1. Inventory

The server is a single process.  Handlers run up to their next `await` and then
interleave; nothing else runs concurrently with a piece of code between two
awaits.  Promise continuations run before the next event.  That is the atomicity
all the modules use.  Files are replaced by write, sync, rename, directory sync.

| Component (files) | State it keeps | Operations | Hard behaviour | What makes it correct |
|---|---|---|---|---|
| Queue decision store (`queue-decision-store.ts`, `packages/contracts/src/queue-*.ts`) | `queue-state.json`, the write queue `writeTail` | `inspect`, `append`, `beginDelivery`, `finishDelivery`, `appendResolution` | queued read-modify-replace mutations, unserialised reads, power loss between rename and directory sync, bounds on records | the checks let nothing through that the schema refuses, records are never lost or rewritten, a recorded answer means durable |
| Queue decision service (`queue-decision-service.ts`) | none | record an answer or an approval | the source changes under the request | one immutable decision per item |
| Queue delivery service (`queue-delivery-service.ts`, `answer-file-delivery.ts`) | `activeDeliveries` | `deliver`, `inspect` | intent, effect and outcome are three steps; the process may die between any two | intent before effect, at most two attempts, the second only if confirmed not delivered |
| Queue reconciliation service (`queue-reconciliation-service.ts`) | none | `resolve`, lifecycle views | check, then append, with awaits in between | labels follow their order and never contradict a running attempt |
| Queue observer (`queue-observer.ts`, `queue-observation-model.ts`, ...) | states per source, `generation`, `readSequences`, watchers, timers | `syncConfig`, `refresh`, `dispose` | reads that end out of order, configuration changes under a read, unordered `syncConfig` calls of the hub | the newest read wins, nothing of an older configuration survives |
| Session manager (`session-manager.ts`, `pty-adapter.ts`) | sessions, PTY subscriptions, force timers, verification runs | create, relaunch, close, rename, resize, snapshot, shutdown | output and exit between spawn and registration, double close, exit against timer | no process outlives its session unobserved, every forced close ends |
| tmux and relaunch manifests (`tmux-adapter.ts`, `relaunch-manifest-store.ts`) | tmux targets, `relaunch-manifests.json` | keep-alive launch, attach, upsert, restore | launch, manifest and client are three steps; writes queue, fail and fill the catalog | a retained target is never lost or attached twice |
| Terminal stream (`session-manager.ts`, `ws-hub.ts`, `app.tsx`, `transport.ts`, `terminal-surface.tsx`) | sequence, headless terminal, subscriptions, the client's cursor | data, attach, snapshot, reconnect | frames around a snapshot, slow clients, lost connections, views opened again | the screen is in order and complete, and eventually current |
| Verification runner (`verification-runner.ts`, ...) | pending owners, active runs, timers | start, cancel, timeout, finish, shutdown | reservation across an await, timeout against cancel against exit | one run per owner, at most two, one final event |
| Pacium configuration (`pacium-config-*.ts`) | `pacium.json`, its own `writeTail` | inspect, compare and replace, normalise, validate again | stale revisions, power loss, reads beside a replacement, a file system that moves under stored paths | a compare-and-swap register; what was accepted stays readable |
| Control context (`pacium-context-service.ts`, `context-file-reader.ts`) | none | `inspect` | two file readers and the queue state beside two looks at the configuration | no torn text, nothing of another revision |
| Git inspectors (`repository-context.ts`, `git-*.ts`, `verification-head.ts`) | the stored `repository` summary | refresh, changes, diff, history, evidence of a run | one answer made of several commands while HEAD moves and commands fail | answers satisfy their schemas and are about a commit HEAD named |
| Provider observers (`claude-observer.ts`, `codex-*.ts`) | one observation and one bridge per session | prepare, receive, claim, release | late, repeated and foreign events; a bridge replaced by another; a child that ignores `SIGTERM` | one runtime per session, none left behind, no event throws |
| Host setup (`host-setup-*.ts`, `bootstrap.ts`, Meta attachment) | the running configuration, `host-setup.json`, Tailscale Serve | apply with rollback, adopt, attach Meta, restart | setups and lists that overlap, a rollback, somebody else changing Serve, an environment that overrides what is stored | one Meta client; remote access is what is recorded or what the environment grants |
| Process lock (`package-process-lock.ts`) | lock file | acquire, release | two processes and a stale lock | one server per package |
| HTTP server, security, remote access | none | requests | none | routing |
| Browser requests (`transport.ts`, `app.tsx`) | what each view shows and waits for | ask, answer, error, reconnect | answers that overtake each other or are lost with the connection | no view goes back; every view settles |
| Browser models (`session-model.ts`, `attention-model.ts`, ...) | view state | reducers | none | pure functions |

`PROJECT.json` lists every component with its status, and under `hazards` what
is hard to test in this code, at the line where it bites.

## 2. Modules

### `QueueDocument`: the document and its rules

The state file as one record: `decided` (item to decision), `attempts` and
`resolutions` (item to sequence). An item stands for its identity key, so that the
store's "one decision per identity" is the shape of a function; a record stands for
its own hash, so a reference by id and hash is the record, and the hash of an
attempt changes with its outcome, as in the code. `ValidDocument` is
`validateQueueStateV3` with the bounds of the schema's arrays (`WithinBounds`).
`CanX` and `WithX` are the checks and the result of the four `...Once` methods of
the store, `HasBegun` what makes `beginDelivery` return an attempt that exists.
Schema migration, serialisation, payloads, notes and timestamps are left out; failed
and unknown outcomes are one, since no rule tells them apart.

### `QueueDelivery`: store and services together

`file` is the visible document and `durable` the set of documents the disk may show
after a power loss; `writeTail` the queued mutations, `read` the document each of
them read and `renamed` how far the first is; `call[c]` the place of each request's
handler between two awaits, or how its last request was answered; `active` is
`activeDeliveries`; `sent` records what the transport really did.

| Action | Code |
|---|---|
| `RecordDecision` | `QueueDecisionService.record` |
| `DeliverInspect`, `DeliverUnavailable`, `DeliverBegin` | `QueueDeliveryService.deliver` up to `beginDelivery` |
| `Invoke`, `Recover`, `BeginFails` | its transport call and its failure paths, which reread the state |
| `ResolveInspect`, `ResolveRejected`, `ResolveAppend` | `QueueReconciliationService.resolve` |
| `StoreRead`, `StoreRename`, `StoreSync`, `StoreUnsure` | the running mutation: read, replaced, synced and read back, one of these failed |
| `StoreExists`, `StoreRefuses`, `StoreFails` | the record exists, which is an answer of its own; refused by a check or the schema; read or write failed |
| `Crash`, `PowerLoss` | the process is killed; the machine stops and the directory entry may be an older one |

`StoreRename` writes what follows from the document that was read, whatever the file
holds by then: only the queue keeps mutations apart, and `HistoryIsKept` fails if a
mutation reads before it is its turn. `Settle` ends a mutation together with the
synchronous code of the handler behind its `await`. The model is bounded by
`MaxAttemptIds` and `MaxRestarts` only.

### `QueueDeliveryProofs`

The proofs, see section 4.

### `TerminalStream`: from the PTY to the screen

A chunk is its sequence number.  `sequence`, `parsed` and `attaches` are the
session's counter, its headless terminal and the snapshots awaited; `link`,
`toServer` and `toClient` the socket; `selected`, `sync` and `screen` the
client.  `Settled` expresses that continuations run before the server's next
event: a snapshot whose chunks are parsed is taken before another chunk is
handled.  `alone` and `overflowed` in a cursor are history.  The session's epoch
never changes in the code (it is always 1) and is left out, as is the truncation
of long snapshots.  The sessions exist from the beginning; creation is left out.
`NothingSkipped` counts the frames on their way that the client has yet to apply,
since a snapshot may overtake some of them.

### `TerminalStreamProofs`

The proofs of its safety properties, see section 4.

### `SessionLifecycle`: from create() to removal

A call of `create()` is an id that its session and its PTY process share; `creation`
is its place between two awaits. `sessions` is the registry, `listening` the
sessions whose `onExit` subscription is not disposed, `process` the PTY child (for
tmux modes the client), `signals` what was sent to it, `shown` the list of a
connected client that applies `session.created`, `session.updated`, `session.exited`
and `session.closed` at once (their delivery in order is the subject of
`TerminalStream`).

| Action | Code |
|---|---|
| `Create`, `Prepare`, `PrepareFails` | `create` up to the spawn: directory, preset, tmux launch, repository |
| `Retained`, `RetainFails` | keep-alive: the manifest is stored first, then the client starts |
| `Recorded`, `RecordFails` | other modes: process first, then its manifest |
| `Ends`, `Exit` | the process ends; `onExit` reaches `handleExit` |
| `CloseForced`, `CloseNotLive` | the two branches of `close` |
| `Detached`, `DetachFails`, `ForceTimer` | what a close left under way |
| `RefreshRepository`, `RepositoryRead` | `refreshRepository` around its await |
| `ResumeReference`, `ResumeRetained` | `retainResumeReference` around its await |
| `Shutdown`, `ShutdownDone` | `shutdown` around the awaited detachments |

A process may end at any time and ignore every signal but `SIGKILL`.
`closedTwice`, `unseen` and `readLate` are history, so that the properties can
name the exceptions the code has.  Output, names and sizes are left out; targets,
manifests, relaunch and restore are in `KeepAlive`.

### `SessionLifecycleProofs`

The proofs of its safety properties, see section 4.

### `VerificationRuns`: reservation, process and outcome

A run is a number, in the order of the reservations.  `stage` is how far its
`start()` and `finish()` are between two awaits; `pendingOwners`,
`activeByOwner`, `finishing`, `timeouts`, `forceTimers`, `reason`, `forced` and
`status` are the runner's fields; `process` is the detached child and `killed`
the groups that were sent `SIGKILL`; `sessions` and `verificationRuns` are what
the session manager keeps.

| Action | Code |
|---|---|
| `Start` | `startVerification` and `start` up to the observation of HEAD |
| `StartFails`, `Started` | `start` after it: `spawn` throws, or the child and its timeout are registered |
| `Cancel` | `cancelVerification` and `cancel` |
| `Timeout`, `ForceTimer` | `requestTermination` for `timed_out`; the grace timer |
| `Ends` | the child exits, asked to or not |
| `ChildError`, `ChildClose` | its events, which reach `finish`: a child that never ran, a living one that the system refused to signal, one that ended |
| `Completed` | `finish` after the second observation of HEAD |
| `RemoveSession` | the run's part of `removeSession` |
| `Shutdown` | `shutdown`, with the manager's wait for detachments left open |

`orphaned` is history: the runs whose owner was removed, or the runner shut down,
while they were being started.  `RemovedLeaveNothing` names that exception, which
the code has.  `refused` are the runs whose group could not be signalled (a preset
that changed its user): `kill` then emits `error` on the living child, `finish`
frees the owner, and the process goes on with nobody to end it.  `RunsAreReserved`
and `EveryRunEnds` name it as their exception.  Output and its truncation, what
HEAD shows, presets and durations are left out, and so is the end of the process
after `Shutdown`.

### `VerificationRunsProofs`

The proofs of its safety properties, see section 4.

### `QueueObserver`: watched files, overlapping reads, publication

A file is the sequence of what it was; its length stands for device, inode, size
and modification time.  `generation`, `readSequences`, `states`, `timers` and
`watched` are the observer's fields, `reads` the `observeSource()` calls between
two awaits, `aggregate` its snapshot; `request`, `broadcasts` and `view` are the
hub's: a snapshot is enriched, which takes time, before clients receive it.

| Action | Code |
|---|---|
| `RefreshConfig`, `TakeConfig`, `TakeNoConfig`, `RefreshEnds`, `Answer` | `syncConfig` and the hub's handlers around it |
| `ReadEnds` | `observeSource` after its read: still wanted, retried, taken |
| `WatchEvent`, `WatchError`, `Timer` | the watcher's callbacks and the debounced read |
| `Broadcast` | the hub's publication once a snapshot is enriched |
| `Dispose`, `Write` | shutdown; whoever writes the file |

### `ConfigRegister` and `PaciumConfig`: an abstract register and its store

`ConfigRegister` is what the configuration promises: `Ask` a replacement of an
expected revision, `Replace` the value if it still has it, `Accept` what was
replaced, `Fail`, and `Lose` (the machine stops; what was accepted is kept).
`PaciumConfig` is `PaciumConfigStore`: reads in two steps beside replacements that
queue on `writeTail`, check, write, rename, sync the directory and verify, each of
which may fail, with `Crash` and `PowerLoss` between any two.  Its `Register`
instance maps the visible document to the register's value and each handler to
what it has promised (`Promised`); `ImplementsRegister` is the register's
specification under that mapping.

### `PaciumConfigProofs`

The proof of that refinement, see section 4.

### `WorkspaceDefinition`: what a configuration may say

`Normalized` is `normalizePaciumWorkspace`: canonical roots and files, distinct
uses, bindings to live sessions and known presets; `Readable` is the validation
of what is read again, `Loaded` the verification catalog at start-up and its
reasons to refuse.  Directories become links, files come and go, sessions end,
and the server restarts with other presets between a `Replace` and a read.  That what
is read uses no file twice is one of the checks of the read, and no property.
A path is a directory's name and a leaf; two names suffice for a link.

### `ContextInspection`: one answer from three readers

`Inspect`, `ReadState`, `LookAgain` and `Answers` are `inspect()` of the context
service; `Lstat`, `Open`, `OpenStat`, `OversizedPath`, `Read`, `FinalStat`,
`FinalPath` are the stable file reader, a step per system call, for the objective
and the plan beside each other.  An editor replaces, rewrites piece by piece or
removes the file; the configuration is replaced; a delivery goes on.  `seen` is
history: everything that was true at some time since the request began.

### `RepositoryInspection`: answers made of several Git commands

One request is followed from `Ask` through the commands of `Pending`, which end
or fail in any order (`CommandEnds`, `CommandFails`) while `HeadMoves`; `ReadSoFar`
is what the inspectors make of the readings, `FailureCode` of a failed command.
`RepositoryRead`, `ChangesRead`, `DiffRead`, `HistoryRead` are the four
inspections.  `RunStarts`, `RunIsCancelled`, `RunEnds` are the evidence of a
verification run (`VerificationRuns` has its processes and timers) and
`VerificationObserved` its answer.  The `Valid` operators are the schemas of
`protocol.ts`; `ValidPath` is the one thing in which the protocol's rule for a path
differs from the parser's (`boundedPath` lets a leading backslash pass), and
`Publish` the parse of a completed run, which refuses one that took more than
fifteen minutes by the wall clock: the promise of `finish()` is rejected and nothing
is told.  A patch is its size and what it contains, `heads` is history.

### `ProviderObservation`, `ClaudeObserver`, `CodexRuntime`

`ProviderObservation` says what every hook and every App Server event shows, how
activities and fingerprints are bounded and what the schema asks of an
observation.  `ClaudeObserver` is an entry from `ClaudePrepare` to
`ClaudeRelease`, with the hooks it refuses and those it takes (`ClaudeIngest`).
`CodexRuntime` adds the bridge: `Upgrade` claims the session and spawns the
child, either side fails or closes (`ClientFails`, `ClientCloses`, `ChildFails`,
`ChildExits`), `ForceTimer` kills.  A session is prepared before it has a bridge;
it may be released, or upgrade again, while the child of an older bridge still
speaks.  `crashed` is a server that an
exception ended.

### `KeepAlive`: targets, manifests and restoration

`tmux` is the session at each tmux id; ids start again when tmux restarts.
`catalog` and `stored` are the manifests in memory and in the file; `launch` the
`create()` calls under way.  The actions are the launch and its loss, attachment
to a chosen target, relaunch, the manifest before or after its client with every
failure between (`StoreBegins`, `StoreManifest`, `StartClient`, `StoreFails`,
`SpawnFails`), `Stop`, `Start`, `Restore` and `RestoreUnavailable`.  A write takes
the catalog once the writes before it ended, drops the oldest manifest at the
limit, is refused by the schema if it does not fit (`ValidCatalog`), and may fail
before or after the rename; `unsure` is history: the sessions whose write failed
after it.
`SessionLifecycle` has the registry and the processes, `KeepAlive` what outlives
them.

### `HostSetup`: remote access and the Meta session

`Apply`, `Inspected`, `ServeEnabled`, `Stored`, `NotStored`, `RolledBack` and
`Adopted` are `apply()` with its rollback and what the running server takes over;
`AskMeta`, `Discovered`, `Attached`, `MetaFails` the attachment that the start,
the setup and every `session.list` share.  `serve` and `ServeChanges` are the
host, `Restart` the next start: `MetaAtStart` and `RemoteAtStart` are what
`config.ts` makes of the environment, which overrides what is stored, and of the
document; `environment` is that of the running process.

### `ClientRequests`: requests and the views they fill

An observation is its version.  A view knows the one request that may replace
what it shows; `Received`, `Reads`, `Answers`, `Fails` are the hub's handlers,
which overtake each other, and `Breaks`, `Closed`, `Reconnects` the transport.
Panels of a session are told of no error, the other views are.

### Compositions: `WorkspaceServices`, `LocalServices`, `StartupServices`

These services share no state in the code, or each follows what it uses of the
others by itself, so a behaviour of a composition is one of a single service
(`service` never changes) and the reachable states are the sum, not the product.
They exist so that services with the same bounds are checked together, and each
property of a part is restated under its own name.  The two interactions that
matter are inside single modules: observer and hub in `QueueObserver`, store and
services in `QueueDelivery`.

### `WorkspaceServicesProofs`, `LocalServicesProofs`, `StartupServicesProofs`

The proofs of what these compositions promise, see section 4.

## 3. Runs

| Run | Configuration | What it shows |
|---|---|---|
| `workspace_services` | queue: 2 items, 2 intents, 2 callers, 3 attempts, 1 restart, `MAX_QUEUE_DECISIONS` = 1; Git: 2 paths, one of them with a leading backslash, 2 commits, 1 move of HEAD, limits of 1, runs within and over their longest duration; context: 2 bytes, 2 changes; definition: 2 directories, 3 events (723,754 states) | the safety of the decision queue; validity and currency of Git answers; whole contexts; accepted workspaces stay readable |
| `queue_race` | 1 item, 2 callers | expected violation: `ActiveNotConfirmed` |
| `terminal_stream` | 2 sessions of 2 chunks, 2 selections, 1 loss, limits of 1 | order, completeness and eventual currency of the screen |
| `terminal_reselect` | the same with larger limits and no loss | expected violation: `ReselectedViewComplete` |
| `session_lifecycle` | 2 sessions, 2 closes, 1 read, every mode | safety of the registry and of late updates; `ForcedCloseEnds` |
| `session_leak` | 1 session, 2 closes | expected violation: `NoLeakedProcess` |
| `verification_runs` | 2 sessions, 2 runs, at most 1 at a time | one process per session and within the limit, single and true outcomes, what a removal leaves; `EveryRunEnds` |
| `verification_stop` | 1 session, 1 run | expected violation: `StopTerminatesRuns` |
| `startup_services` | observer: 1 source of 2 versions, 2 configurations, 2 requests, 1 client; keep-alive: 2 launches at once, 4 in all, catalog of 2, 1 tmux id; setup: 2 callers, 2 names, 2 clients, 5 environments (1,267,377 states) | no change missed, nothing of an older configuration, never back; manifests are kept and found, one restoration per target; one Meta client, recorded remote access |
| `keepalive_restore` | the keep-alive part alone | expected violation: `RestoredIsExact` |
| `local_services` | configuration: 2 clients, 2 workspaces, 2 revisions, 1 crash; providers: 2 provider sessions, 2 subjects, 2 bridges, 3 activities, 4 fingerprints; browser: 2 views, 3 requests, 2 versions; queue: 1 item, 2 callers | `ImplementsRegister`; observers and bridges; views; and liveness: requests return, children end, views settle |
| `codex_crash` | the same with reasoning items | expected violation: `ServerSurvives` |

Bounds. Two clients are enough for every race: the code has no interaction between
three handlers that two do not show, because mutations run one at a time and reads
are atomic. With `MAX_QUEUE_DECISIONS` = 1 the second item meets a full store and
never a decision beside it, so that no decision is superseded in the run: of
supersession there are only the proofs, which are for any bound. A decision has at
most two attempts, so three attempt ids cover a retry and a concurrent loser. In the
terminal runs the limits are small so that overflow and the slow-client close
happen; two chunks are enough for a gap and for an inversion. Sessions do not act on
each other, so two of them only show that no step touches the wrong one; two closes
give the double close, one read the late update. Two verification runs of two
sessions with a limit of one make the limit bite; the code's limit is two, and the
proofs are for any. The two sessions are alike in every definition, so that run
looks only at the behaviours whose first verification run belongs to the first
session (`FirstRunIsOfFirst`; it cuts a request, never a fair step; 511,362
states). One source and two versions give the observer a read that
overlaps a change, a retry and a second read; two configurations an older and a
newer one. A catalog of two manifests is full after two launches and drops one at
the third, and one tmux id is the one that is given again. The environments are the
empty one and one for each thing it may override: the Meta session, the origin (the
node's own or another) and the port. Four fingerprints over three activities keep
the relation of the code's limits. One move of HEAD can fall between any two
commands, and one change of a file between any two system calls; two bytes are
needed for a torn text.

`CHECK_DEADLOCK FALSE` everywhere: the systems stop when the bounds are reached,
and a server without requests legitimately does nothing.

Fairness.  `QueueDelivery!QueueFairness` and `PaciumConfig!ConfigFairness` are
weakly fair to the running mutation and to each started handler: file operations
settle and continuations run.  They are not fair to clients, to success, or
against failures.  `CodexRuntime!CodexFairness` is weakly fair to the kill timer
only; a child may ignore `SIGTERM` for ever.  `ClientRequests!ClientFairness` is
weakly fair to delivery, to each handler's end and to the end of a closing
socket, not to answers rather than errors or losses.
`TerminalStream!FairSpec`
is weakly fair to parsing, to messages in both directions, to awaited snapshots,
to the server's close and to the transport's reconnect timer, which retries
without limit (`transport.ts:497`).  It is not fair to output, selection or loss.
`SessionLifecycle!FairSpec` is weakly fair to `create()` once started, to timers,
to reported exits, to the detachment, which has a timeout in `tmux-adapter.ts`,
and to the end of a process that was killed or detached; a process that was only
asked to end may run for ever.  `VerificationRuns!FairSpec` is weakly fair to the
observations of HEAD, which have a timeout in `verification-head.ts`, to timers,
to the child's events and to the end of a killed group, and to nothing else: a
child may run for ever and ignore `SIGTERM`.

Every property of a passing run has a mutant in `PROJECT.json`: a plausible fault
of the code under which the same run finds the property violated.

### Disagreements found

* `ActiveNotConfirmed`: an intent is visible in the file before its delivery
  counts as active (`queue-delivery-service.ts:168`), so a concurrent resolution
  can confirm as not delivered an attempt that is running.  Its outcome can then
  not be recorded, because the resolution refers to the hash without outcome.
* `ReselectedViewComplete`: a view that is left and opened again before its first
  snapshot arrived applies both snapshots; the second one discards output written
  since and the loss lasts as long as the view.  `ScreenComplete` and
  `EventuallyCurrent` hold for views whose attach was alone, and say so.
* `NoLeakedProcess`: closing a session that is already closing removes it and
  clears its force timer, so a process that ignores `SIGTERM` is left running.
  `ClosedHasEnded` holds with that one exception.
* `StopTerminatesRuns`: a run that is being started when the runner shuts down,
  or is asked for while the manager still waits for its terminals, starts its
  detached process afterwards, and nobody kills it.

* `ServerSurvives`: an item event of Codex that shows neither an activity nor an
  attention makes the observer throw in the listener of the child's output, where
  nothing catches it.
* `RestoredIsExact`: a retained target is looked up by its tmux id alone, which a
  restarted tmux gives to another session.

These six have a run each.  Others are stated in their modules, fail, and are not
run, because a run of their own would show nothing a reader cannot follow there:

* `RetryOnlyWhenReady` (`QueueDelivery`): the retry stays unlocked when a final
  label follows `confirmed_not_delivered`, while the view says it is not applicable.
* `ClosedLeavesLists` (`SessionLifecycle`): a repository refresh that ends after
  the removal announces the session again.  `NoLateUpdate` shows that it is the
  only such way.
* `ChangesReachClients` (`QueueObserver`): a snapshot that became outdated while it
  was enriched is dropped, and a client can be left with an older one.
* `PanelsSettle` (`ClientRequests`): the changes and the diff ignore errors, and
  wait when their request fails.
* `OversizedIsTooLarge` (`RepositoryInspection`): a command that prints too much is
  reported as a timeout.
* `EveryAnswerIsValid` (`RepositoryInspection`): a file whose name begins with a
  backslash, which Git reports and the parser accepts, makes an answer that the
  browser's schema refuses; `ObservationsAreValid` holds with that exception.
* `ExistingIsDurable` (`QueueDelivery`): after `durability_unknown` a request that is
  repeated is answered with the existing record, which a power loss can take back.
  No document promises that it cannot; `AnswersAreTrue` says what such an answer is.
* `StatusWasTrue` (`ContextInspection`): a delivery that ends while a context is
  assembled can be shown with a status it never had.

## 4. Proofs

`QueueDeliveryProofs` proves `Spec => []IInv` for every value of the constants and
derives from it every safety property of the queue in `workspace_services`, where
`QueueDelivery` is extended as it is.  The assumptions are
`DocumentAssumption` and `DeliveryAssumption` (types of the constants, and that
`Undecided` is not an intent), plus finiteness of nothing but what the model
itself keeps finite.

The invariants are not inductive by themselves.  `IInv` adds what they rest on:

* `QueueOK`: a caller is in `writeTail` exactly when its handler awaits a
  mutation, once, and `renamed` only with a mutation running;
* `ReadCurrent`: only the running mutation has read the file, and until its rename
  the file still holds what it read, which is why its document keeps every record;
* `DiskInv`: the visible document is one of the possible durable ones, all of them
  are valid, and `ReadCurrent`;
* `IntentsRecorded`: a handler that invokes the transport has its intent in every
  durable document;
* `OutcomesReported`: a queued outcome was reported by the transport;
* `Evidence`: the outcomes of every document are evidence;
* `FreshIds`: the ids of all attempts were drawn, and the one a queued intent was
  given is no other intent's, nor that of an attempt of another item.

The structure: lemmas about the four updates of the document (each keeps types,
extends the document and keeps validity when `Writable` checks it), one lemma per
part of the invariant with one step per action, and the properties from the
invariant. For `ChecksSuffice` each update keeps validity by its check alone (bounds
by the cardinality of the slots), except an outcome whose attempt was labelled
meanwhile, which is the exception the property names. `AnswersAreTrue` and
`HistoryIsKept` follow from `ReadCurrent`. The argument for `SentAtMostTwice` is
that a send needs a recorded intent in every durable document
(`IntentBeforeEffect`), a valid document has at most two attempts per decision and a
second one only if unlocked.

`SessionLifecycleProofs` proves `TypeOK`, `ClosedHasEnded` and `NoLateUpdate` of
`SessionLifecycle` for any number of sessions, closes and reads, from
`LifecycleAssumption` only.  Its invariant adds `Stages` (nothing is spawned before
its stage) and `Registered` (registered sessions are created, and exited only when
their process has ended): without them a removal of an exited session could leave
a process.

`VerificationRunsProofs` proves `TypeOK`, `RunsAreReserved`, `OutcomeIsEvidence`,
`RemovedLeaveNothing` and `OneOutcome` of `VerificationRuns` from
`RunsAssumption`: the bounds are numbers and the sessions are finite, without
which their count means nothing.  Its invariant adds `Lifecycle` (what a run can
have at each stage: a final status only once `finishing`), `Reserved` and
`Active` (until shutdown a run that is being started holds its owner's
reservation, a started one is its owner's active run, and no owner has both),
`Slots` (both maps together stay within the limit) and `Killed` (a killed run was
forced or ended by shutdown).  A process then counts as an active owner, and
`RunsAreReserved` follows; a finishing run is never killed, and so
`OutcomeIsEvidence` follows.

`PaciumConfigProofs` proves that the store implements the register,
`Spec => ImplementsRegister`, for any clients, workspaces, revisions and crashes,
from `ConfigAssumption`.  Its invariant is type correctness with three parts:

* `Queued`: the queue holds exactly the handlers that await a replacement, once
  each, and only the first has left the stage "queued";
* `Checked`: a handler about to rename still sees the revision it was checked
  against, since nothing else renames meanwhile, and once it synced the directory
  the visible document is the only one a power loss can leave;
* `Durable`: what a power loss can leave is no older than what was answered, no
  newer than what is visible, and the visible document if it has its revision.

Then every step is one of the register or none: `Replace` of the store asks,
`Rename` replaces, `Verified` accepts or fails, `Refused`, `WriteFails` and
`SyncFails` fail, `Crash` and `PowerLoss` lose, and the others stutter.

`TerminalStreamProofs` proves `TypeOK`, `ScreenInOrder`, `ScreenComplete` and
`NothingSkipped` of `TerminalStream` for any sessions, bounds and limits, from
`StreamAssumption`.  None of them is inductive.  `StreamInv` rests on a cut
through the connection: for each session there are numbers `low` and `high` such
that the frames on their way are exactly `low + 1 .. high`, the client needs
nothing up to `low` any more, and the hub has sent everything up to `high`
(`NoGap`).  Its other parts are what makes the cut hold: `DownIsEmpty` (a lost
connection leaves nothing behind), `AttachesInOrder` and `MessagesInOrder`,
`CursorInOrder`, `SubscribedFirst` (a snapshot is asked for only by a subscriber)
and `OneSnapshot` (a view whose attach was alone waits for one snapshot, which is
not too old to be joined by the frames it kept).

`StartupServicesProofs` proves the safety of the three services of
`StartupServices`, from `ObserverAssumption`, `KeepAssumption` and
`SetupAssumption`.

* Observer (`ObserverInv`): `ReadsAreCounted` and `ReadsAreInOrder` (a read is
  fresh only under its generation and its number, so that what is late is dropped),
  `NothingMissed` (a watched file is observed as it is, or an event, a timer or a
  fresh read that begins after its last change is on its way) and
  `SnapshotFollows` (the snapshot differs from the evidence only while a refresh
  waits to rebuild it) give `ShownWhenQuiet`, `NoUpdateLeaks` and `NeverBack`.  The
  attempt showed that an earlier `ShownWhenQuiet` claimed too much: with four
  versions of a file, two of them the same evidence, what is shown need not be the
  latest read but only equal evidence, and the property now says so.
* Keep-alive (`KeepInv`, `RecordsInv`): sorting by session numbers the manifests
  without a gap, because counting those above one is a bijection, so what is written
  drops a manifest only for newer ones (`UpsertFinds`).  `WritesInTurn` (one write
  at a time, begun from the catalog as it is), `FileFollows` (the file is ahead of
  the memory only by what was answered as failed) and `AllAreFound` (the manifests
  of the clients are in both) give `ManifestsAreKept` and `TargetsRecoverable`;
  `OneForEach` says that a target of a start is still to be restored, being restored
  or restored, and gives `RestoredOnce`.
* Setup (`SetupInv`): `OneSetup` and `OneAttachment` (whoever is past the check
  owns it) and `MetaIsKnown` (the client of the Meta session is the one that is
  remembered) give `OneMetaClient` and, with what a start makes of environment and
  document (`Configuration`), `RemoteIsRecorded`.

`LocalServicesProofs` proves that the configuration store implements its register
beside the other services too (`RegisterInServices`) and, from
`ServicesAssumption` (which has the relation of the code's limits, 32 activities
and 128 fingerprints), for any sessions, subjects, bridges, views and requests:

* `ClaudeNeverThrows`, by `ListedIsKnown`: an activity is at the place of its
  fingerprint for as long as it is listed, since the fingerprints outlast the
  activities; so an event that is not recognised is not listed twice;
* `OneRuntime`, by `ActiveIsOpen` (the map names a bridge exactly as long as it is
  open) and `OpenIsClaimed` (an open bridge holds the claim, so no upgrade starts
  beside it);
* `ViewsNeverGoBack`, an action property, by `ViewsFit`, `RequestsFit`, `TasksFit`
  and `AnswersFit`: what is observed for a request is not older than what its view
  shows if the view still waits for that request.  Pushed verification states carry
  no request; `VerificationInOrder` puts them in one order with the answers.

`WorkspaceServicesProofs` first shows that a behaviour of the composition is one
of `QueueDelivery` (`QueueBehaves`), so that what `QueueDeliveryProofs` proves holds
of what the run checks.  Then it proves the other four properties of
`workspace_services`, for any files, workspaces, statuses, presets, decisions and
limits, from three assumptions: `DefinitionAssumption` (proposals fit the schema,
the data directory is one of the directories, names are not taken for others),
`InspectionAssumption` (paths are finitely many numbers, a tracked record is of a
change, `MAX_GIT_HISTORY_COMMITS` is positive, and "nothing" is no text) and
`ContextAssumption` (time passes between two writes, decisions are finitely many).

* `DefinitionStaysReadable`, by `StoredIsSound`: as long as nothing disturbs it, the
  stored workspace names every directory and file by the path it really has
  (`InPlace`).  The lemma it rests on is that making a workspace canonical twice
  changes nothing (`InPlaceIsCanonical`), so that a read accepts what a write did.
* `ContextIsWhole`, by `ReadersAreSound`: an open reader holds a prefix of a text
  that the file had, and every write has a newer time (`ContextTypes`), so that equal
  size and time before and after the read mean that the text is whole and was
  there; and by `RequestIsSound`: revisions grow, so that two equal looks at the
  configuration mean that no other was accepted between them.
* `ObservationsAreValid` and `EvidenceIsCurrent`, by `GitInv`: what the commands of a
  request printed is of commits HEAD was at since the request began (`RequestOK`), and
  the HEADs of a run are of its duration and its record is one that was published
  (`RunOK`); paths come from what Git may print, so an answer that shows none with a
  backslash has only valid ones.  Each of the normalizers is then
  a lemma of its own: whatever was printed, the answer put together of it `Fits`
  its schema and is evidence of such a commit (`RepositoryReadFits`,
  `ChangesReadAreChanges`, `DiffReadFits`, `HistoryReadFits`, `VerificationFits`,
  `FailedFits`, `SentFits`).  The order of the changed files uses the section on the
  first elements of a finite set: in any strict total order, the first `n` are
  at most `n`.

For these proofs an answer of `RepositoryInspection` that is not there yet is the
empty set and not `Null`, which could be mistaken for a record; and the sections of a
diff and the answer files of a workspace are written without `SelectSeq` and
`FoldSeq`, of whose values the provers know nothing.

The type invariants of the queue, the sessions, the runner and the configuration
are proved, and therefore not run.  Every safety property and every action property
that a passing run checks is stated by a theorem.  Only model-checked are the seven
liveness properties, which the provers cannot reach: `ForcedCloseEnds`,
`EventuallyCurrent`, `EveryRunEnds`, `EveryCallReturns`, `EveryChildEnds`,
`EveryViewSettles` and `EveryDeliveryReturns`.

## 5. Plan

In this order:

1. What a liveness property rests on, as safety: that what is awaited is always
   answered, timed or closed (the runner, the bridge, the views).
2. The exact exceptions of the properties that fail, as invariants, for instance that
   a session leaks only if it was being created during a shutdown.
3. The process lock, if its race is resolved in the code.

## 6. Not modelled

Rendering, key handling, styling and layout; HTTP routing and access control
beyond the route of the hooks; diagnostics, directory browsing, launch presets and
packaging scripts.  The process lock is thirty lines whose one race is listed as a
hazard.  The tab functions of `session-model.ts` are not called by the application.
Classification of queue items and conflicts between sources, the comparison of
answer files, the verification output buffer, and the parsing of texts are
functions of bytes.  Payloads, hashes, wording and timestamps are abstracted
wherever no rule compares them.
