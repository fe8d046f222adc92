# TLA+ verification of pi-plugins

`pi-plugins` hosts Claude and Codex plugins inside the Pi coding agent. Its
program is `src/src/`; `src/docs/ARCHITECTURE.md`, `SPEC.md` and
`COMPATIBILITY.md` describe it, and `src/test/` holds its tests. All paths below
are relative to this repository's root, `PROJECT.json` maps each definition of the
modules to the lines it stands for.

What makes the system hard is that every Pi session is a process of its own and
all of them share, per scope (the user, or one trusted project), the same state
files, transition journal, content store and leases. There is no daemon: a
process may die at every `await`, another one finds what it left, and the host
itself is torn down and rebuilt inside each operation, because a plugin is
activated by a complete reload of the runtime.

Contents

1. Inventory: the components, their state, operations and hazards
2. The plan
3. The modules and how they correspond to the code
4. What the runs check, their bounds, the fairness assumed
5. What is proved
6. Where the code disagrees with its documents
7. What is not modelled

## 1. Inventory

Paths in this section are under `src/src/`.

### Keyed mutation scheduler - `application/keyed-mutation-scheduler.ts`
*State*: per scope-qualified plugin key a FIFO queue of waiters and an owner slot;
the keys held by the running execution context (`AsyncLocalStorage`,
`infrastructure/state/keyed-mutation-scheduler.ts`). *Operations*: `run` (acquire
all keys, do the work, release), abort of a waiter. *Used by* the mutation
coordinator, and by the lifecycle operations only through it. *Hard*: a call waits in
several queues at once, so every departure from a queue may have to wake somebody
whose other queues are not touched; aborts land between grant and continuation;
work calls `run` again. *Correct when*: calls that share a key exclude each other
and are served in order of arrival; nobody waits who could be served; queues and
owner slots hold no residue.

### Generation mutation coordinator - `application/generation-mutation-coordinator.ts`
*State*: the locals of one call. *Operations*: `runMutation`, `runPreparedMutation`:
take the scope lock, assert ownership, read, compare the generation, prepare,
`beforeCommit`, commit, reconcile a commit that threw, release. *Uses* the
scheduler, the scope lock and the state store. *Hard*: a lost answer of a commit, a
lock whose files are replaced, a release that fails after the commit, the death of
the process between any two awaits. *Correct when*: no update is lost; no caller is
told that a durable write did not happen; callbacks see the documents they replace;
a lease is returned on every way out.

### Durable state store and scope lock - `infrastructure/state/`
*State*: two generations of a scope's documents and the store's schema version in
SQLite (`sqlite-lifecycle-state-store.ts`); the lock database with its marker
(`sqlite-scope-lock.ts`). *Operations*: read, commit with compare-and-set, cut-over
from older versions; acquire with retries, assertOwned, release, reclaim of a dead
initialization. *Hard*: a busy database, fsync and rename order, replaced files, a
process that dies while it creates the lock. *Correct when*: a commit moves
generation g to g + 1 or leaves it; one live transaction owns a scope.

### Plugin lifecycle operations - `application/plugin-lifecycle-service.ts`, `lifecycle-transition-reconciler.ts`, `native-uninstall-cleanup.ts`
*State*: the installed record with its `pendingTransition` marker; the journal row
of the transition. *Operations*: install, update, enable, disable, uninstall: plan,
journal `prepared`, commit the candidate under a marker, reload and observe, commit
the final record or restore the previous one, settle the row, carry out a confirmed
deletion. *Hard*: eight durable steps in three stores without a common transaction;
each may fail before, after or instead of taking effect; recovery of another process
may run at the same time. *Correct when*: each transition is atomic; rows and
answers tell the truth; data goes only after confirmation.

### Startup recovery and transition journal - `application/recovery-service.ts`, `infrastructure/recovery/sqlite-transition-journal.ts`
*State*: rows with status (`prepared`, `recovery-required`, and the terminal
`completed`, `rolled-back`, `abandoned`), cleanup status and owner process.
*Operations*: `recover` (interrupted transitions, owed deletions, abandoned rows),
the journal's `put`, `settle`, `markRecoveryRequired`, `markCleanup`, prune. *Hard*:
a list that is stale when its items are handled; owners that die meanwhile;
several startups at once. *Correct when*: every marker can be recovered, and is; a
deletion that is owed happens.

### Revision collection, retention and session leases - `application/revision-collection-service.ts`, `infrastructure/recovery/`
*State*: content revisions on disk, the retention ledger (`firstUnreferencedAt`),
leases of live sessions. *Operations*: mark, prune retired revisions from the record,
refresh the references, sweep; acquire, replace and release a lease. *Hard*: a sweep
acts on references that it read from three stores one after the other; a session pins
a revision while it is being collected; one hidden payload makes every scan
incomplete. *Correct when*: what is removed is referenced by nobody; what stays
unreferenced goes.

### Reload handoff and complete reload - `composition/complete-plugin-reload.ts`, `composition/plugin-host-bootstrap.ts`, `pi/pi-reload-broker.ts`, `composition/runtime-desired-state.ts`
*State*: the ticket of each operation, the owners of the session, the successor's
claim, the parts of a runtime (catalog, skills, MCP servers, revision lease).
*Operations*: open, claimSuccessor, publish, fail, wait; start, acceptSuccessor,
reconcileCurrent, restore, close. *Hard*: the caller survives its own host; the
successor may fail at every step, or never start; the user reloads meanwhile; the
reload context of the packaged host serves once. *Correct when*: an operation is told
"activated" only by a successor that runs its candidate; the hooks of Pi's events never
see a runtime rebuilt by half, and no hook runs for a revision that was never committed; a claimed ticket is answered.

### Marketplace update scheduling - `application/marketplace-update-scheduler.ts`, `update-scheduler-lease-state.ts`, `update-schedule.ts`
*State*: the scheduler lease in durable state (owner, expiry), the claim of a refresh,
the persisted schedule. *Operations*: acquire, renew, release; a cycle; claim, publish,
settle a failure or a cancellation. *Hard*: leases and claims expire by a clock while
their holder awaits; times are computed from a clock read earlier; a registration that
was read is written by others. *Correct when*: no overtaken refresh publishes; a live
claim is not taken away; what is due is refreshed in the end.

### Marketplace refresh and update notices - `application/marketplace-refresh-service.ts`, `update-notification-service.ts`, `composition/background-update-coordinator.ts`
*State*: snapshots, notices with their standing, resolution and delivery mark.
*Operations*: refresh, record, reconcile, dispatch (publish, then mark), acknowledge,
prune. *Hard*: what is written to a notice was decided before it was resolved; a
process dies between the publication and its mark; pruning at the limit. *Correct
when*: no notice is lost or left unpublished.

### Automatic updates and policy - `application/automatic-update-coordinator.ts`, `update-policy-resolution.ts`, `composition/automatic-update-lifecycle-adapter.ts`
*State*: none of its own. *Operations*: evaluate an open notice, authorize, update
through the lifecycle, settle the notice. *Hard*: policy, snapshot, record and notice
change between these steps; the snapshot of a notice is not the selected one any more.
*Correct when*: only allowed updates are applied, a notice says "applied" only when
that is final, an allowed update happens.

### Trusted installation - `application/trusted-install-*.ts`, `composition/trusted-install-lifecycle.ts`
*State*: review sessions with a timeout, what an activation has retained (trust,
configuration), cleanups kept for the close. *Operations*: open, activate, recover,
cancel, close. *Hard*: a timeout races an activation; a discard fails; several calls
work on one session. *Correct when*: content taken back from a session is not
installed; nothing staged is left behind.

### Configuration and secrets - `application/configuration-*.ts`, `infrastructure/configuration/`
*State*: configuration documents, secrets outside of them. *Hard*: two stores that
change without a transaction. *Correct when*: a failed change leaves no orphan.

### Content store, staging, candidate leases - `infrastructure/filesystem/`, `composition/candidate-content-lease.ts`
*State*: staged trees and immutable revisions. *Operations*: stage, claim, promote,
discard. *Correct when*: a promoted revision is complete; a staged one has one owner.

### Runtime participants: hooks, MCP, subagents - `runtime/`
*State*: the active projection of each participant. *Operations*: reconcile to a
desired set, roll back. *Hard*: one participant of several fails.

### Hook decisions - `runtime/hooks/`
Pure: planning, aggregation of decisions, the guard against endless stop
continuations.

### Project synchronization and adoption - `application/project-sync-*.ts`, `adoption-service.ts`
Applies a project's declared intent through lifecycle operations.

### Sequential or presentational parts
Native control, inspection and diagnostics; formats and domain schemas; the Pi
extension and its screens; archive, git, http, npm and process adapters.

### How they interact

    Pi commands / automatic updates / trusted install / project sync
            |
      plugin-lifecycle-service ----- transition journal <---- recovery-service
            |            |                                        |
      keyed scheduler    complete reload --- broker --- successor host (startup)
            |
      generation coordinator --- scope lock --- state store
            |
      content store, configuration, secrets <---- revision collection

Calls go down; results come back as values; a thrown error stands for "unknown".
Shared state is reached only through SQLite and the file system.

## 2. The plan

Order: first the machinery every mutation goes through, then the transitions built
on it, then the components that read what transitions write.

| step | modules | composes / implements | state |
|---|---|---|---|
| 1 | `KeyedScheduler`, `KeyedSchedulerProofs` | implements `FifoKeyLocks` | modelled, checked, proved |
| 2 | `MutationCoordinator`, `MutationCoordinatorProofs` | coordinator + scope lock + store; implements `GenerationLog` | modelled, checked, proved |
| 3 | `LifecycleTransition`, `LifecycleTransitionProofs` | operations + journal + recovery; implements `PluginTransaction` | modelled, checked, proved |
| 4 | `RevisionCollection`, `RevisionCollectionProofs` | collection + retention + session leases against lifecycle selections | modelled, checked, proved |
| 5 | `UpdateScheduling`, `UpdateSchedulingProofs` | scheduler lease, cycle and refreshes of several processes | modelled, checked, proved |
| 6 | `UpdateNotices`, `UpdateNoticesProofs` | refresh, notices, automatic updates; uses `UpdatePolicy` | modelled, checked, proved |
| 7 | `ReloadHandoff`, `ReloadHandoffProofs` | complete reload, broker, bootstrap of a session's hosts | modelled, checked, proved |
| 8 | `InstallSession`, `InstallSessionProofs` | trusted install session + candidate lease + close of the service | modelled, checked, proved |
| 9 | configuration and secrets | compare-and-set of documents, compensation of secret writes | open |
| 10 | pure modules | hook decisions, stop continuation | open, as functions against reference definitions |

The first three components have an abstract specification that the detailed one
implements. The later ones state their promises as invariants and action properties
instead: what each promises is a relation between two parts of its own state.

Every safety property and every refinement that a passing run checks is a theorem
(section 5), and so are the safety parts of some liveness properties: `NoCircularWait`
for `FlatCallsAreServed`, `LeasesAreReturned` for `CallsSettle`. Those of the others are
still to be stated. No module uses a RECURSIVE operator, so that all can be proved about.

## 3. The modules

### KeyedScheduler
`queue` and `owner` are the two fields of `KeyState`; `wants` is the waiter's key
list; `context` is what `AsyncLocalStorage` holds where `run` was called and `caller`
the call whose work made it; `status` says how far a call is, where `"granted"` is
the gap between `resolve()` and the continuation after `await` in `run`. Node runs a
handler to completion, so one handler is one action:

| action | code |
|---|---|
| `Refuse` | `run`: overlap with held keys, or an aborted signal |
| `Acquire` | `acquire`: push on every key, then `pump` |
| `Cancel` | the abort listener: leave every queue, then `pump` |
| `AbortUnlistened` | an abort nobody listens to (before the call, after the grant) |
| `Start`, `Withdraw` | the continuation after the grant: `throwIfAborted`, then the work |
| `Finish` | the `finally` block: release, then `pump` |

`Pump` grants in one step all waiters that `pumpOne` grants one after the other: a
grant only occupies keys, so it can neither enable nor disable another waiter at
the head of other queues. `FifoKeyLocks` is the promise: one line, from which a
call steps out when nobody before it, and nobody served, wants one of its keys.

### MutationCoordinator
`log` is the sequence of documents the scope went through; the code keeps the last
two generations, which is all an action looks at. `phase` names the `await` where
`runWithKeys` stands, `"own-x"` being the ownership assertion in front of x. `epoch`
counts replacements of the lock's files and `lease[c]` names the files c's transaction
has locked: `BEGIN IMMEDIATE` excludes only holders of the same files, and
`assertOwned` compares the two. A commit and its answer are one action (`Commit`) or
an error with or without the write (`CommitError`). `Crash` ends all calls of a
process, and with them their transactions. The keyed scheduler appears as its
promise: one active call per process and plugin. `GenerationLog` is the abstract
specification: an append-only log of documents and one verdict per call.

### LifecycleTransition
`record` and `pending` are the installed record and its marker, `plan`, `status` and
`cleanup` the journal row, `data` whether the plugin's data directory exists. An
operation's `pc` names the step of `execute`: `Prepare` (put the row), `FirstCommit`,
`Reread` (ambiguous commit), `Reload`, `Finish` (final record without marker),
`Complete` (settle), or `Rewind`, `Recheck`, `Restore`, `Rollback` (restoration), `Mark`
(`markRecovery`), `Erase` and `Tidy` (the deletion and its note). A process goes through
startup: `Boot`, `ListJournal`, `CheckOwner`, `LoadCurrent`, `ReconcileLocal`,
`RestorePrevious`, `SettleRestored`, `MarkBlocked`, `EraseListed`, `TidyListed`,
`Abandon`, `Serve`. Each `await` that touches a store is one action whose fault takes
effect or not; `runPreparedMutation` is one atomic step, as `GenerationLog` promises.
`PluginTransaction` is the promise: open, then close on the goal or on the value
before. Under the refinement the settled value is the record, or the previous record
of the open transition. `effects` (and `wrote` in `MutationCoordinator`) are history
variables: no action reads them in a guard.

### RevisionCollection
`record`, `op` and `left` are what a collection can see of lifecycle operations: the
selected and all revisions, the row of a running operation, the rows of failed ones.
`stored` and `residue` are the content store, `lease` the rows of sessions, `age` the
retention ledger, kept as the distance of a mark from the present. `run` is a
collection: `Begin`, `ReadJournal`, `ReadLeases` (the first reading), `Reconcile` (scan
and marks), `PruneRead` and `PruneCommit` (per retired revision), `Rescan`,
`RefreshState`, `RefreshJournal`, `RefreshLeases` (the second reading), `Remove` and
`Unmark` (per revision), `Defer` where evidence is incomplete. `held` is a history
variable: the references that stood all the time since the second reading began.

### UpdateScheduling
`lease` and `claim` are the two leases in durable state, `due` and `behind` the
registration's schedule and snapshot, `loop` a process's scheduler, `task` its refreshes,
scheduled or asked for by a user. Times are distances from the present: an age grows
with `Tick`, a delay shrinks, and a value computed from an earlier clock reading
carries the reading's age: a claim begins at the time its refresh read, and the lease
is validated (`Valid`) by a clock read after that, but before the awaits of the
validation and the commit. `BeginCycle`, `TakeLease`, `LoseLease` are a cycle;
`Explicit`, `Claim`, `LoseClaim`, `Materialize`, `SourceFails`, `Publish`,
`FailPublication`, `Cancel`, `SettleFailure`, `SettleCancellation`, `AbandonSettlement`
a refresh, with `stale` for a registration that somebody wrote since it was read.

### UpdateNotices and UpdatePolicy
`notices` is the list in the record, `market` the selected snapshot, `selected` and
`pending` what the lifecycle has done, `task` the maintenance of a process and the runs
of automatic updates that commands start. `Reconcile`, `Publish`, `Mark`,
`DispatchEnds` are the maintenance; `Evaluate`, `Commit`, `Finish`, `Settle` a run.
Evaluation and authorization look at the same facts one after the other; the step is at
the last of these readings. `UpdatePolicy` is the precedence of guards and overrides
as operators over a record of inputs.

### ReloadHandoff
`ticket`, `owners` and `draining` are the process-global maps, `host`, `successor` and
`runtime` what each host keeps, `job` the reconstruction in the host that is starting,
`pi` Pi itself. Operations go through `Admit`, `OpenTicket`, `Wait` or `AbortWait`; a
reload is `Shutdown` (asked for by an operation or by the user), `StartSession`,
`RecoverLocal` per pending plugin, `Reconstruct`, the steps `ReconcileSkills`,
`ReconcileMcp`, `Observe`, `ReplaceLease` or `Restore`, and `Discover`, where the answer
is published. `quiesced` holds back the hooks of Pi's own events only. Two kinds pass it
by: SessionEnd, which `Shutdown` delivers before it quiesces (`dispatchSessionEnd` does
not look), and the hooks of subagents, which go straight to planner and executor at any
time (`create-skill-hook-runtime.ts:135`). `Runs` says which hooks a runtime can
execute then; `committed` and `ended` are history variables. What Pi does (session_shutdown, session_start, resources_discover, in
this order, and stale contexts reject) is an assumption, not code of this repository.

### InstallSession
`session` is the entry of the registry, `lease` and `content` the candidate, `pc` the
await of each call, `phase` the life of the service. The awaits of an activation are
`Activate`, `Validate`, `Save`, `Settle`, `Grant`, `Check`, `Execute`, `Install`; each may
end in `Finish`, `Pause` or `Proceed`. Calls that wait for a discard wait for the same
one, so `DiscardEnds` lets all of them go on. `Expire` and `Drop` are what `lookup`
does for whoever comes; they stand for any time that may have passed. The service is
closed (`CloseRegistry`, `CloseRetry`) when its host has drained the calls.
`reclaimed` and `lost` are history variables.

Each definition called "Mutated" or "mutant" in its comment is a variant that a plausible mistake
would produce. It is used by no specification; put in the place of the definition
after it, it makes some property fail, which shows that the property depends on it.

## 4. The runs

| run | instance | checks |
|---|---|---|
| `scheduler` | 3 calls, 2 keys, all key sets, nestings and aborts | `MutualExclusion`, `NoLostWakeup`, `QueuesHoldWaiters`, `OwnersHold`, implements `FifoKeyLocks` (`ServesInArrivalOrder`), liveness `FlatCallsAreServed` |
| `scheduler_nested` | the same | refutes `NestedCallsAreServed` by one nested call (section 6) |
| `coordinator` | 3 calls of 2 processes, 2 plugins, one replaced lock | `LeaseFreezesState`, implements `GenerationLog` (`TruthfulRegister`), liveness `CallsSettle` |
| `transition` | 2 operations, 2 processes, 2 revisions, 1 fault | `MarkersAreRecoverable`, `JournalIsTrue`, `AnswersAreTrue`, `DeletionIsConfirmed`, implements `PluginTransaction` (`TransitionsAreAtomic`) |
| `recovery` | 1 operation, 2 processes, 3 faults | liveness `InterruptedTransitionsEnd`, `OwedDeletionsHappen` |
| `abandoned_rows` | 1 operation, 1 crash | refutes `AbandonedRowsAreInert` (section 6) |
| `reinstall` | 2 operations, no fault | refutes `InstalledDataSurvives` (section 6) |
| `collection` | 2 revisions, 1 session, 1 fault | `ReferencedContentStays`, liveness `InactiveContentGoes` |
| `updates` | 2 processes, 1 user who refreshes, 1 fault | `SnapshotNeverRegresses`, `LiveClaimIsKept`, `OwnerRefreshes`, liveness `DueIsRefreshed` |
| `notices` | 1 process, 1 command, 2 revisions, 2 policies, 1 fault | `NoticesSurvive`, `AppliedIsFinal`, liveness `NoticesArePublished`, `AutomaticUpdatesHappen` |
| `reload` | 2 operations, 3 hosts, every step may fail | `AcceptedIsActive`, `HooksAreConsistent`, `OpenTicketsAreAwaited`, liveness `ClaimedReloadsAnswer` |
| `install` | 3 calls at a time, every discard may fail | `ReclaimedContentIsNotInstalled`, `StagingIsSettled` |

Every module's `TypeOK` is checked with its run.

**What they show.** The scheduler is a fair line of multi-key requests and leaves no
residue whatever is aborted when. A scope is a register that mutations change one
at a time, and no caller is misled about a durable write, even after the lock's
files were replaced under a lease; as long as they are not, callbacks see the
documents that they replace. A plugin's transition is atomic through a fault anywhere,
a concurrent operation and a concurrent recovery; its marker always leads recovery to
a row that can be recovered; rows and answers are true, and an operation that was told
"aborted" may have committed its candidate, but is never completed; data goes only on
behalf of a confirmed uninstall that took effect. After any three faults some later start ends
the transition and carries out the deletion.

A collection removes nothing that state, journal or a session held all the time since
its second reading began; that is all that three readings one after the other can
promise: a reference that moves from one of them to another between the readings
escapes them, and only the grace period stands against that. What stays inactive
is removed in the end, if no residue keeps the scans incomplete. A refresh that was
overtaken publishes nothing, a live claim is kept, and a scheduler starts no refresh
once another process owns the scope: it may on a lease that expires between the reading of
the clock and the commit, as long as nobody has taken it. A notice is neither lost, nor left unpublished, nor
called applied while the update may still be rolled back. A reload that is answered
"activated" is active. Whatever fails in a reconstruction or in its restoration, the
hooks of Pi's own events never see a mixture of two runtimes. SessionEnd and subagent
hooks may: a host whose reconstruction failed serves on with the catalog and skills of
the last complete runtime and without its MCP servers, and executes them. They are then
hooks of the selection that the host committed last, never of another one; only a
subagent that starts or stops while a reconstruction is going on may meet the candidate. Staged content taken back by a timeout or a
cancellation is not installed by the activation that was at work.

**Bounds.**
- Scheduler: three calls over two keys have every shape of conflict a wake-up can
  get wrong (a two-key waiter between two single-key ones).
- The proofs of section 5 remove the bounds for all safety properties of all runs; what
  follows matters for liveness, and for how the theorems were found.
- Coordinator: two calls of different processes ask for the same documents, so that
  "committed" can be deduced from the other's write; the third belongs to another
  plugin of the first process, so that it runs at the same time. `MaxEpoch = 1`: one
  replacement already makes two holders possible; a second one adds no new kind.
- Transition: two operations are needed for a stale plan, a plan of another
  operation and a row of another one. `MaxFaults = 1` puts a crash or a failure at each
  step while the other operation and two recoveries interleave; the `recovery` run
  has three faults, enough for a crash of the operation, one of its recovery and a
  failure of the next. Operations, processes and revisions are symmetric in
  `transition`; `recovery`, which checks liveness, uses no symmetry.
- Collection: two revisions give an operation one to leave and one to select, and let a
  batch end between them; a session's lease may name either. A fault is a failing
  call, a death, or a lease whose owner cannot be classified. Marks of any age arise
  with `Grace = 1`, as only ripe or not ripe matters.
- Updates: two processes are needed to take over a lease, the second refresh of one of
  them to take over a claim. `Pause = 1`: a reading of the clock may be one tick old
  when it is used, which is enough to be wrong about a lease; a process that pauses for
  longer than a whole claim (`Pause <= ClaimTime`) is not considered. `LeaseTime = 2` leaves a
  tick between renewal and expiry.
- Notices: two revisions and two snapshots, one of them offered anew after the other, so
  that a notice is superseded, installed by hand or pruned while a run works on it;
  `ResolvedPerPlugin = 1` reaches the limit at once. `UpdatePolicy` is small enough to
  be used unabridged; the run chooses between a policy inherited from the marketplace
  and one set to manual for the plugin.
- Reload: three hosts are the one that asks, its successor, and one that a reload by
  the user adds before, between or after; a second operation opens a ticket meanwhile
  or is left pending for the successor's recovery. The safety properties were also
  checked with four hosts.
- Install: three calls are an activation, a recovery that starts a second activation,
  and whoever makes the session expire or cancels it. Calls are symmetric.

**Fairness.** `scheduler`: microtasks run and work settles, once its nested calls
have; nobody needs to call or to abort. `coordinator`: promises settle and the retry
loop for the lock keeps trying; `CallsSettle` assumes that no failing release left the
database locked, because the code then has no way to unlock it within the process.
`collection`: collections are started again and again and time passes; nothing is
assumed of operations and sessions. `updates`: promises settle and time passes, also
past a process that is paused for a while (hence strong fairness of `Tick`, which a
reading of full age disables); `DueIsRefreshed` assumes that processes are prompt from
some time on, since one that never decides in time never gets a lease, and fails
without that. `notices`: tasks go on, maintenance is woken at every poll, a startup
recovers; only `AutomaticUpdatesHappen` assumes that commands run the automatic updates
again and again, because the background runs may not apply any (section 6). `reload`:
each step of a start returns, and Pi ends a reload it began; nobody has to reload, to
abort or to fail. `install` checks safety only.
`recovery`: an operation's and a startup's promises settle, and a host is closed and
started again (the documented way to retry recovery). No run assumes that a fault
happens or does not.

**Deadlock.** Off where all calls may be settled (`scheduler`, `coordinator`); off in
`reload`, where Pi may load no further host, and in `install`, where the service is
closed; on in all others, where a process can always start again.

## 5. What is proved

`KeyedSchedulerProofs` proves, for any set of calls and any set of keys, with the sole
assumption that the value `None` is not a call (`NoneIsNoRequest`):

| theorem | states |
|---|---|
| `InductiveInvariant` | `Spec => []IInv` |
| `TypeCorrect` | `Spec => []TypeOK` |
| `QueuesCorrect` | `Spec => []QueuesHoldWaiters` |
| `OwnersCorrect` | `Spec => []OwnersHold` |
| `MutualExclusionHolds` | `Spec => []MutualExclusion` |
| `NoLostWakeupHolds` | `Spec => []NoLostWakeup` |

`MutualExclusion` is not inductive: it says nothing of the owner slots, and without
their agreement with the calls' states a grant might hand out a key in use. `OwnersHold`
needs `QueuesHoldWaiters`, because a grant takes whoever is at the head of the queues.
`IInv` is the conjunction of the two with `TypeOK`. All handlers but the trivial ones
end in `Pump`, so the proof is cut there: `AcquireBeforePump`, `CancelBeforePump` and
`ReleaseBeforePump` show that a handler leaves queues, owners and states consistent
with each other, `PumpType`, `PumpQueues` and `PumpOwners` that `Pump` keeps them so.
`RemoveWaiterProperties` is the lemma about `splice(index, 1)`.
`NoLostWakeup` is the subtle one. `PumpWakes` shows that a pump which examines only the
keys `ks` leaves no waiter ready, provided that each waiter that was ready before it
wants a key of `ks`; each handler changes heads and owners only of its own keys, which
gives that premise.

From the same assumption, that the scheduler implements its promise and has no deadlock
of its own:

| theorem | states |
|---|---|
| `ServesInArrivalOrderHolds` | `Spec => ServesInArrivalOrder`, the refinement of `FifoKeyLocks` |
| `NoCycleHolds` | `Spec => []NoCycle`: who stands before whom in any queue is well-founded |
| `NoCircularWaitHolds` | `Spec => []NoCircularWait`: no waiters wait only for each other |

The line forgets the queues, so the argument translates between the two views of who
may be served. `ReadyIsEligible`: a waiter is at the head of all its queues with all
keys free if and only if nobody served, and nobody before it in the line, wants one of
its keys. `GrantedAreEligible`: as the handler pumped the keys it disturbed and no
wake-up was lost before, those a pump grants are all of them (`PumpServes`).
`ArrivalOrder` and `CancelOrder` show that `push` puts a call behind everybody it
shares a key with, and that `splice` leaves the order of the others alone.

`NoCycle` is proved on the line, where a step only adds pairs that end in the call that
arrives, and that call stands before nobody (`LastArrival`). Of any waiters there is
then a first one, and as no wake-up is lost it waits for a call that is served or not
among them. That is the safety part of `FlatCallsAreServed`, and it holds for nested
calls as well: in the trace against `NestedCallsAreServed` the nested call waits for the one
before it in line, that one for a call that was served, and its work for the nested call.

`MutationCoordinatorProofs` proves, for any calls, plugins, values, processes and any
bound on replacements of the lock's files, from the types of the constants
(`ConstantsAreTyped`):

| theorem | states |
|---|---|
| `InductiveInvariant` | `Spec => []IInv` |
| `TypeCorrect` | `Spec => []TypeOK` |
| `LeaseFreezesStateHolds` | `Spec => []LeaseFreezesState` |
| `TruthfulRegisterHolds` | `Spec => TruthfulRegister`, the refinement of `GenerationLog` |
| `LeasesAreReturnedHolds` | `Spec => [](LeasesAreReturned /\ LockIsInUse)`: a lease belongs to a call at work, or its release failed |

Neither result is inductive. `IInv` adds to `TypeOK` what they rest on: a lease names
files that existed, a call inside `runWithKeys` holds one, and no two calls hold the
same (`LeaseInv`); what a call read is generation `expected` of the log and stays so
(`SnapshotInv`); a call whose write is durable is past its commit, and the log is longer
than it expected (`WroteInv`, which is why `"failed"` is never the verdict of a durable
write); a verdict that waits for the release is one the register allows
(`VerdictInv`). `LeaseFreezesState` then needs `LeaseInv` only: with one set of files,
whoever writes is the call that holds them. The refinement does not need the lock at
all: the store's comparison of generations keeps the register true even after the
lock's files were replaced. Its step lemma sorts the actions into hidden ones
(`HiddenStep`), the write, the answers (`SettleStep`) and the crash. `LeasesAreReturned`
is what `CallsSettle` needs besides fairness: a call that waits for the lock finds it
free or in the hands of a call on its way to the release, unless a release failed.

`InstallSessionProofs` proves, for any set of calls and without any assumption:

| theorem | states |
|---|---|
| `TypeCorrect` | `Spec => []TypeOK` |
| `ReclaimedIsNotInstalled` | `Spec => []ReclaimedContentIsNotInstalled` |
| `StagingIsSettledHolds` | `Spec => []StagingIsSettled` |

A lease stays owned until the discard has ended, so the state of the lease does not
tell that content was taken back, and a claim in that time would succeed.
`ReclaimInv` adds what prevents it: whoever takes content back has aborted the session
before, nobody un-aborts it, and an aborted activation does not claim. `LeaseInv` adds
that nobody installs while the lease is owned, which a claim that comes first relies
on. Most actions change neither lease nor content: `Quiet` names what they may do,
`QuietStep` proves the invariant for all of them at once, and one lemma per action
(`ValidateIsQuiet`, ...) shows that it is quiet; `ReclaimStep` is shared by timeout and
cancellation.

That a close leaves nothing behind says something of the last step only; the invariant
`Answered` says it of every moment. `StagedInv`: staged content is pending for the
close, or being installed, or its lease is owned and a discard is under way, an opening
holds it, or the session's entry does; an entry that has ended, or was dropped, answers
for nothing unless a failure was lost before. `SessionInv` and `OpeningInv` (nobody
works on a session before it is kept) are what makes the opening the only one in
question, and `ClosedInv` carries the rest over the last retry. `CallGoesOn` proves it
for all calls that leave the content alone, `GivingUpAnswers` for those that release it.

`LifecycleTransitionProofs` proves, for any operations, processes, revisions and number
of faults, from `ConstantsAreTyped` (the bound on faults is a number, and `None` is no
operation, process, record or plan):

| theorem | states |
|---|---|
| `InductiveInvariant` | `Spec => []IInv` |
| `TypeCorrect` | `Spec => []TypeOK` |
| `MarkersAreRecoverableHolds` | `Spec => []MarkersAreRecoverable` |
| `JournalIsTrueHolds` | `Spec => []JournalIsTrue` |
| `AnswersAreTrueHolds` | `Spec => []AnswersAreTrue` |
| `DeletionIsConfirmedHolds` | `Spec => DeletionIsConfirmed` |
| `TransitionsAreAtomicHolds` | `Spec => TransitionsAreAtomic`, the refinement of `PluginTransaction` |

None but the first is inductive: the row and the answer of an operation say nothing of
who else is about to write the record. What keeps the writers apart is the marker.
`StateMove` lists the five writes of the record; all but the first find their own
marker on it, and `StateMoves` says what each leaves. `OpInv` says for each place in
`execute` what the operation may rely on, `ProcInv` the same for `recover`: a recovery
that has passed the check of the owner works on an operation that has stopped (`Past`),
so that the two never both write, while any number of recoveries may undo the same
operation; `Undone` is what each of them knows afterwards, whoever did it. Steps are
grouped by what they touch (`QuietStep`, `JournalStep`, `ReadingStep`, `RowStep`), and
`OpKeeps` and `ProcKeeps` say that a step leaves the others' invariants alone. For the
refinement, `WriteIsTransaction` maps the five writes: the first opens the transaction,
finishing and undoing close it, putting the previous record back under the marker is no
step.

Of an operation that was told "aborted", `AnswersAreTrue` claims three things: its row is
not completed, it has not finished, and if it has touched the record, its marker is still
there or the previous record was restored. `EffectInv` carries this: from its first write
on, an operation that has neither finished nor been undone is the one the marker names.
`EffectsKeep` is about the writes of the record, `EffectsStay` about all other steps.

`UpdateSchedulingProofs` proves, for any processes and durations, from
`ConstantsAreTyped`; its one substantial assumption is `Pause <= ClaimTime`, that a clock
reading still in use is never older than a whole claim:

| theorem | states |
|---|---|
| `InductiveInvariant` | `Spec => []IInv` |
| `TypeCorrect` | `Spec => []TypeOK` |
| `SnapshotNeverRegressesHolds` | `Spec => SnapshotNeverRegresses` |
| `LiveClaimIsKeptHolds` | `Spec => LiveClaimIsKept` |
| `OwnerRefreshesHolds` | `Spec => OwnerRefreshes` |

`OwnerRefreshes` says that the process owns the scope when the claim is committed, and
that the lease had not expired at the time the claim begins at. That it has not expired at
the commit is not true and not claimed: `validate` gets a clock value read before its two
awaits and the commit (`marketplace-refresh-service.ts:197`).

A task decides on what it read of the registration and writes later, and the store only
compares versions. The invariant therefore says what a reading is good for as long as
nobody wrote the registration since; the commit of a stale one fails. `Types` leaves out
the schedule `due`, which nothing else depends on. Its type is a claim about the backoff:
the delay never exceeds the longest interval, however often a refresh failed
(`BackoffIsBounded`, `DelayIsBounded`). The prover knows nothing of powers; that one of
two is a number follows from the count of subsets (`PowersAreNumbers`).

`RevisionCollectionProofs` proves, for any content, sessions, grace, size of a run and
number of faults, from `ConstantsAreTyped`:

| theorem | states |
|---|---|
| `InductiveInvariant` | `Spec => []IInv` |
| `TypeCorrect` | `Spec => []TypeOK` |
| `SelectedIsRecordedHolds` | `Spec => []SelectedIsRecorded`: what is selected is among the recorded revisions |
| `ReferencedContentStaysHolds` | `Spec => ReferencedContentStays` |

A collection asks record, journal and sessions one after the other, and each may change
as soon as it has answered; that content is unreferenced when it is deleted is therefore
not true, and not claimed. What is true is said with the history `held`: the references
to content that is due which have stood ever since the last scan. `HeldInv` says that
none of them comes from an authority that was asked since (`Asked`), because asking
takes what it refers to off the list; all three were asked before the first deletion.
`HeldStep` shows that nothing enters the history after the scan, so that only the steps
of the collection itself have to be looked at (`OutsideStep` does the others at once).
`OpInv` keeps the selection among the recorded revisions, which is what lets a pruning
of the record spare it.

`UpdateNoticesProofs` proves, for any revisions, snapshots, policies, processes,
commands, size of the record and number of faults, from `ConstantsAreTyped`:

| theorem | states |
|---|---|
| `InductiveInvariant` | `Spec => []IInv` |
| `TypeCorrect` | `Spec => []TypeOK`, with one notice of a revision at most |
| `AppliedIsFinalHolds` | `Spec => AppliedIsFinal` |
| `NoticesSurviveHolds` | `Spec => NoticesSurvive` |

`TaskInv` says what a run that decided earlier may still rely on: from its commit to its
end an automatic update has the plugin for itself, its revision is selected and the
transition pending, and no second one of any process is there. It rests on the check for
a pending transition in whatever selects a revision, and on the recovery leaving living
operations alone. `AppliedIsFinal` is then looked at per step (`Truthful`). Survival of
notices is argued by positions: `Accounted` says of the notice at each one that it is
found again, open or with its update over or applied, or that it was read and is over.
Edits keep positions (`AcknowledgeEdits`, `MarkEdits`, `SettleEdits`); for the prune,
`PruneKeeps` counts: as many places as there are notices to stay and no notice at two of
them, so that each has its place. For that proof `Prunes` states the order of what stays
as an increasing choice of positions, not with `SelectSeq`, which is recursive.

`ReloadHandoffProofs` proves, for any operations and any number of reloads, from
`OpsAssumption` (finitely many operations, `NoOp` is none of them, there is a host):

| theorem | states |
|---|---|
| `InductiveInvariant` | `Spec => []IInv` |
| `TypeCorrect` | `Spec => []TypeOK` |
| `AcceptedIsActiveHolds` | `Spec => []AcceptedIsActive` |
| `SelectionInvariant` | `Spec => []SelectionInv`: a catalog is the one committed last, none, or the candidate being built |
| `HooksAreConsistentHolds` | `Spec => []HooksAreConsistent` |
| `OpenTicketsAreAwaitedHolds` | `Spec => []OpenTicketsAreAwaited` |

The answer of `wait()` is made long after the reconstruction that justifies it.
`IInv` follows a ticket from its claim (`HostsInv`, `TicketsInv`), through what the
reconstruction has activated so far and would put back (`JobInv`), to the successor
that keeps it until it publishes (`AnswersInv`). Lemmas common to all steps of a host
(`HostStep`), of an operation (`OperationStep`) and of the reconstruction
(`RebuildStep`) carry the parts a step does not touch.

`HooksAreConsistent` has two parts. `PiEventsSeeWhole`, about hooks that quiescence holds
back, is part of `IInv`. `OthersSeeCommitted`, about the others, rests on the catalog:
`withContext` refuses a hook whose revision is not the selected one, so that skills which
could not be restored do no harm. `SelectionInv` says where the selection can stand:
at the one committed last (a failure after the commit leaves it on the candidate, which
is committed then), or at the candidate of the reconstruction that is going on, which
goes back to a committed one (`CandidateInv`). `SelectionKept` and `SelectionSettled` are
its two kinds of steps.

Only model-checked: all liveness (`FlatCallsAreServed`, `CallsSettle`,
`InterruptedTransitionsEnd`, `OwedDeletionsHappen`, `InactiveContentGoes`,
`DueIsRefreshed`, `NoticesArePublished`, `AutomaticUpdatesHappen`,
`ClaimedReloadsAnswer`), and the three properties that are violated. Liveness under
fairness and ENABLED are beyond the prover, as would be what a recursive definition
computes for every input (there is none).

## 6. Where the code disagrees with its documents

1. **One nested acquisition may wait for ever** (`scheduler_nested`).
   `keyed-mutation-scheduler.ts:135` refuses only keys that overlap those held. A call
   holds a; a second one, made by nobody's work, wants a and b, and waits at the head of
   b's queue; then the work of the first calls `run` for b. The nested call stands behind
   the second, the second waits for a, and a is held until the nested call has ended. No
   two calls need to nest. ARCHITECTURE.md:820 says the callback cannot acquire another
   key, and a test proves "disjoint closure recursion safe" with nobody queued for b.
2. **An abandoned row may belong to a transition that took effect** (`abandoned_rows`).
   A crash between the final commit (`lifecycle-transition-reconciler.ts:218`) and
   `settle("completed")` leaves a prepared row without a reference;
   `recovery-service.ts:151` takes it for inert, and for a confirmed uninstall the owed
   deletion is dropped.
3. **A late deletion removes a new installation's data** (`reinstall`).
   `native-uninstall-cleanup.ts:36` looks at scope and plugin only; a plugin installed
   between the final commit and the deletion loses its data (COMPATIBILITY.md:481).

Observed while modelling, stated by no run:
- A row marked `recovery-required` whose record carries no marker is never looked at
  again. With `allowAbsent` an install may thus be journalled `rolled-back` although it
  finished and a later uninstall removed it; `JournalIsTrue` excludes installs from
  its last conjunct.
- `runFirstCommit` answers "rejected, aborted" (`plugin-lifecycle-service.ts:605`) for an
  abort during the lookup of an ambiguous commit, which may be durable: the record then
  carries the marker of an operation that was reported as cancelled with effects
  "unchanged" (`native-lifecycle-result.ts:97`), although a test says that an operation
  "never cancels after a durable phase starts" (`native-lifecycle-operation-service.test.ts:108`).
  It takes a commit whose answer is lost and an abort right after it. The `transition`
  run reaches this; `AnswersAreTrue` says what holds all the same: the operation never
  comes to its end, and either its marker is left for recovery or it was restored.
- The rollback of an install removes the record, with its marker, in its first
  write; a crash before the row is settled is then seen as an unreferenced row only.
- `complete-plugin-reload.ts` restores through a second reload, while the packaged
  host's reload context serves once: the restoration then ends in `recovery-required`
  and a later startup finishes it. The model has this as a fault of `Recheck`.
- ARCHITECTURE.md:558-562 has startup finalize verified activations; a startup
  runtime leaves out plugins with a marker (`runtime-desired-state.ts:136`), so it
  always restores. The model does the same.

*Collection.* A promotion that finds its content in the store takes it as it is
(`immutable-content-store.ts`), without protection from a removal at that moment. A
prune that changes the record under a pending transition leaves the operation for
recovery. ARCHITECTURE.md:555 promises a grace period since the last reference; a mark
is lifted only when a collection happens to find the revision referenced, so an old
mark shortens it: the model has marks of any age. A batch is the first
`maxArtifactsPerRun` of a scan (`revision-collection-service.ts:195`), so that with more
than these in use nothing after them is ever removed; residue of a dead promotion
defers every collection. The packaged host creates the service
(`create-packaged-plugin-host.ts:349`) and never calls it.

*Scheduling.* A lease renewed after its contender read the clock lies in the future of
that reading and counts as inactive: it is taken. That is harmless, as the commit of a
claim looks at lease and registration again.

*Notices and automatic updates.* Background runs are never admitted
(they have no context to reload the host in): only the command applies updates. "Update
All" is denied under a manual policy, as the adapter passes the origin
"automatic-update" (`automatic-update-coordinator.test.ts:111` expects otherwise). A
notice that points to a snapshot which is no longer selected is not resolved
(`marketplace-catalog-service.ts:372`); for a plugin with a source of its own, whose
revision a new snapshot repeats, no other notice is recorded, and it is never applied
automatically. `AutomaticUpdatesHappen` is therefore checked for plugins that lie in
their marketplace. The reconciliation takes the revision of a pending transition for
installed (`update-notification-service.ts:351`) and closes its notice, although it may
be rolled back. The policy is not asked again at the commit. "Shown once per discovered
revision" (SPEC.md:598) is at least once: two dispatchers, or a crash before the mark,
publish twice. A run takes the oldest twenty open notices and a dispatch the first
hundred, so that notices which stay open starve later ones.

*Reload.* A successor that fails before it claims leaves the ticket open, and the
operation waits until it is aborted or a later start claims it; hence
`ClaimedReloadsAnswer` speaks of claimed tickets only. A successor whose ticket was
settled by an abort cannot publish: its `resources_discover` throws and its skills are
not returned to Pi. The successor of an aborted operation goes on with the candidate,
though the record goes back; a first reconstruction that fails leaves a host without
active plugins (SPEC.md:606). A failure after `candidate.commit()` leaves the catalog on
the candidate, so that a SessionEnd or subagent hook of it may run though the operation
was refused. After any failed reconstruction these two kinds run in a host that is
quiesced, and possibly without the MCP servers of their plugin. "rolled-back" cannot come out of an operation of the packaged host, as its
restoration would need a second reload.

*Installation.* `recover()` does not ask whether an activation is at work, and may start a
second one beside it (`trusted-install-service.test.ts:170` expects concurrent
activations to be rejected). A session that expires while it waits for a recovery is
dropped with the capability to recover, which "must remain callable"
(`trusted-install-service.ts:556`). A discard that fails when a session expires is
kept by nobody: the exception in `StagingIsSettled`. An activation that ends after its
session expired overwrites "expired".

## 7. Not modelled

Inside the modelled components:
- Documents are abstract: their schemas, digests and validation are not modelled, nor
  is the cut-over of old store versions. An invalid document appears as `Throw`.
- The creation of the lock's files and the reclaim of a dead initialization
  (`sqlite-scope-lock.ts`); `ReplaceLock` stands for whatever replaces them.
- In `LifecycleTransition` one plugin of one scope: other plugins appear as stale
  answers of the guarded mutation. The bounded rebase attempts are that answer, too.
- Trust, configuration and candidate preparation of an operation: a failure there
  is an operation that never starts, or a fault of the first commit.
- The recovery budgets and the day of grace of prepared rows: the grace counts as
  over as soon as the owner is gone. Owner processes that cannot be classified.
- The prune of terminal rows, quarantine and recovery artifacts.

- `RevisionCollection`: one collector, one plugin; projections and marketplace content
  as further kinds of key, the prune of terminal journal rows, the scanner of staging
  residue. A row leaves `left` by a recovery that LifecycleTransition describes.
- `UpdateScheduling`: several scopes in a cycle, a paused cadence, wakes, the published
  status, jitter and the count of consecutive failures (any count), a wall clock that
  runs backwards. `UpdateNotices`: several plugins and scopes, listing and paging, retry
  times and reasons (a notice that may be retried may be retried at any time), the limits
  of a run and of a dispatch, the removal of a marketplace, the consent of a policy
  change, the policies of a project.
- `ReloadHandoff`: quitting Pi, a close of the runtime that fails, the manager screen's
  own handoff, what a desired state contains beside the revision of a plugin.
- `InstallSession`: one session; `run` with a decision provider is an opening followed by
  an activation; progress, versions of a submission, and the evidence that is validated
  (valid, stale, or input missing).
- Two hazards have no property: two processes that reclaim a dead initialization of the
  lock's database (`sqlite-scope-lock.ts:505`), and the starvation of later notices by a
  run's limit (`automatic-update-coordinator.ts:212`), which needs more plugins than one.

Components without a module. Configuration and secrets, the participants beside their
reconciliation in `ReloadHandoff`, hook decisions, and project synchronization are still
open in the plan. The adapters (git, npm, http, archives), the formats and
schemas, inspection, and the screens are most of the repository's lines: they are
sequential work on data (parsing, normalizing, formatting, copying), with no state of
their own that a step of somebody else could change, and the unit tests reach them. This
is why the modules stand for a small part of the lines, but for most of the control.
